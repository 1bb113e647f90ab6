------------------------------ MODULE SumLemmas ------------------------------
(***************************************************************************)
(* Induction over the natural numbers and over finite sets, stated with    *)
(* sets instead of predicates so that the provers can instantiate it, the  *)
(* facts about SumFunctionOnSet that the ledgers of the models need, what  *)
(* a fold over a sequence computes, step by step, and how the elements of  *)
(* a finite set are put in order.                                          *)
(***************************************************************************)
EXTENDS Integers, FiniteSets, FiniteSetsExt, Functions, Sequences, FiniteSetTheorems, TLAPS

\* A non-empty set of natural numbers has a least element.
LEMMA LeastNumber ==
    ASSUME NEW T, T \subseteq Nat, T # {}
    PROVE  \E n \in T : \A m \in T : ~ (m < n)
<1>1. IsWellFoundedOn(OpToRel(<, Nat), Nat)
  BY NatLessThanWellFounded
<1>2. \E x \in T : \A y \in T : ~ (<<y, x>> \in OpToRel(<, Nat))
  BY <1>1, WFMin
<1>3. \A x, y \in Nat : y < x => <<y, x>> \in OpToRel(<, Nat)
  BY DEF OpToRel
<1> QED
  BY <1>2, <1>3

\* One with a bound has a greatest.
LEMMA GreatestNumber ==
    ASSUME NEW T, T \subseteq Nat, T # {}, NEW b \in Nat, \A n \in T : n <= b
    PROVE  \E n \in T : \A m \in T : n >= m
<1> DEFINE Gaps == {b - n : n \in T}
<1>0. \A n \in T : b - n \in Nat
  OBVIOUS
<1>1. Gaps \subseteq Nat /\ Gaps # {}
  BY <1>0
<1> HIDE DEF Gaps
<1>2. PICK g \in Gaps : \A e \in Gaps : ~ (e < g)
  BY <1>1, LeastNumber
<1>3. PICK n \in T : g = b - n
  BY DEF Gaps
<1>4. ASSUME NEW m \in T PROVE n >= m
  <2>1. b - m \in Gaps
    BY DEF Gaps
  <2>2. ~ (b - m < b - n) /\ m \in Nat /\ n \in Nat
    BY <1>2, <1>3, <2>1
  <2> QED
    BY <2>2
<1> QED
  BY <1>4

\* A set that contains zero and the successor of each of its numbers contains
\* every natural number.
LEMMA InductionOnNumbers ==
    ASSUME NEW G, 0 \in G, \A n \in Nat : n \in G => n + 1 \in G
    PROVE  \A n \in Nat : n \in G
<1> DEFINE T == {n \in Nat : n \notin G}
<1> SUFFICES ASSUME T # {} PROVE FALSE
  OBVIOUS
<1>1. PICK n \in T : \A m \in T : ~ (m < n)
  <2>1. T \subseteq Nat
    OBVIOUS
  <2> HIDE DEF T
  <2> QED
    BY <2>1, LeastNumber
<1>2. n # 0
  OBVIOUS
<1>3. n - 1 \in Nat /\ n - 1 \notin T
  BY <1>1, <1>2
<1>4. n - 1 \in G
  BY <1>3
<1> QED
  BY <1>3, <1>4, <1>1

\* A collection of subsets of a finite set that contains the empty set, and with a
\* set that set and one more element, contains the whole set.
LEMMA InductionOnSubsets ==
    ASSUME NEW S, IsFiniteSet(S), NEW G, {} \in G,
           \A T \in SUBSET S : T \in G => \A x \in S \ T : T \cup {x} \in G
    PROVE  S \in G
<1> DEFINE N == {n \in Nat : \A T \in SUBSET S : Cardinality(T) = n => T \in G}
<1>1. \A T \in SUBSET S : IsFiniteSet(T) /\ Cardinality(T) \in Nat
  BY FS_Subset, FS_CardinalityType
<1>2. 0 \in N
  BY <1>1, FS_EmptySet
<1>3. ASSUME NEW n \in Nat, n \in N PROVE n + 1 \in N
  <2> SUFFICES ASSUME NEW T \in SUBSET S, Cardinality(T) = n + 1 PROVE T \in G
    OBVIOUS
  <2>1. T # {}
    BY FS_EmptySet, <1>1
  <2>2. PICK x \in T : TRUE
    BY <2>1
  <2>3. T \ {x} \in SUBSET S /\ Cardinality(T \ {x}) = n
    BY <1>1, FS_RemoveElement, SMTT(30)
  <2>4. T \ {x} \in G
    BY <1>3, <2>3
  <2>5. x \in S \ (T \ {x}) /\ T = (T \ {x}) \cup {x}
    OBVIOUS
  <2> QED
    BY <2>3, <2>4, <2>5
<1> HIDE DEF N
<1>4. \A n \in Nat : n \in N
  BY <1>2, <1>3, InductionOnNumbers
<1> QED
  BY <1>1, <1>4, FS_CardinalityType DEF N
-----------------------------------------------------------------------------
(* SumFunctionOnSet(f, S) is defined by a recursive function on the subsets *)
(* of S, which takes the elements out one by one.                           *)

Picked(s) == CHOOSE x \in s : TRUE

Unfolds(h, f, S) ==
    h = [s \in SUBSET S |-> IF s = {} THEN 0 ELSE f[Picked(s)] + h[s \ {Picked(s)}]]

LEMMA PickedInSet == \A s : s # {} => Picked(s) \in s
  BY DEF Picked

\* The sum is the value of some function that satisfies the equation, if there is one.
LEMMA SumUnfolds ==
    ASSUME NEW f, NEW S, \E h : Unfolds(h, f, S)
    PROVE  \E h : Unfolds(h, f, S) /\ SumFunctionOnSet(f, S) = h[S]
<1> DEFINE h == CHOOSE h : Unfolds(h, f, S)
<1>1. Unfolds(h, f, S)
  OBVIOUS
<1>2. SumFunctionOnSet(f, S) = h[S]
  BY DEF SumFunctionOnSet, FoldFunctionOnSet, MapThenFoldSet, Unfolds, Picked
<1> QED
  BY <1>1, <1>2

\* There is one for every finite set.
LEMMA UnfoldingExists ==
    ASSUME NEW f, NEW S, IsFiniteSet(S)
    PROVE  \E h : Unfolds(h, f, S)
<1> DEFINE Parts == SUBSET S
           Value(h, s) == IF s = {} THEN 0 ELSE f[Picked(s)] + h[s \ {Picked(s)}]
           UpTo(h, n) == \A s \in Parts : Cardinality(s) <= n => h[s] = Value(h, s)
           N == {n \in Nat : \E h : UpTo(h, n)}
<1>1. \A s \in Parts : /\ Cardinality(s) \in Nat
                       /\ s # {} => /\ s \ {Picked(s)} \in Parts
                                    /\ Cardinality(s \ {Picked(s)}) = Cardinality(s) - 1
                       /\ Cardinality(s) = 0 <=> s = {}
                       /\ Cardinality(s) <= Cardinality(S)
  BY FS_Subset, FS_CardinalityType, FS_RemoveElement, FS_EmptySet, PickedInSet
<1>0. \A s \in Parts : Cardinality(s) \in Nat
  BY FS_Subset, FS_CardinalityType
<1> HIDE DEF Parts
<1>2. 0 \in N
  <2>1. ASSUME NEW s \in Parts, Cardinality(s) <= 0 PROVE s = {}
    <3>1. Cardinality(s) = 0
      BY <1>0, <2>1
    <3> QED
      BY <1>1, <3>1
  <2>2. UpTo([s \in Parts |-> 0], 0)
    BY <2>1
  <2> HIDE DEF UpTo
  <2> QED
    BY <2>2
<1>3. ASSUME NEW n \in Nat, n \in N PROVE n + 1 \in N
  <2>1. PICK h : UpTo(h, n)
    BY <1>3
  <2> DEFINE k == [s \in Parts |-> IF Cardinality(s) <= n THEN h[s] ELSE Value(h, s)]
  <2>2. UpTo(k, n + 1)
    <3> SUFFICES ASSUME NEW s \in Parts, Cardinality(s) <= n + 1 PROVE k[s] = Value(k, s)
      OBVIOUS
    <3>1. k[s] = Value(h, s)
      BY <2>1
    <3>2. s # {} => k[s \ {Picked(s)}] = h[s \ {Picked(s)}]
      BY <1>1
    <3> HIDE DEF k
    <3> QED
      BY <3>1, <3>2
  <2> HIDE DEF UpTo, k
  <2> QED
    BY <2>2
<1>4. \A n \in Nat : n \in N
  <2> HIDE DEF N
  <2> QED
    BY <1>2, <1>3, InductionOnNumbers
<1>5. Cardinality(S) \in Nat
  BY FS_CardinalityType
<1>6. PICK h : UpTo(h, Cardinality(S))
  BY <1>4, <1>5
<1>7. \A s \in Parts : h[s] = Value(h, s)
  BY <1>1, <1>6
<1>8. \A s \in Parts : s # {} => s \ {Picked(s)} \in Parts
  BY <1>1
<1>9. Unfolds([s \in Parts |-> h[s]], f, S)
  BY <1>7, <1>8 DEF Unfolds, Parts
<1> QED
  BY <1>9

\* Only one, so that a sum over a part does not depend on the whole.
LEMMA UnfoldingsAgree ==
    ASSUME NEW f, NEW S, IsFiniteSet(S), NEW T \in SUBSET S,
           NEW h, Unfolds(h, f, S), NEW k, Unfolds(k, f, T)
    PROVE  h[T] = k[T]
<1> DEFINE Parts == SUBSET T
           N == {n \in Nat : \A s \in Parts : Cardinality(s) = n => h[s] = k[s]}
<1>1. \A s \in Parts : /\ Cardinality(s) \in Nat
                       /\ s # {} => /\ s \ {Picked(s)} \in Parts
                                    /\ Cardinality(s \ {Picked(s)}) = Cardinality(s) - 1
                       /\ Cardinality(s) = 0 <=> s = {}
  BY FS_Subset, FS_CardinalityType, FS_RemoveElement, FS_EmptySet, PickedInSet
<1>0. T \in Parts
  OBVIOUS
<1>2. \A s \in Parts :
         /\ h[s] = IF s = {} THEN 0 ELSE f[Picked(s)] + h[s \ {Picked(s)}]
         /\ k[s] = IF s = {} THEN 0 ELSE f[Picked(s)] + k[s \ {Picked(s)}]
  BY DEF Unfolds
<1> HIDE DEF Parts
<1>3. 0 \in N
  BY <1>1, <1>2
<1>4. ASSUME NEW n \in Nat, n \in N PROVE n + 1 \in N
  <2> SUFFICES ASSUME NEW s \in Parts, Cardinality(s) = n + 1 PROVE h[s] = k[s]
    OBVIOUS
  <2>1. s # {} /\ s \ {Picked(s)} \in Parts /\ Cardinality(s \ {Picked(s)}) = n
    BY <1>1
  <2>2. h[s \ {Picked(s)}] = k[s \ {Picked(s)}]
    BY <1>4, <2>1
  <2> QED
    BY <1>2, <2>1, <2>2
<1>5. \A n \in Nat : n \in N
  <2> HIDE DEF N
  <2> QED
    BY <1>3, <1>4, InductionOnNumbers
<1> QED
  BY <1>0, <1>1, <1>5

\* The equation of the sum.
LEMMA SumEquation ==
    ASSUME NEW f, NEW S, IsFiniteSet(S)
    PROVE  SumFunctionOnSet(f, S) =
               IF S = {} THEN 0
               ELSE f[Picked(S)] + SumFunctionOnSet(f, S \ {Picked(S)})
<1>1. PICK h : Unfolds(h, f, S) /\ SumFunctionOnSet(f, S) = h[S]
  BY UnfoldingExists, SumUnfolds
<1>2. h[S] = IF S = {} THEN 0 ELSE f[Picked(S)] + h[S \ {Picked(S)}]
  BY <1>1 DEF Unfolds
<1> DEFINE T == S \ {Picked(S)}
<1>3. IsFiniteSet(T) /\ T \in SUBSET S
  BY FS_Subset
<1> HIDE DEF T
<1>4. PICK k : Unfolds(k, f, T) /\ SumFunctionOnSet(f, T) = k[T]
  BY <1>3, UnfoldingExists, SumUnfolds
<1>5. h[T] = k[T]
  BY <1>1, <1>3, <1>4, UnfoldingsAgree
<1> QED
  BY <1>1, <1>2, <1>4, <1>5 DEF T

\* The sum over no element is zero.
LEMMA SumEmpty == \A f : SumFunctionOnSet(f, {}) = 0
  BY SumEquation, FS_EmptySet

\* An integer for every element adds up to an integer.
LEMMA SumType ==
    ASSUME NEW S, IsFiniteSet(S), NEW f, \A x \in S : f[x] \in Int
    PROVE  SumFunctionOnSet(f, S) \in Int
<1> DEFINE Parts == SUBSET S
           N == {n \in Nat : \A T \in Parts : Cardinality(T) = n => SumFunctionOnSet(f, T) \in Int}
<1>1. \A T \in Parts : /\ IsFiniteSet(T) /\ Cardinality(T) \in Nat
                       /\ T # {} => /\ T \ {Picked(T)} \in Parts
                                    /\ Cardinality(T \ {Picked(T)}) = Cardinality(T) - 1
                                    /\ Picked(T) \in S
                       /\ Cardinality(T) = 0 <=> T = {}
  BY FS_Subset, FS_CardinalityType, FS_RemoveElement, FS_EmptySet, PickedInSet
<1>0. S \in Parts
  OBVIOUS
<1> HIDE DEF Parts
<1>2. 0 \in N
  <2>1. \A T \in Parts : Cardinality(T) = 0 => SumFunctionOnSet(f, T) = 0
    BY <1>1, SumEmpty, Zenon
  <2> QED
    BY <2>1
<1>3. ASSUME NEW n \in Nat, n \in N PROVE n + 1 \in N
  <2> SUFFICES ASSUME NEW T \in Parts, Cardinality(T) = n + 1
               PROVE  SumFunctionOnSet(f, T) \in Int
    OBVIOUS
  <2>1. T # {} /\ Cardinality(T \ {Picked(T)}) = n /\ T \ {Picked(T)} \in Parts
    BY <1>1
  <2>2. SumFunctionOnSet(f, T \ {Picked(T)}) \in Int
    BY <1>3, <2>1
  <2>3. f[Picked(T)] \in Int
    BY <1>1, <2>1
  <2> QED
    BY <1>1, <2>1, <2>2, <2>3, SumEquation
<1>4. \A n \in Nat : n \in N
  <2> HIDE DEF N
  <2> QED
    BY <1>2, <1>3, InductionOnNumbers
<1> QED
  BY <1>0, <1>1, <1>4

\* Any element can be taken out first.
LEMMA SumRemove ==
    ASSUME NEW S, IsFiniteSet(S), NEW f, \A x \in S : f[x] \in Int
    PROVE  \A x \in S : SumFunctionOnSet(f, S) = f[x] + SumFunctionOnSet(f, S \ {x})
<1> DEFINE Good(T) == \A x \in T : SumFunctionOnSet(f, T) = f[x] + SumFunctionOnSet(f, T \ {x})
           Parts == SUBSET S
           N == {n \in Nat : \A T \in Parts : Cardinality(T) = n => Good(T)}
<1>1. \A T \in Parts : /\ IsFiniteSet(T) /\ Cardinality(T) \in Nat
                       /\ \A x \in T : /\ T \ {x} \in Parts
                                       /\ Cardinality(T \ {x}) = Cardinality(T) - 1
                                       /\ f[x] \in Int
                       /\ Cardinality(T) = 0 <=> T = {}
  BY FS_Subset, FS_CardinalityType, FS_RemoveElement, FS_EmptySet
<1>2. \A T \in Parts : SumFunctionOnSet(f, T) \in Int
  BY <1>1, SumType
<1>0. S \in Parts
  OBVIOUS
<1> HIDE DEF Parts
<1>3. 0 \in N
  BY <1>1
<1>4. ASSUME NEW n \in Nat, n \in N PROVE n + 1 \in N
  <2> SUFFICES ASSUME NEW T \in Parts, Cardinality(T) = n + 1, NEW x \in T
               PROVE  SumFunctionOnSet(f, T) = f[x] + SumFunctionOnSet(f, T \ {x})
    OBVIOUS
  <2> DEFINE p == Picked(T)
  <2>1. p \in T
    BY PickedInSet
  <2>2. SumFunctionOnSet(f, T) = f[p] + SumFunctionOnSet(f, T \ {p})
    BY <1>1, <2>1, SumEquation
  <2> HIDE DEF p
  <2>3. CASE x = p
    BY <2>2, <2>3
  <2>4. CASE x # p
    <3>1. /\ T \ {p} \in Parts /\ Cardinality(T \ {p}) = n /\ x \in T \ {p}
          /\ T \ {x} \in Parts /\ Cardinality(T \ {x}) = n /\ p \in T \ {x}
      BY <1>1, <2>1, <2>4
    <3>2. SumFunctionOnSet(f, T \ {p}) = f[x] + SumFunctionOnSet(f, (T \ {p}) \ {x})
      BY <1>4, <3>1
    <3>3. SumFunctionOnSet(f, T \ {x}) = f[p] + SumFunctionOnSet(f, (T \ {x}) \ {p})
      BY <1>4, <3>1
    <3> DEFINE U == (T \ {x}) \ {p}
    <3>4. (T \ {p}) \ {x} = U
      OBVIOUS
    <3>5. U \in Parts
      BY <1>1, <3>1
    <3>6. f[p] \in Int /\ f[x] \in Int /\ SumFunctionOnSet(f, U) \in Int
      BY <1>1, <1>2, <2>1, <3>5
    <3>7. /\ SumFunctionOnSet(f, T \ {p}) = f[x] + SumFunctionOnSet(f, U)
          /\ SumFunctionOnSet(f, T \ {x}) = f[p] + SumFunctionOnSet(f, U)
      BY <3>2, <3>3, <3>4
    <3> HIDE DEF U
    <3> QED
      BY <2>2, <3>6, <3>7
  <2> QED
    BY <2>3, <2>4
<1>5. \A n \in Nat : n \in N
  <2> HIDE DEF N
  <2> QED
    BY <1>3, <1>4, InductionOnNumbers
<1> QED
  BY <1>0, <1>1, <1>5

\* The same for an element that is put in.
LEMMA SumAdd ==
    ASSUME NEW S, IsFiniteSet(S), NEW x, x \notin S,
           NEW f, \A y \in S \cup {x} : f[y] \in Int
    PROVE  SumFunctionOnSet(f, S \cup {x}) = f[x] + SumFunctionOnSet(f, S)
<1>1. IsFiniteSet(S \cup {x}) /\ (S \cup {x}) \ {x} = S
  BY FS_AddElement
<1> QED
  BY <1>1, SumRemove

\* Only the values on the set matter.
LEMMA SumSame ==
    ASSUME NEW S, IsFiniteSet(S), NEW f, NEW g, \A x \in S : f[x] = g[x] /\ f[x] \in Int
    PROVE  SumFunctionOnSet(f, S) = SumFunctionOnSet(g, S)
<1> DEFINE G == {T \in SUBSET S : SumFunctionOnSet(f, T) = SumFunctionOnSet(g, T)}
<1>1. {} \in G
  BY SumEmpty
<1>2. ASSUME NEW T \in SUBSET S, T \in G, NEW x \in S \ T PROVE T \cup {x} \in G
  <2>1. IsFiniteSet(T)
    BY FS_Subset
  <2>2. /\ SumFunctionOnSet(f, T \cup {x}) = f[x] + SumFunctionOnSet(f, T)
        /\ SumFunctionOnSet(g, T \cup {x}) = g[x] + SumFunctionOnSet(g, T)
    BY <2>1, SumAdd
  <2> QED
    BY <1>2, <2>2
<1> HIDE DEF G
<1>3. S \in G
  BY <1>1, <1>2, InductionOnSubsets
<1> QED
  BY <1>3 DEF G

\* Smaller values do not add up to more.
LEMMA SumMonotone ==
    ASSUME NEW S, IsFiniteSet(S), NEW f, NEW g, \A x \in S : f[x] \in Int /\ g[x] \in Int /\ f[x] <= g[x]
    PROVE  SumFunctionOnSet(f, S) <= SumFunctionOnSet(g, S)
<1> DEFINE G == {T \in SUBSET S : SumFunctionOnSet(f, T) <= SumFunctionOnSet(g, T)}
<1>1. {} \in G
  BY SumEmpty
<1>2. ASSUME NEW T \in SUBSET S, T \in G, NEW x \in S \ T PROVE T \cup {x} \in G
  <2>1. IsFiniteSet(T)
    BY FS_Subset
  <2>2. /\ SumFunctionOnSet(f, T \cup {x}) = f[x] + SumFunctionOnSet(f, T)
        /\ SumFunctionOnSet(g, T \cup {x}) = g[x] + SumFunctionOnSet(g, T)
    BY <2>1, SumAdd
  <2>3. SumFunctionOnSet(f, T) \in Int /\ SumFunctionOnSet(g, T) \in Int
    BY <2>1, SumType
  <2>4. f[x] \in Int /\ g[x] \in Int /\ f[x] <= g[x] /\ SumFunctionOnSet(f, T) <= SumFunctionOnSet(g, T)
    BY <1>2
  <2> QED
    BY <2>2, <2>3, <2>4
<1> HIDE DEF G
<1>3. S \in G
  BY <1>1, <1>2, InductionOnSubsets
<1> QED
  BY <1>3 DEF G

\* Natural numbers add up to a natural number.
LEMMA SumNat ==
    ASSUME NEW S, IsFiniteSet(S), NEW f, \A x \in S : f[x] \in Nat
    PROVE  SumFunctionOnSet(f, S) \in Nat
<1> DEFINE G == {T \in SUBSET S : SumFunctionOnSet(f, T) \in Nat}
<1>1. {} \in G
  BY SumEmpty
<1>2. ASSUME NEW T \in SUBSET S, T \in G, NEW x \in S \ T PROVE T \cup {x} \in G
  <2>1. IsFiniteSet(T)
    BY FS_Subset
  <2>2. \A y \in T \cup {x} : f[y] \in Int
    OBVIOUS
  <2>3. SumFunctionOnSet(f, T \cup {x}) = f[x] + SumFunctionOnSet(f, T)
    BY <2>1, <2>2, SumAdd
  <2> QED
    BY <1>2, <2>3
<1> HIDE DEF G
<1>3. S \in G
  BY <1>1, <1>2, InductionOnSubsets
<1> QED
  BY <1>3 DEF G

\* A sum over the values of an injective function is a sum over its arguments.
LEMMA SumReindex ==
    ASSUME NEW S, IsFiniteSet(S), NEW g,
           \A x, y \in S : g[x] = g[y] => x = y,
           NEW f, \A x \in S : f[g[x]] \in Int
    PROVE  SumFunctionOnSet(f, {g[x] : x \in S}) = SumFunctionOnSet([x \in S |-> f[g[x]]], S)
<1> DEFINE fg == [x \in S |-> f[g[x]]]
           Image(T) == {g[x] : x \in T}
           G == {T \in SUBSET S : IsFiniteSet(Image(T)) /\ SumFunctionOnSet(f, Image(T)) = SumFunctionOnSet(fg, T)}
<1>1. {} \in G
  <2>1. Image({}) = {}
    OBVIOUS
  <2> QED
    BY <2>1, SumEmpty, FS_EmptySet
<1>2. ASSUME NEW T \in SUBSET S, T \in G, NEW x \in S \ T PROVE T \cup {x} \in G
  <2>1. IsFiniteSet(T) /\ IsFiniteSet(Image(T))
    BY <1>2, FS_Subset
  <2>2. Image(T \cup {x}) = Image(T) \cup {g[x]} /\ g[x] \notin Image(T)
    OBVIOUS
  <2>3. \A y \in T \cup {x} : fg[y] \in Int
    OBVIOUS
  <2>4. SumFunctionOnSet(fg, T \cup {x}) = fg[x] + SumFunctionOnSet(fg, T)
    <3> HIDE DEF fg
    <3> QED
      BY <2>1, <2>3, SumAdd
  <2>5. \A z \in Image(T) \cup {g[x]} : f[z] \in Int
    OBVIOUS
  <2>6. /\ SumFunctionOnSet(f, Image(T) \cup {g[x]}) = f[g[x]] + SumFunctionOnSet(f, Image(T))
        /\ IsFiniteSet(Image(T) \cup {g[x]})
    <3> HIDE DEF Image
    <3> QED
      BY <2>1, <2>2, <2>5, SumAdd, FS_AddElement
  <2>7. fg[x] = f[g[x]] /\ SumFunctionOnSet(f, Image(T)) = SumFunctionOnSet(fg, T)
    BY <1>2
  <2> HIDE DEF Image, fg
  <2> QED
    BY <2>2, <2>4, <2>6, <2>7
<1> HIDE DEF G
<1>3. S \in G
  BY <1>1, <1>2, InductionOnSubsets
<1> QED
  BY <1>3 DEF G

\* A value that changes is taken out and put in.
LEMMA SumExcept ==
    ASSUME NEW S, IsFiniteSet(S), NEW f, NEW g, NEW x \in S,
           \A y \in S : f[y] \in Int /\ g[y] \in Int,
           \A y \in S \ {x} : g[y] = f[y]
    PROVE  SumFunctionOnSet(g, S) = SumFunctionOnSet(f, S) - f[x] + g[x]
<1>1. IsFiniteSet(S \ {x})
  BY FS_Subset
<1>2. SumFunctionOnSet(f, S) = f[x] + SumFunctionOnSet(f, S \ {x})
  BY SumRemove
<1>3. SumFunctionOnSet(g, S) = g[x] + SumFunctionOnSet(g, S \ {x})
  BY SumRemove
<1>4. SumFunctionOnSet(f, S \ {x}) = SumFunctionOnSet(g, S \ {x})
  BY <1>1, SumSame
<1>5. SumFunctionOnSet(f, S \ {x}) \in Int /\ f[x] \in Int /\ g[x] \in Int
  BY <1>1, SumType
<1> QED
  BY <1>2, <1>3, <1>4, <1>5

\* Zeros may be left out.
LEMMA SumSupport ==
    ASSUME NEW S, IsFiniteSet(S), NEW T \in SUBSET S, NEW f,
           \A x \in S : f[x] \in Int, \A x \in S \ T : f[x] = 0
    PROVE  SumFunctionOnSet(f, T) = SumFunctionOnSet(f, S)
<1> DEFINE G == {U \in SUBSET (S \ T) : SumFunctionOnSet(f, T \cup U) = SumFunctionOnSet(f, T)}
<1>1. {} \in G
  <2>1. T \cup {} = T
    OBVIOUS
  <2> QED
    BY <2>1
<1>2. ASSUME NEW U \in SUBSET (S \ T), U \in G, NEW x \in (S \ T) \ U PROVE U \cup {x} \in G
  <2> DEFINE W == T \cup U
  <2>1. IsFiniteSet(W) /\ x \notin W /\ \A y \in W \cup {x} : f[y] \in Int
    BY FS_Subset
  <2>2. T \cup (U \cup {x}) = W \cup {x} /\ SumFunctionOnSet(f, W) = SumFunctionOnSet(f, T)
    BY <1>2
  <2> HIDE DEF W
  <2>3. SumFunctionOnSet(f, W \cup {x}) = f[x] + SumFunctionOnSet(f, W)
    BY <2>1, SumAdd
  <2>4. SumFunctionOnSet(f, W) \in Int /\ f[x] = 0
    BY <2>1, SumType
  <2> QED
    BY <2>2, <2>3, <2>4
<1>3. S \ T \in G
  <2>1. IsFiniteSet(S \ T)
    BY FS_Subset
  <2> HIDE DEF G
  <2> QED
    BY <1>1, <1>2, <2>1, InductionOnSubsets
<1>4. T \cup (S \ T) = S
  OBVIOUS
<1> QED
  BY <1>3, <1>4
-----------------------------------------------------------------------------
(* FoldLeft(op, base, seq) is defined by a recursive function on the sets  *)
(* of indices of seq, which takes the largest index out.  The lemmas take  *)
(* op as a function F on values V and elements R; the value that FoldLeft  *)
(* chooses satisfies its equation as long as the values are in V.          *)

LEMMA LastIndex ==
    ASSUME NEW n \in Nat, NEW s \in SUBSET (1..n), s # {}
    PROVE  Max(s) \in s /\ \A i \in s : i <= Max(s)
<1>1. s \subseteq Nat /\ \A i \in s : i <= n
  OBVIOUS
<1>2. \E i \in s : \A j \in s : i >= j
  BY <1>1, GreatestNumber
<1> QED
  BY <1>1, <1>2 DEF Max

Foldable(V, R, F, base, seq) ==
    /\ F \in [V \X R -> V]
    /\ base \in V
    /\ seq \in Seq(R)

FoldUnfolding(k, V, F, base, seq) ==
    /\ k \in [SUBSET (DOMAIN seq) -> V]
    /\ k = [s \in SUBSET (DOMAIN seq) |->
              IF s = {} THEN base ELSE F[<<k[s \ {Max(s)}], seq[Max(s)]>>]]

LEMMA FoldUnfolds ==
    ASSUME NEW V, NEW R, NEW F, NEW base, NEW seq, Foldable(V, R, F, base, seq)
    PROVE  \E k : FoldUnfolding(k, V, F, base, seq)
<1> SUFFICES ASSUME F \in [V \X R -> V], base \in V, seq \in Seq(R)
             PROVE  \E k \in [SUBSET (DOMAIN seq) -> V] :
                       k = [s \in SUBSET (DOMAIN seq) |->
                               IF s = {} THEN base ELSE F[<<k[s \ {Max(s)}], seq[Max(s)]>>]]
  BY DEF Foldable, FoldUnfolding
<1> DEFINE D == DOMAIN seq
           Parts == SUBSET D
           Value(h, s) == IF s = {} THEN base ELSE F[<<h[s \ {Max(s)}], seq[Max(s)]>>]
           UpTo(h, n) == \A s \in Parts : Cardinality(s) <= n => h[s] = Value(h, s)
           N == {n \in Nat : \E h : UpTo(h, n)}
<1>a. D = 1..Len(seq) /\ Len(seq) \in Nat /\ IsFiniteSet(D)
  BY FS_Interval
<1>b. \A s \in Parts : s # {} => Max(s) \in s
  BY <1>a, LastIndex
<1>1. \A s \in Parts : /\ Cardinality(s) \in Nat
                       /\ s # {} => /\ s \ {Max(s)} \in Parts
                                    /\ Cardinality(s \ {Max(s)}) = Cardinality(s) - 1
                       /\ Cardinality(s) = 0 <=> s = {}
                       /\ Cardinality(s) <= Cardinality(D)
  BY <1>a, <1>b, FS_Subset, FS_CardinalityType, FS_RemoveElement, FS_EmptySet
<1>0. \A s \in Parts : Cardinality(s) \in Nat
  BY <1>1
<1> HIDE DEF Parts
<1>2. 0 \in N
  <2>1. ASSUME NEW s \in Parts, Cardinality(s) <= 0 PROVE s = {}
    <3>1. Cardinality(s) = 0
      BY <1>0, <2>1
    <3> QED
      BY <1>1, <3>1
  <2>2. UpTo([s \in Parts |-> base], 0)
    BY <2>1
  <2> HIDE DEF UpTo
  <2> QED
    BY <2>2
<1>3. ASSUME NEW n \in Nat, n \in N PROVE n + 1 \in N
  <2>1. PICK h : UpTo(h, n)
    BY <1>3
  <2> DEFINE k == [s \in Parts |-> IF Cardinality(s) <= n THEN h[s] ELSE Value(h, s)]
  <2>2. UpTo(k, n + 1)
    <3> SUFFICES ASSUME NEW s \in Parts, Cardinality(s) <= n + 1 PROVE k[s] = Value(k, s)
      OBVIOUS
    <3>1. k[s] = Value(h, s)
      BY <2>1
    <3>2. ASSUME s # {} PROVE k[s \ {Max(s)}] = h[s \ {Max(s)}]
      <4>1. s \ {Max(s)} \in Parts /\ Cardinality(s \ {Max(s)}) = Cardinality(s) - 1
        BY <1>1, <3>2
      <4>2. Cardinality(s \ {Max(s)}) <= n
        BY <1>0, <4>1
      <4> QED
        BY <4>1, <4>2
    <3> HIDE DEF k
    <3> QED
      BY <3>1, <3>2
  <2> HIDE DEF UpTo, k
  <2> QED
    BY <2>2
<1>4. \A n \in Nat : n \in N
  <2> HIDE DEF N
  <2> QED
    BY <1>2, <1>3, InductionOnNumbers
<1>5. Cardinality(D) \in Nat
  BY <1>a, FS_CardinalityType
<1>6. PICK h : UpTo(h, Cardinality(D))
  BY <1>4, <1>5
<1>7. \A s \in Parts : h[s] = Value(h, s)
  BY <1>1, <1>6
<1>8. \A s \in Parts : s # {} => s \ {Max(s)} \in Parts
  BY <1>1
<1> DEFINE k == [s \in Parts |-> h[s]]
<1>9. k = [s \in Parts |-> IF s = {} THEN base ELSE F[<<k[s \ {Max(s)}], seq[Max(s)]>>]]
  BY <1>7, <1>8
<1> DEFINE G == {n \in Nat : \A s \in Parts : Cardinality(s) = n => h[s] \in V}
<1>10. 0 \in G
  BY <1>1, <1>7
<1>11. ASSUME NEW n \in Nat, n \in G PROVE n + 1 \in G
  <2> SUFFICES ASSUME NEW s \in Parts, Cardinality(s) = n + 1 PROVE h[s] \in V
    OBVIOUS
  <2>1. s # {} /\ s \ {Max(s)} \in Parts /\ Cardinality(s \ {Max(s)}) = n
    <3>1. ~ (Cardinality(s) = 0)
      OBVIOUS
    <3>2. s # {}
      BY <1>1, <3>1
    <3>3. s \ {Max(s)} \in Parts /\ Cardinality(s \ {Max(s)}) = Cardinality(s) - 1
      BY <1>1, <3>2
    <3> QED
      BY <3>2, <3>3
  <2>2. h[s \ {Max(s)}] \in V
    BY <1>11, <2>1
  <2>3. Max(s) \in D
    BY <1>b, <2>1 DEF Parts
  <2>4. seq[Max(s)] \in R
    BY <1>a, <2>3
  <2>5. h[s] = F[<<h[s \ {Max(s)}], seq[Max(s)]>>]
    BY <1>7, <2>1
  <2> QED
    BY <2>2, <2>4, <2>5
<1>12. \A n \in Nat : n \in G
  <2> HIDE DEF G
  <2> QED
    BY <1>10, <1>11, InductionOnNumbers
<1>13. k \in [Parts -> V]
  BY <1>1, <1>12
<1> QED
  BY <1>9, <1>13 DEF Parts

\* The values along a fold, from the base to the result.
FoldsInto(k, V, F, base, seq) ==
    /\ k[{}] = base
    /\ \A s \in SUBSET (DOMAIN seq) :
          s # {} /\ k[s \ {Max(s)}] \in V => k[s] = F[<<k[s \ {Max(s)}], seq[Max(s)]>>]

TraceOf(h, V, F, base, seq) ==
    /\ h \in [0..Len(seq) -> V]
    /\ h[0] = base
    /\ \A i \in 1..Len(seq) : h[i] = F[<<h[i - 1], seq[i]>>]

LEMMA FoldTrace ==
    ASSUME NEW V, NEW R, NEW F, NEW base, NEW seq, Foldable(V, R, F, base, seq),
           NEW k, FoldsInto(k, V, F, base, seq)
    PROVE  \E h : TraceOf(h, V, F, base, seq) /\ h[Len(seq)] = k[DOMAIN seq]
<1> USE DEF Foldable, FoldsInto
<1> DEFINE n == Len(seq)
           h == [i \in 0..n |-> k[1..i]]
<1>1. n \in Nat /\ DOMAIN seq = 1..n /\ \A i \in 1..n : seq[i] \in R
  OBVIOUS
<1>2. ASSUME NEW i \in 1..n
      PROVE  /\ 1..i \in SUBSET (DOMAIN seq) /\ 1..i # {}
             /\ Max(1..i) = i /\ (1..i) \ {i} = 1..(i - 1)
  <2>1. 1..i \in SUBSET (1..n) /\ i \in 1..i /\ (1..i) \ {i} = 1..(i - 1)
    BY <1>1
  <2>2. Max(1..i) \in 1..i /\ i <= Max(1..i)
    BY <1>1, <2>1, LastIndex
  <2> QED
    BY <1>1, <2>1, <2>2
<1> HIDE DEF n
<1>3. h[0] = base
  <2>1. 1..0 = {} /\ 0 \in 0..n
    BY <1>1
  <2> QED
    BY <2>1
<1>4. ASSUME NEW i \in 1..n, h[i - 1] \in V
      PROVE  h[i] = F[<<h[i - 1], seq[i]>>] /\ h[i] \in V
  <2>1. i \in 0..n /\ i - 1 \in 0..n
    BY <1>1
  <2>2. h[i] = k[1..i] /\ h[i - 1] = k[(1..i) \ {Max(1..i)}]
    BY <1>2, <2>1
  <2> HIDE DEF h
  <2>3. k[1..i] = F[<<k[(1..i) \ {Max(1..i)}], seq[Max(1..i)]>>]
    BY <1>2, <1>4, <2>2
  <2>4. h[i] = F[<<h[i - 1], seq[i]>>]
    BY <1>2, <2>2, <2>3
  <2> QED
    BY <1>1, <1>4, <2>4
<1> DEFINE G == {i \in Nat : i <= n => h[i] \in V}
<1>5. 0 \in G
  BY <1>3
<1>6. ASSUME NEW i \in Nat, i \in G PROVE i + 1 \in G
  <2> SUFFICES ASSUME i + 1 <= n PROVE h[i + 1] \in V
    OBVIOUS
  <2>1. i + 1 \in 1..n /\ (i + 1) - 1 = i /\ h[i] \in V
    BY <1>1, <1>6
  <2> HIDE DEF h
  <2> QED
    BY <1>4, <2>1
<1>7. \A i \in 0..n : h[i] \in V
  <2> HIDE DEF G
  <2>1. \A i \in Nat : i \in G
    BY <1>5, <1>6, InductionOnNumbers
  <2> USE DEF G
  <2> HIDE DEF h
  <2> QED
    BY <1>1, <2>1
<1>8. h \in [0..n -> V]
  BY <1>7
<1>9. h[n] = k[DOMAIN seq]
  BY <1>1
<1>10. \A i \in 1..n : h[i] = F[<<h[i - 1], seq[i]>>]
  <2>1. \A i \in 1..n : i - 1 \in 0..n
    BY <1>1
  <2> HIDE DEF h
  <2> QED
    BY <1>4, <1>7, <2>1
<1> HIDE DEF h
<1> QED
  BY <1>3, <1>8, <1>9, <1>10 DEF n, TraceOf

\* A sequence with one element more, element by element.
LEMMA AppendParts ==
    ASSUME NEW V, NEW s \in Seq(V), NEW e \in V
    PROVE  /\ Append(s, e) \in Seq(V) /\ Len(Append(s, e)) = Len(s) + 1 /\ Len(s) \in Nat
           /\ Append(s, e) # << >> /\ Append(s, e)[Len(s) + 1] = e
           /\ DOMAIN s = 1..Len(s) /\ DOMAIN Append(s, e) = 1..(Len(s) + 1)
           /\ \A i \in 1..Len(s) : Append(s, e)[i] = s[i] /\ s[i] \in V
<1>1. /\ Append(s, e) \in Seq(V) /\ Len(Append(s, e)) = Len(s) + 1 /\ Len(s) \in Nat
      /\ Append(s, e)[Len(s) + 1] = e /\ \A i \in 1..Len(s) : Append(s, e)[i] = s[i]
  OBVIOUS
<1>2. DOMAIN s = 1..Len(s) /\ DOMAIN Append(s, e) = 1..(Len(s) + 1)
  BY <1>1
<1>3. Append(s, e) # << >>
  BY <1>1
<1>4. \A i \in 1..Len(s) : s[i] \in V
  OBVIOUS
<1> QED
  BY <1>1, <1>2, <1>3, <1>4
-----------------------------------------------------------------------------
(* Sorting: the place of an element is the number of those before it.      *)

StrictOrder(R, S) ==
    /\ \A x \in S : <<x, x>> \notin R
    /\ \A x, y \in S : x # y => <<x, y>> \in R \/ <<y, x>> \in R
    /\ \A x, y, z \in S : <<x, y>> \in R /\ <<y, z>> \in R => <<x, z>> \in R

Under(R, S, c) == {d \in S : <<d, c>> \in R}

\* The sequence q has every element of S once, in the order R.
Sorted(q, R, S) ==
    /\ q \in [1..Cardinality(S) -> S]
    /\ \A c \in S : \E k \in 1..Cardinality(S) : q[k] = c
    /\ \A i, j \in 1..Cardinality(S) : i < j => <<q[i], q[j]>> \in R

\* A place is less than the number of elements, grows with the order, and each is taken.
LEMMA Places ==
    ASSUME NEW S, IsFiniteSet(S), NEW R, StrictOrder(R, S)
    PROVE  /\ \A c \in S : Cardinality(Under(R, S, c)) \in 0..(Cardinality(S) - 1)
           /\ \A c, d \in S : <<c, d>> \in R => Cardinality(Under(R, S, c)) < Cardinality(Under(R, S, d))
           /\ \A k \in 1..Cardinality(S) : \E c \in S : Cardinality(Under(R, S, c)) = k - 1
<1> DEFINE n == Cardinality(S)
           place == [c \in S |-> Cardinality(Under(R, S, c)) + 1]
<1>1. n \in Nat /\ IsFiniteSet(1..n) /\ Cardinality(1..n) = n
  BY FS_CardinalityType, FS_Interval
<1>2. \A c \in S : /\ Under(R, S, c) \in SUBSET S /\ c \notin Under(R, S, c)
                   /\ IsFiniteSet(Under(R, S, c)) /\ Cardinality(Under(R, S, c)) \in Nat
  BY FS_Subset, FS_CardinalityType DEF Under, StrictOrder
<1>3. ASSUME NEW c \in S PROVE Cardinality(Under(R, S, c)) \in 0..(n - 1)
  <2>1. Cardinality(Under(R, S, c)) <= n /\ Cardinality(Under(R, S, c)) # n
    BY <1>2, FS_Subset
  <2> QED
    BY <1>1, <1>2, <2>1
<1>4. ASSUME NEW c \in S, NEW d \in S, <<c, d>> \in R
      PROVE  Cardinality(Under(R, S, c)) < Cardinality(Under(R, S, d))
  <2>1. Under(R, S, c) \in SUBSET Under(R, S, d) /\ c \in Under(R, S, d)
    BY <1>4 DEF Under, StrictOrder
  <2>2. Cardinality(Under(R, S, c)) <= Cardinality(Under(R, S, d))
        /\ Cardinality(Under(R, S, c)) # Cardinality(Under(R, S, d))
    BY <1>2, <2>1, FS_Subset
  <2> QED
    BY <1>2, <2>2
<1>5. place \in [S -> 1..n]
  BY <1>1, <1>3
<1>6. \A c \in S : place[c] = Cardinality(Under(R, S, c)) + 1
  OBVIOUS
<1> HIDE DEF place, n
<1>7. ASSUME NEW c \in S, NEW d \in S, place[c] = place[d] PROVE c = d
  <2>1. ~ (<<c, d>> \in R) /\ ~ (<<d, c>> \in R)
    BY <1>2, <1>4, <1>6, <1>7
  <2> QED
    BY <2>1 DEF StrictOrder
<1>8. place \in Injection(S, 1..n)
  BY <1>5, <1>7 DEF Injection, IsInjective
<1>9. place \in Surjection(S, 1..n)
  <2>1. Cardinality(S) = Cardinality(1..n)
    BY <1>1 DEF n
  <2> QED
    BY <1>1, <1>8, <2>1, FS_Injection
<1>10. \A k \in 1..n : \E c \in S : place[c] = k
  BY <1>9 DEF Surjection
<1>11. ASSUME NEW k \in 1..n PROVE \E c \in S : Cardinality(Under(R, S, c)) = k - 1
  <2>1. PICK c \in S : place[c] = k
    BY <1>10
  <2>2. Cardinality(Under(R, S, c)) + 1 = k
    BY <1>6, <2>1
  <2> QED
    BY <1>1, <1>2, <2>2
<1> QED
  BY <1>3, <1>4, <1>11 DEF n

\* Putting at each k the element at place k - 1 sorts the set.
LEMMA PlacesSort ==
    ASSUME NEW S, IsFiniteSet(S), NEW R, StrictOrder(R, S), NEW q \in [1..Cardinality(S) -> S],
           \A k \in 1..Cardinality(S) : Cardinality(Under(R, S, q[k])) = k - 1
    PROVE  Sorted(q, R, S)
<1> DEFINE n == Cardinality(S)
<1>1. n \in Nat /\ IsFiniteSet(1..n) /\ Cardinality(1..n) = n
  BY FS_CardinalityType, FS_Interval
<1>2. /\ \A c, d \in S : <<c, d>> \in R => Cardinality(Under(R, S, c)) < Cardinality(Under(R, S, d))
      /\ \A c \in S : Cardinality(Under(R, S, c)) \in 0..(n - 1)
  BY Places
<1> HIDE DEF n
<1>3. ASSUME NEW i \in 1..n, NEW j \in 1..n, i < j PROVE <<q[i], q[j]>> \in R
  <2>1. q[i] \in S /\ q[j] \in S /\ Cardinality(Under(R, S, q[i])) = i - 1
        /\ Cardinality(Under(R, S, q[j])) = j - 1
    BY DEF n
  <2>2. i \in Int /\ j \in Int /\ ~ (j - 1 < i - 1) /\ i - 1 # j - 1
    BY <1>1, <1>3
  <2>3. q[i] # q[j] /\ ~ (<<q[j], q[i]>> \in R)
    BY <1>2, <2>1, <2>2
  <2> QED
    BY <2>1, <2>3 DEF StrictOrder
<1>4. q \in Injection(1..n, S)
  <2>1. ASSUME NEW i \in 1..n, NEW j \in 1..n, q[i] = q[j] PROVE i = j
    <3>1. Cardinality(Under(R, S, q[i])) = i - 1
        /\ Cardinality(Under(R, S, q[j])) = j - 1
      BY DEF n
    <3> QED
      BY <1>1, <2>1, <3>1
  <2> QED
    BY <2>1 DEF Injection, IsInjective, n
<1>5. q \in Surjection(1..n, S)
  <2>1. Cardinality(S) = Cardinality(1..n)
    BY <1>1 DEF n
  <2> QED
    BY <1>1, <1>4, <2>1, FS_Injection
<1>6. \A c \in S : \E k \in 1..n : q[k] = c
  BY <1>5 DEF Surjection
<1> QED
  BY <1>3, <1>6 DEF Sorted, n
=============================================================================
