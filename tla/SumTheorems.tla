---------------------------- MODULE SumTheorems ----------------------------
(***************************************************************************)
(* What the proofs about recordings need of finite sets of numbers and of  *)
(* sums over finite sets (SumFunctionOnSet).  Induction is by a least      *)
(* counterexample: the least number, or the least subset of a finite set,  *)
(* of which a claim fails.                                                 *)
(***************************************************************************)
EXTENDS Functions, FiniteSets, FiniteSetTheorems, TLAPS

(* A nonempty set of natural numbers has a least element.                  *)
LEMMA LeastNumber ==
  ASSUME NEW B \in SUBSET Nat, B # {}
  PROVE  \E n \in B : \A m \in B : n <= m
<1>1. PICK n \in B : \A m \in B : ~(<<m, n>> \in OpToRel(<, Nat))
  BY NatLessThanWellFounded, WFMin
<1>2. \A m \in B : ~(m < n)
  BY <1>1 DEF OpToRel
<1>3. QED
  BY <1>2

(* A nonempty set of subsets of a finite set has a minimal element.        *)
HasLeast(B) == \E T \in B : \A U \in B : U \subseteq T => U = T

LEMMA LeastSet ==
  \A S : IsFiniteSet(S) => \A B \in SUBSET SUBSET S : B # {} => HasLeast(B)
<1> SUFFICES ASSUME NEW S, IsFiniteSet(S), NEW B \in SUBSET SUBSET S, B # {}
             PROVE  \E T \in B : \A U \in B : U \subseteq T => U = T
  BY DEF HasLeast
<1>1. IsWellFoundedOn(StrictSubsetOrdering(S), SUBSET S)
  BY FS_FiniteSubsetsOfFinite, FS_StrictSubsetOrderingWellFounded
<1>2. PICK T \in B : \A U \in B : ~(<<U, T>> \in StrictSubsetOrdering(S))
  BY <1>1, WFMin
<1>3. QED
  BY <1>2 DEF StrictSubsetOrdering

(* A nonempty finite set of natural numbers has a largest element.         *)
LEMMA LargestNumber ==
  ASSUME NEW S, S \subseteq Nat, IsFiniteSet(S), S # {}
  PROVE  \E n \in S : \A m \in S : m <= n
<1> DEFINE Bad == {s \in SUBSET S : s # {} /\ ~\E n \in s : \A m \in s : m <= n}
<1>1. SUFFICES ASSUME Bad # {} PROVE FALSE
  OBVIOUS
<1>2. PICK s \in Bad : \A t \in Bad : t \subseteq s => t = s
  <2>1. Bad \in SUBSET SUBSET S
    OBVIOUS
  <2> HIDE DEF Bad
  <2>2. HasLeast(Bad)
    BY <1>1, <2>1, LeastSet
  <2>3. QED
    BY <2>2 DEF HasLeast
<1>3. PICK x \in s : TRUE
  OBVIOUS
<1>4. x \in Nat /\ s \subseteq Nat
  OBVIOUS
<1>5. s \ {x} # {}
  BY <1>4
<1>6. PICK n \in s \ {x} : \A m \in s \ {x} : m <= n
  <2>1. s \ {x} \notin Bad
    <3> HIDE DEF Bad
    <3>1. QED
      BY <1>2, <1>3
  <2>2. s \ {x} \in SUBSET S
    OBVIOUS
  <2>3. QED
    BY <2>1, <2>2, <1>5
<1>7. \A m \in s : m <= (IF n <= x THEN x ELSE n)
  BY <1>4, <1>6
<1>8. QED
  BY <1>6, <1>7

-----------------------------------------------------------------------------
(* The recursive function behind SumFunctionOnSet: it exists, and its      *)
(* values do not depend on the set it was made for.                        *)

Pick(s) == CHOOSE x \in s : TRUE

FoldsOver(g, w, D) ==
    g = [s \in D |-> IF s = {} THEN 0 ELSE w[Pick(s)] + g[s \ {Pick(s)}]]

LEMMA PickIn == ASSUME NEW s, s # {} PROVE Pick(s) \in s
BY DEF Pick

LEMMA SumIsFold ==
  ASSUME NEW w, NEW S
  PROVE  SumFunctionOnSet(w, S) = (CHOOSE g : FoldsOver(g, w, SUBSET S))[S]
BY DEF SumFunctionOnSet, FoldFunctionOnSet, MapThenFoldSet, FoldsOver, Pick

LEMMA FoldExists ==
  ASSUME NEW w, NEW S, IsFiniteSet(S)
  PROVE  \E g : FoldsOver(g, w, SUBSET S)
<1> DEFINE Small(n) == {s \in SUBSET S : Cardinality(s) <= n}
           Bad == {n \in Nat : ~\E g : FoldsOver(g, w, Small(n))}
<1>1. \A s \in SUBSET S : IsFiniteSet(s) /\ Cardinality(s) \in Nat
                          /\ Cardinality(s) <= Cardinality(S)
  BY FS_Subset, FS_CardinalityType
<1>2. Bad = {}
  <2> SUFFICES ASSUME Bad # {} PROVE FALSE
    OBVIOUS
  <2>1. PICK n \in Bad : \A m \in Bad : n <= m
    BY LeastNumber
  <2>2. CASE n = 0
    <3>1. \A s \in Small(0) : s = {}
      BY <1>1, FS_EmptySet
    <3> DEFINE g == [s \in Small(0) |-> 0]
    <3>2. FoldsOver(g, w, Small(0))
      BY <3>1 DEF FoldsOver
    <3>3. QED
      BY <3>2, <2>1, <2>2
  <2>3. CASE n # 0
    <3>1. n - 1 \in Nat /\ n - 1 \notin Bad
      <4>1. n \in Nat
        OBVIOUS
      <4> HIDE DEF Bad
      <4>2. QED
        BY <4>1, <2>1, <2>3
    <3>2. PICK g : FoldsOver(g, w, Small(n - 1))
      BY <3>1
    <3> DEFINE h == [s \in Small(n) |->
                       IF s = {} THEN 0 ELSE w[Pick(s)] + g[s \ {Pick(s)}]]
    <3>3. \A s \in Small(n) : s # {} => s \ {Pick(s)} \in Small(n - 1)
      <4> SUFFICES ASSUME NEW s \in Small(n), s # {}
                   PROVE  s \ {Pick(s)} \in Small(n - 1)
        OBVIOUS
      <4>1. Cardinality(s \ {Pick(s)}) = Cardinality(s) - 1
        BY <1>1, PickIn, FS_RemoveElement
      <4>2. QED
        BY <4>1, <1>1, <2>1
    <3>4. \A s \in Small(n - 1) : s \in Small(n) /\ g[s] = h[s]
      <4> SUFFICES ASSUME NEW s \in Small(n - 1) PROVE s \in Small(n) /\ g[s] = h[s]
        OBVIOUS
      <4>1. s \in Small(n)
        BY <1>1, <2>1
      <4> HIDE DEF Small
      <4>2. g[s] = IF s = {} THEN 0 ELSE w[Pick(s)] + g[s \ {Pick(s)}]
        BY <3>2 DEF FoldsOver
      <4>3. QED
        BY <4>1, <4>2
    <3>5. \A s \in Small(n) :
             h[s] = IF s = {} THEN 0 ELSE w[Pick(s)] + h[s \ {Pick(s)}]
      BY <3>3, <3>4
    <3>6. FoldsOver(h, w, Small(n))
      <4> HIDE DEF Small
      <4>1. QED
        BY <3>5 DEF FoldsOver
    <3>7. QED
      BY <3>6, <2>1
  <2>4. QED
    BY <2>2, <2>3
<1>3. Small(Cardinality(S)) = SUBSET S
  BY <1>1
<1>4. QED
  BY <1>2, <1>3, FS_CardinalityType

LEMMA FoldUnique ==
  ASSUME NEW w, NEW S, IsFiniteSet(S), NEW D, NEW E, NEW g, NEW h,
         SUBSET S \subseteq D, SUBSET S \subseteq E,
         FoldsOver(g, w, D), FoldsOver(h, w, E)
  PROVE  g[S] = h[S]
<1> DEFINE Bad == {s \in SUBSET S : g[s] # h[s]}
<1>1. SUFFICES ASSUME Bad # {} PROVE FALSE
  OBVIOUS
<1>2. PICK s \in Bad : \A t \in Bad : t \subseteq s => t = s
  <2>1. Bad \in SUBSET SUBSET S
    OBVIOUS
  <2> HIDE DEF Bad
  <2>2. HasLeast(Bad)
    BY <1>1, <2>1, LeastSet
  <2>3. QED
    BY <2>2 DEF HasLeast
<1>3. g[s] = IF s = {} THEN 0 ELSE w[Pick(s)] + g[s \ {Pick(s)}]
  BY DEF FoldsOver
<1>4. h[s] = IF s = {} THEN 0 ELSE w[Pick(s)] + h[s \ {Pick(s)}]
  BY DEF FoldsOver
<1>5. s # {} => g[s \ {Pick(s)}] = h[s \ {Pick(s)}]
  BY <1>2, PickIn
<1>6. QED
  BY <1>3, <1>4, <1>5

-----------------------------------------------------------------------------
(* Sums.                                                                   *)

LEMMA SumUnfold ==
  ASSUME NEW w, NEW S, IsFiniteSet(S)
  PROVE  SumFunctionOnSet(w, S) =
            IF S = {} THEN 0
            ELSE w[Pick(S)] + SumFunctionOnSet(w, S \ {Pick(S)})
<1> DEFINE g == CHOOSE g : FoldsOver(g, w, SUBSET S)
           T == S \ {Pick(S)}
           h == CHOOSE h : FoldsOver(h, w, SUBSET T)
<1>1. FoldsOver(g, w, SUBSET S)
  BY FoldExists
<1>2. IsFiniteSet(T) /\ SUBSET T \subseteq SUBSET S
  BY FS_Subset
<1>3. FoldsOver(h, w, SUBSET T)
  BY <1>2, FoldExists
<1> HIDE DEF g, h, T
<1>4. g[T] = h[T]
  BY <1>1, <1>2, <1>3, FoldUnique
<1>5. g[S] = IF S = {} THEN 0 ELSE w[Pick(S)] + g[T]
  BY <1>1 DEF FoldsOver, T
<1>6. SumFunctionOnSet(w, S) = g[S] /\ SumFunctionOnSet(w, T) = h[T]
  BY SumIsFold DEF g, h
<1>7. QED
  BY <1>4, <1>5, <1>6 DEF T

(* The sum over no elements.                                               *)
LEMMA SumEmpty == \A w : SumFunctionOnSet(w, {}) = 0
BY SumUnfold, FS_EmptySet

(* A sum of natural numbers is one.                                        *)
LEMMA SumType ==
  ASSUME NEW w, NEW S, IsFiniteSet(S), \A x \in S : w[x] \in Nat
  PROVE  SumFunctionOnSet(w, S) \in Nat
<1> DEFINE Bad == {s \in SUBSET S : SumFunctionOnSet(w, s) \notin Nat}
<1>1. SUFFICES ASSUME Bad # {} PROVE FALSE
  OBVIOUS
<1>2. PICK s \in Bad : \A t \in Bad : t \subseteq s => t = s
  <2>1. Bad \in SUBSET SUBSET S
    OBVIOUS
  <2> HIDE DEF Bad
  <2>2. HasLeast(Bad)
    BY <1>1, <2>1, LeastSet
  <2>3. QED
    BY <2>2 DEF HasLeast
<1>3. IsFiniteSet(s)
  BY FS_Subset
<1>4. s # {} => SumFunctionOnSet(w, s \ {Pick(s)}) \in Nat /\ w[Pick(s)] \in Nat
  BY <1>2, PickIn
<1>5. SumFunctionOnSet(w, s) =
         IF s = {} THEN 0 ELSE w[Pick(s)] + SumFunctionOnSet(w, s \ {Pick(s)})
  BY <1>3, SumUnfold
<1>6. SumFunctionOnSet(w, s) \in Nat
  BY <1>4, <1>5
<1>7. QED
  BY <1>6

(* The sum over a set is that over the set without one of its elements,    *)
(* and the element.                                                        *)
LEMMA SumRemove ==
  ASSUME NEW w, NEW S, IsFiniteSet(S), \A x \in S : w[x] \in Nat, NEW e \in S
  PROVE  SumFunctionOnSet(w, S) = w[e] + SumFunctionOnSet(w, S \ {e})
<1> DEFINE Sum(s) == SumFunctionOnSet(w, s)
           Bad == {s \in SUBSET S : \E x \in s : Sum(s) # w[x] + Sum(s \ {x})}
<1> HIDE DEF Sum
<1>1. SUFFICES ASSUME Bad # {} PROVE FALSE
  BY DEF Sum
<1>2. PICK s \in Bad : \A t \in Bad : t \subseteq s => t = s
  <2>1. Bad \in SUBSET SUBSET S
    OBVIOUS
  <2> HIDE DEF Bad
  <2>2. HasLeast(Bad)
    BY <1>1, <2>1, LeastSet
  <2>3. QED
    BY <2>2 DEF HasLeast
<1>3. PICK x \in s : Sum(s) # w[x] + Sum(s \ {x})
  OBVIOUS
<1>4. \A t \in SUBSET S : /\ IsFiniteSet(t) /\ Sum(t) \in Nat
                          /\ t # {} => Pick(t) \in t /\ Sum(t) = w[Pick(t)] + Sum(t \ {Pick(t)})
  BY FS_Subset, SumType, SumUnfold, PickIn DEF Sum
<1> DEFINE p == Pick(s)
<1>5. p \in s /\ Sum(s) = w[p] + Sum(s \ {p})
  BY <1>4
<1> HIDE DEF p
<1>6. p # x
  BY <1>3, <1>5
<1>7. Sum(s \ {p}) = w[x] + Sum((s \ {p}) \ {x})
  BY <1>2, <1>5, <1>6
<1>8. Sum(s \ {x}) = w[p] + Sum((s \ {x}) \ {p})
  BY <1>2, <1>5, <1>6
<1>9. (s \ {x}) \ {p} = (s \ {p}) \ {x}
  OBVIOUS
<1>10. /\ w[x] \in Nat /\ w[p] \in Nat /\ Sum((s \ {p}) \ {x}) \in Nat
  BY <1>4, <1>5
<1>11. Sum(s) = w[x] + Sum(s \ {x})
  <2> DEFINE t == Sum((s \ {p}) \ {x})
             a == w[x]
             b == w[p]
  <2>1. Sum(s \ {p}) = a + t /\ Sum(s \ {x}) = b + t /\ Sum(s) = b + Sum(s \ {p})
    BY <1>5, <1>7, <1>8, <1>9
  <2>2. a \in Nat /\ b \in Nat /\ t \in Nat
    BY <1>10
  <2> HIDE DEF a, b, t
  <2>3. Sum(s) = a + Sum(s \ {x})
    BY <2>1, <2>2
  <2>4. QED
    BY <2>3 DEF a
<1>12. QED
  BY <1>3, <1>11

(* The sum over a set and a further element.                               *)
LEMMA SumAdd ==
  ASSUME NEW w, NEW S, IsFiniteSet(S), NEW e, e \notin S,
         \A x \in S \cup {e} : w[x] \in Nat
  PROVE  SumFunctionOnSet(w, S \cup {e}) = w[e] + SumFunctionOnSet(w, S)
<1>1. IsFiniteSet(S \cup {e})
  BY FS_AddElement
<1>2. (S \cup {e}) \ {e} = S
  OBVIOUS
<1>3. QED
  BY <1>1, <1>2, SumRemove

(* A sum depends on what is summed up only.                                *)
LEMMA SumSame ==
  ASSUME NEW v, NEW w, NEW S, IsFiniteSet(S), \A x \in S : v[x] = w[x]
  PROVE  SumFunctionOnSet(v, S) = SumFunctionOnSet(w, S)
<1> DEFINE Bad == {s \in SUBSET S : SumFunctionOnSet(v, s) # SumFunctionOnSet(w, s)}
<1>1. SUFFICES ASSUME Bad # {} PROVE FALSE
  OBVIOUS
<1>2. PICK s \in Bad : \A t \in Bad : t \subseteq s => t = s
  <2>1. Bad \in SUBSET SUBSET S
    OBVIOUS
  <2> HIDE DEF Bad
  <2>2. HasLeast(Bad)
    BY <1>1, <2>1, LeastSet
  <2>3. QED
    BY <2>2 DEF HasLeast
<1>3. IsFiniteSet(s)
  BY FS_Subset
<1>4. s # {} => /\ SumFunctionOnSet(v, s \ {Pick(s)}) = SumFunctionOnSet(w, s \ {Pick(s)})
                /\ v[Pick(s)] = w[Pick(s)]
  BY <1>2, PickIn
<1>5. SumFunctionOnSet(v, s) =
         IF s = {} THEN 0 ELSE v[Pick(s)] + SumFunctionOnSet(v, s \ {Pick(s)})
  BY <1>3, SumUnfold
<1>6. SumFunctionOnSet(w, s) =
         IF s = {} THEN 0 ELSE w[Pick(s)] + SumFunctionOnSet(w, s \ {Pick(s)})
  BY <1>3, SumUnfold
<1>7. QED
  BY <1>4, <1>5, <1>6

(* The sum over two disjoint sets.                                         *)
LEMMA SumUnion ==
  ASSUME NEW w, NEW S, NEW T, IsFiniteSet(S), IsFiniteSet(T), S \cap T = {},
         \A x \in S \cup T : w[x] \in Nat
  PROVE  SumFunctionOnSet(w, S \cup T) = SumFunctionOnSet(w, S) + SumFunctionOnSet(w, T)
<1> DEFINE Sum(s) == SumFunctionOnSet(w, s)
           Bad == {t \in SUBSET T : Sum(S \cup t) # Sum(S) + Sum(t)}
<1>1. SUFFICES ASSUME Bad # {} PROVE FALSE
  OBVIOUS
<1>2. PICK t \in Bad : \A u \in Bad : u \subseteq t => u = t
  <2>1. Bad \in SUBSET SUBSET T
    OBVIOUS
  <2> HIDE DEF Bad
  <2>2. HasLeast(Bad)
    BY <1>1, <2>1, LeastSet
  <2>3. QED
    BY <2>2 DEF HasLeast
<1>3. t \subseteq T /\ Sum(S \cup t) # Sum(S) + Sum(t)
  OBVIOUS
<1>4. Sum(S) \in Nat /\ Sum(S \cup {}) = Sum(S) /\ Sum({}) = 0
  BY SumType, SumEmpty
<1>5. PICK p \in t : TRUE
  <2> HIDE DEF Sum, Bad
  <2>1. t = {} => Sum(S \cup t) = Sum(S) /\ Sum(t) = 0
    BY <1>4
  <2>2. QED
    BY <1>3, <1>4, <2>1
<1>6. /\ IsFiniteSet(t) /\ IsFiniteSet(S \cup t)
      /\ \A x \in t : w[x] \in Nat
      /\ \A x \in S \cup t : w[x] \in Nat
  BY <1>3, FS_Subset, FS_Union
<1>7. Sum(t) = w[p] + Sum(t \ {p}) /\ Sum(S \cup t) = w[p] + Sum((S \cup t) \ {p})
  BY <1>5, <1>6, SumRemove
<1>8. (S \cup t) \ {p} = S \cup (t \ {p})
  BY <1>3, <1>5
<1>9. Sum(S \cup (t \ {p})) = Sum(S) + Sum(t \ {p})
  BY <1>2, <1>3, <1>5
<1>10. Sum(t \ {p}) \in Nat /\ w[p] \in Nat
  <2>1. IsFiniteSet(t \ {p}) /\ \A x \in t \ {p} : w[x] \in Nat
    BY <1>6, FS_Subset
  <2>2. QED
    BY <2>1, <1>5, <1>6, SumType
<1> HIDE DEF Sum, Bad
<1>11. \A a, b, c \in Nat : a + (b + c) = b + (a + c)
  OBVIOUS
<1>12. Sum(S \cup t) = w[p] + (Sum(S) + Sum(t \ {p}))
  BY <1>7, <1>8, <1>9
<1>13. Sum(S) + Sum(t) = Sum(S) + (w[p] + Sum(t \ {p}))
  BY <1>7
<1>14. QED
  BY <1>3, <1>4, <1>10, <1>11, <1>12, <1>13

(* Larger numbers, or more of them, have a larger sum.                     *)
LEMMA SumMore ==
  ASSUME NEW v, NEW w, NEW S, NEW T, IsFiniteSet(T), S \subseteq T,
         \A x \in T : w[x] \in Nat,
         \A x \in S : v[x] \in Nat /\ v[x] <= w[x]
  PROVE  SumFunctionOnSet(v, S) <= SumFunctionOnSet(w, T)
<1>1. IsFiniteSet(S) /\ IsFiniteSet(T \ S)
  BY FS_Subset
<1> DEFINE Bad == {s \in SUBSET S : ~(SumFunctionOnSet(v, s) <= SumFunctionOnSet(w, s))}
<1>2. Bad = {}
  <2>1. SUFFICES ASSUME Bad # {} PROVE FALSE
    OBVIOUS
  <2>2. PICK s \in Bad : \A t \in Bad : t \subseteq s => t = s
    <3>1. Bad \in SUBSET SUBSET S
      OBVIOUS
    <3> HIDE DEF Bad
    <3>2. HasLeast(Bad)
      BY <1>1, <2>1, <3>1, LeastSet
    <3>3. QED
      BY <3>2 DEF HasLeast
  <2>3. s \subseteq S /\ s \subseteq T /\ IsFiniteSet(s)
    BY <1>1, FS_Subset
  <2>4. PICK p \in s : TRUE
    BY SumEmpty
  <2>5. /\ SumFunctionOnSet(v, s) = v[p] + SumFunctionOnSet(v, s \ {p})
        /\ SumFunctionOnSet(w, s) = w[p] + SumFunctionOnSet(w, s \ {p})
    BY <2>3, <2>4, SumRemove
  <2>6. SumFunctionOnSet(v, s \ {p}) <= SumFunctionOnSet(w, s \ {p})
    BY <2>2, <2>3, <2>4
  <2>7. SumFunctionOnSet(v, s \ {p}) \in Nat /\ SumFunctionOnSet(w, s \ {p}) \in Nat
    <3>1. /\ IsFiniteSet(s \ {p})
          /\ \A x \in s \ {p} : v[x] \in Nat /\ w[x] \in Nat
      BY <2>3, FS_Subset
    <3>2. QED
      BY <3>1, SumType
  <2>8. v[p] \in Nat /\ w[p] \in Nat /\ v[p] <= w[p]
    BY <2>3, <2>4
  <2>9. SumFunctionOnSet(v, s) <= SumFunctionOnSet(w, s)
    BY <2>5, <2>6, <2>7, <2>8
  <2>10. QED
    BY <2>9
<1>3. SumFunctionOnSet(v, S) <= SumFunctionOnSet(w, S)
  BY <1>2
<1>4. SumFunctionOnSet(w, T) = SumFunctionOnSet(w, S) + SumFunctionOnSet(w, T \ S)
  <2>1. S \cup (T \ S) = T /\ S \cap (T \ S) = {}
    OBVIOUS
  <2>2. SumFunctionOnSet(w, S \cup (T \ S))
           = SumFunctionOnSet(w, S) + SumFunctionOnSet(w, T \ S)
    BY <1>1, <2>1, SumUnion
  <2>3. QED
    BY <2>1, <2>2
<1>5. /\ SumFunctionOnSet(v, S) \in Nat /\ SumFunctionOnSet(w, S) \in Nat
      /\ SumFunctionOnSet(w, T \ S) \in Nat
  <2>1. /\ \A x \in S : v[x] \in Nat /\ w[x] \in Nat
        /\ \A x \in T \ S : w[x] \in Nat
    OBVIOUS
  <2>2. QED
    BY <1>1, <2>1, SumType
<1>6. QED
  BY <1>3, <1>4, <1>5

(* A sum of numbers up to b is at most b times as many.                    *)
LEMMA SumBound ==
  ASSUME NEW w, NEW S, IsFiniteSet(S), NEW b \in Nat, \A x \in S : w[x] \in 0..b
  PROVE  SumFunctionOnSet(w, S) <= b * Cardinality(S)
<1> DEFINE Bad == {s \in SUBSET S : ~(SumFunctionOnSet(w, s) <= b * Cardinality(s))}
<1>1. SUFFICES ASSUME Bad # {} PROVE FALSE
  OBVIOUS
<1>2. PICK s \in Bad : \A t \in Bad : t \subseteq s => t = s
  <2>1. Bad \in SUBSET SUBSET S
    OBVIOUS
  <2> HIDE DEF Bad
  <2>2. HasLeast(Bad)
    BY <1>1, <2>1, LeastSet
  <2>3. QED
    BY <2>2 DEF HasLeast
<1>3. s \subseteq S /\ IsFiniteSet(s)
  BY FS_Subset
<1>4. PICK p \in s : TRUE
  <2>1. SumFunctionOnSet(w, {}) = 0 /\ Cardinality({}) = 0
    BY SumEmpty, FS_EmptySet
  <2>2. ~(SumFunctionOnSet(w, s) <= b * Cardinality(s))
    OBVIOUS
  <2>3. b * 0 = 0
    OBVIOUS
  <2> HIDE DEF Bad
  <2>4. QED
    BY <2>1, <2>2, <2>3
<1>5. /\ SumFunctionOnSet(w, s) = w[p] + SumFunctionOnSet(w, s \ {p})
      /\ w[p] \in Nat /\ w[p] <= b
  BY <1>3, <1>4, SumRemove
<1>6. SumFunctionOnSet(w, s \ {p}) <= b * Cardinality(s \ {p})
  BY <1>2, <1>3, <1>4
<1>7. SumFunctionOnSet(w, s \ {p}) \in Nat
  <2>1. IsFiniteSet(s \ {p}) /\ \A x \in s \ {p} : w[x] \in Nat
    BY <1>3, FS_Subset
  <2>2. QED
    BY <2>1, SumType
<1>8. /\ Cardinality(s) \in Nat /\ Cardinality(s \ {p}) \in Nat
      /\ Cardinality(s \ {p}) + 1 = Cardinality(s)
  <2>1. IsFiniteSet(s \ {p}) /\ Cardinality(s \ {p}) = Cardinality(s) - 1
    BY <1>3, <1>4, FS_RemoveElement
  <2>2. Cardinality(s) \in Nat /\ Cardinality(s \ {p}) \in Nat
    BY <1>3, <2>1, FS_CardinalityType
  <2>3. QED
    BY <2>1, <2>2
<1>9. \A c \in Nat : b * (c + 1) = b * c + b /\ b * c \in Nat
  OBVIOUS
<1>10. /\ b * Cardinality(s) = b * Cardinality(s \ {p}) + b
       /\ b * Cardinality(s \ {p}) \in Nat
  BY <1>8, <1>9
<1>11. SumFunctionOnSet(w, s) <= b * Cardinality(s)
  <2> DEFINE a == SumFunctionOnSet(w, s \ {p})
             c == b * Cardinality(s \ {p})
  <2>1. a \in Nat /\ c \in Nat /\ a <= c
    BY <1>6, <1>7, <1>10
  <2> HIDE DEF a, c
  <2>2. w[p] + a <= c + b
    BY <2>1, <1>5
  <2>3. QED
    BY <2>2, <1>5, <1>10 DEF a, c
<1>12. QED
  BY <1>11

(* One number changes.                                                     *)
LEMMA SumChange ==
  ASSUME NEW v, NEW w, NEW S, IsFiniteSet(S), \A x \in S : v[x] \in Nat /\ w[x] \in Nat,
         NEW e \in S, \A x \in S \ {e} : v[x] = w[x]
  PROVE  SumFunctionOnSet(v, S) + w[e] = SumFunctionOnSet(w, S) + v[e]
<1>1. IsFiniteSet(S \ {e}) /\ \A x \in S \ {e} : v[x] \in Nat
  BY FS_Subset
<1>2. SumFunctionOnSet(v, S \ {e}) = SumFunctionOnSet(w, S \ {e})
  BY <1>1, SumSame
<1>3. /\ SumFunctionOnSet(v, S) = v[e] + SumFunctionOnSet(v, S \ {e})
      /\ SumFunctionOnSet(w, S) = w[e] + SumFunctionOnSet(w, S \ {e})
  BY SumRemove
<1>4. SumFunctionOnSet(v, S \ {e}) \in Nat
  BY <1>1, SumType
<1>5. QED
  BY <1>2, <1>3, <1>4
=============================================================================
