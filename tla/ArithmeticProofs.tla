--------------------------- MODULE ArithmeticProofs ---------------------------
(***************************************************************************)
(* The word arithmetic of buffer_model.hpp, for every word size, and sums  *)
(* over the finite sets the accounting counts: the lemmas on which every   *)
(* proof about bytes rests.                                                *)
(***************************************************************************)
EXTENDS BufferModel, FiniteSetsExt, FiniteSetTheorems, WellFoundedInduction, TLAPS

------------------------------------------------------------------------------
(* Words.                                                                  *)

(* The remainder of a number below twice the modulus.                      *)
LEMMA SmallRemainder ==
    ASSUME NEW W \in Nat \ {0}, NEW x \in Nat
    PROVE  /\ x < W => x % W = x
           /\ W <= x /\ x < W + W => x % W = x - W
<1>1. x < W => x % W = x
  BY SMT
<1>2. W <= x /\ x < W + W => x % W = x - W
  BY SMT
<1>. QED  BY <1>1, <1>2

(* A word subtraction that does not go below zero is a subtraction.        *)
LEMMA WrapSubExact ==
    ASSUME NEW a \in Word, NEW b \in Word, b <= a
    PROVE  WrapSub(a, b) = a - b
<1>1. /\ WordModulus \in Nat \ {0} /\ a \in Nat /\ b \in Nat /\ a < WordModulus
      /\ a + WordModulus - b \in Nat
      /\ WordModulus <= a + WordModulus - b
      /\ a + WordModulus - b < WordModulus + WordModulus
  BY WordAssumption DEF Word
<1>2. (a + WordModulus - b) % WordModulus = (a + WordModulus - b) - WordModulus
  BY <1>1, SmallRemainder
<1>3. (a + WordModulus - b) - WordModulus = a - b
  BY <1>1
<1>. QED  BY <1>2, <1>3 DEF WrapSub

(* checked_add (buffer_model.hpp:86-90) refuses exactly the sums that      *)
(* leave the word, and a sum it lets through is the sum.                   *)
LEMMA CheckedAddExact ==
    ASSUME NEW a \in Word, NEW b \in Word
    PROVE  /\ CheckedAddOk(a, b) <=> a + b < WordModulus
           /\ CheckedAddOk(a, b) => WrapAdd(a, b) = a + b
<1>1. WordModulus \in Nat \ {0} /\ a \in Nat /\ b \in Nat /\ a < WordModulus /\ b < WordModulus
  BY WordAssumption DEF Word
<1>2. WordModulus - 1 \in Word /\ b <= WordModulus - 1
  BY <1>1 DEF Word
<1>3. WrapSub(WordModulus - 1, b) = WordModulus - 1 - b
  BY <1>2, WrapSubExact
<1>4. CheckedAddOk(a, b) <=> a + b < WordModulus
  BY <1>1, <1>3 DEF CheckedAddOk
<1>5. a + b < WordModulus => WrapAdd(a, b) = a + b
  <2>1. a + b \in Nat
    BY <1>1
  <2>2. a + b < WordModulus => (a + b) % WordModulus = a + b
    BY <1>1, <2>1, SmallRemainder
  <2>. QED  BY <2>2 DEF WrapAdd
<1>. QED  BY <1>4, <1>5

(* The backends' check accepts exactly the accesses that fit.              *)
LEMMA BackendBoundsExact ==
    ASSUME NEW len \in Word, NEW offset \in Word, NEW length \in Word
    PROVE  BackendRangeInside(len, offset, length) <=> offset + length <= len
<1>1. /\ WordModulus \in Nat \ {0} /\ len \in Nat /\ len < WordModulus
      /\ offset \in Nat /\ length \in Nat
  BY WordAssumption DEF Word
<1>. QED  BY <1>1, WrapSubExact DEF BackendRangeInside

(* And so does the registry's.                                             *)
LEMMA BoundsExact ==
    ASSUME NEW d, d.len \in Word, NEW offset \in Word, NEW length \in Word
    PROVE  /\ RangeInside(d, offset, length) <=> offset + length <= d.len
           /\ BackendRangeInside(d.len, offset, length) <=> offset + length <= d.len
<1>1. /\ WordModulus \in Nat \ {0} /\ d.len \in Nat /\ d.len < WordModulus
      /\ offset \in Nat /\ length \in Nat
  BY WordAssumption DEF Word
<1>2. RangeInside(d, offset, length) <=> offset + length <= d.len
  BY <1>1, CheckedAddExact DEF RangeInside
<1>. QED  BY <1>2, BackendBoundsExact

------------------------------------------------------------------------------
(* Sums over finite sets.                                                  *)

(* Induction over a finite set: of the subsets with a property, one is     *)
(* least.                                                                  *)
LEMMA LeastSubset ==
    ASSUME NEW S, IsFiniteSet(S), NEW C, C \subseteq SUBSET S, C # {}
    PROVE  \E T \in C : \A U \in C : ~(U \subseteq T /\ U # T)
<1>1. C \subseteq FiniteSubsetsOf(S)
  BY FS_Subset DEF FiniteSubsetsOf
<1>2. PICK T \in C : \A U \in C : <<U, T>> \notin StrictSubsetOrdering(S)
  BY <1>1, WFMin, FS_StrictSubsetOrderingWellFounded
<1>. QED  BY <1>2 DEF StrictSubsetOrdering

(* The fold of a sum takes one element after the other.                    *)
First(T) == CHOOSE x \in T : TRUE
Added(tbl, total, T) == IF T = {} THEN 0 ELSE tbl[First(T)].len + total[T \ {First(T)}]
Adds(total, tbl, S) == total = [T \in SUBSET S |-> Added(tbl, total, T)]

TotalLen(tbl, S) == LET LenOf(x) == tbl[x].len IN MapThenSumSet(LenOf, S)

LEMMA TotalIsFold ==
    ASSUME NEW tbl, NEW S
    PROVE  TotalLen(tbl, S) = (CHOOSE total : Adds(total, tbl, S))[S]
BY DEF TotalLen, MapThenSumSet, MapThenFoldSet, Adds, Added, First

LEMMA OneTaken ==
    ASSUME NEW T, T # {}
    PROVE  First(T) \in T /\ T \ {First(T)} \subseteq T /\ T \ {First(T)} # T
BY DEF First

LEMMA AddsUnique ==
    ASSUME NEW tbl, NEW S, NEW T, IsFiniteSet(S), NEW g, NEW h,
           Adds(g, tbl, S), Adds(h, tbl, T)
    PROVE  \A U \in SUBSET S : U \subseteq T => g[U] = h[U]
<1>1. PICK C : C = {U \in SUBSET S : U \subseteq T /\ g[U] # h[U]}
  OBVIOUS
<1>2. ASSUME C # {} PROVE FALSE
  <2>1. C \subseteq SUBSET S
    BY <1>1
  <2>2. PICK U \in C : \A W \in C : ~(W \subseteq U /\ W # U)
    BY <1>2, <2>1, LeastSubset
  <2>3. /\ U \in SUBSET S /\ U \subseteq T /\ g[U] # h[U]
        /\ \A W \in SUBSET S : W \subseteq U /\ W # U => g[W] = h[W]
    BY <1>1, <2>2
  <2>4. g[U] = Added(tbl, g, U) /\ h[U] = Added(tbl, h, U)
    BY <2>3 DEF Adds
  <2>5. U # {}
    BY <2>3, <2>4 DEF Added
  <2>6. g[U \ {First(U)}] = h[U \ {First(U)}]
    BY <2>3, <2>5, OneTaken
  <2>. QED  BY <2>3, <2>4, <2>5, <2>6 DEF Added
<1>. QED  BY <1>1, <1>2

LEMMA AddsExists ==
    ASSUME NEW tbl, NEW S, IsFiniteSet(S)
    PROVE  \E total : Adds(total, tbl, S)
<1>. DEFINE V(T) == (CHOOSE total : Adds(total, tbl, T))[T]
<1>1. PICK C : C = {T \in SUBSET S : ~\E total : Adds(total, tbl, T)}
  OBVIOUS
<1>2. ASSUME C # {} PROVE FALSE
  <2>1. C \subseteq SUBSET S
    BY <1>1
  <2>2. PICK T \in C : \A U \in C : ~(U \subseteq T /\ U # T)
    BY <1>2, <2>1, LeastSubset
  <2>3. \A U \in SUBSET T : U # T =>
            IsFiniteSet(U) /\ Adds(CHOOSE total : Adds(total, tbl, U), tbl, U)
    BY <1>1, <2>2, FS_Subset
  <2>4. ASSUME NEW U \in SUBSET T, U # T, U # {}
        PROVE  V(U) = tbl[First(U)].len + V(U \ {First(U)})
    <3>1. PICK g, h, W : /\ W = U \ {First(U)}
                         /\ g = CHOOSE total : Adds(total, tbl, U)
                         /\ h = CHOOSE total : Adds(total, tbl, W)
      OBVIOUS
    <3>2. W \in SUBSET U /\ W \in SUBSET T /\ W # T
      BY <2>4, <3>1, OneTaken
    <3>3. Adds(g, tbl, U) /\ Adds(h, tbl, W) /\ IsFiniteSet(U)
      BY <2>3, <2>4, <3>1, <3>2
    <3>4. g[W] = h[W]
      BY <3>2, <3>3, AddsUnique
    <3>5. g[U] = tbl[First(U)].len + g[W]
      BY <2>4, <3>1, <3>3 DEF Adds, Added
    <3>. QED  BY <3>1, <3>4, <3>5
  <2>5. CASE T = {}
    <3>1. Adds([U \in SUBSET T |-> 0], tbl, T)
      BY <2>5 DEF Adds, Added
    <3>. QED  BY <1>1, <2>2, <3>1
  <2>6. CASE T # {}
    <3>1. ~\E total : Adds(total, tbl, T)
      BY <1>1, <2>2
    <3>2. V({}) = 0
      BY <2>3, <2>6 DEF Adds, Added
    <3>. HIDE DEF V
    <3>3. PICK v : v = [U \in SUBSET T |-> IF U = {} THEN 0
                                           ELSE tbl[First(U)].len + V(U \ {First(U)})]
      OBVIOUS
    <3>4. \A U \in SUBSET T : U # T => v[U] = V(U)
      BY <2>4, <3>2, <3>3
    <3>5. \A U \in SUBSET T : U # {} => v[U \ {First(U)}] = V(U \ {First(U)})
      BY <3>4, OneTaken
    <3>6. \A U \in SUBSET T : v[U] = Added(tbl, v, U)
      BY <3>3, <3>5 DEF Added
    <3>7. v = [U \in SUBSET T |-> Added(tbl, v, U)]
      BY <3>3, <3>6
    <3>. QED  BY <3>1, <3>7 DEF Adds
  <2>. QED  BY <2>5, <2>6
<1>3. S \in C <=> ~\E total : Adds(total, tbl, S)
  BY <1>1
<1>. QED  BY <1>2, <1>3

LEMMA TotalTakes ==
    ASSUME NEW tbl, NEW S, IsFiniteSet(S), S # {}
    PROVE  TotalLen(tbl, S) = tbl[First(S)].len + TotalLen(tbl, S \ {First(S)})
<1>1. PICK g, h, T : /\ T = S \ {First(S)}
                     /\ g = CHOOSE total : Adds(total, tbl, S)
                     /\ h = CHOOSE total : Adds(total, tbl, T)
  OBVIOUS
<1>2. T \in SUBSET S /\ IsFiniteSet(T)
  BY <1>1, OneTaken, FS_Subset
<1>3. Adds(g, tbl, S) /\ Adds(h, tbl, T)
  BY <1>1, <1>2, AddsExists
<1>4. g[T] = h[T]
  BY <1>2, <1>3, AddsUnique
<1>5. g[S] = tbl[First(S)].len + g[T]
  BY <1>1, <1>3 DEF Adds, Added
<1>6. TotalLen(tbl, S) = g[S] /\ TotalLen(tbl, T) = h[T]
  BY <1>1, TotalIsFold
<1>. QED  BY <1>1, <1>4, <1>5, <1>6

LEMMA TotalEmpty == \A tbl : TotalLen(tbl, {}) = 0
<1>. SUFFICES ASSUME NEW tbl PROVE TotalLen(tbl, {}) = 0
  OBVIOUS
<1>1. PICK g : g = CHOOSE total : Adds(total, tbl, {})
  OBVIOUS
<1>2. Adds(g, tbl, {})
  BY <1>1, AddsExists, FS_EmptySet
<1>. QED  BY <1>1, <1>2, TotalIsFold DEF Adds, Added

(* A sum of naturals is a natural, whichever element is taken out first.   *)
LEMMA TotalNat ==
    ASSUME NEW tbl, NEW S, IsFiniteSet(S), \A x \in S : tbl[x].len \in Nat
    PROVE  TotalLen(tbl, S) \in Nat
<1>1. PICK C : C = {T \in SUBSET S : TotalLen(tbl, T) \notin Nat}
  OBVIOUS
<1>2. ASSUME C # {} PROVE FALSE
  <2>1. C \subseteq SUBSET S
    BY <1>1
  <2>2. PICK T \in C : \A U \in C : ~(U \subseteq T /\ U # T)
    BY <1>2, <2>1, LeastSubset
  <2>3. T # {} /\ T \in SUBSET S /\ IsFiniteSet(T) /\ TotalLen(tbl, T) \notin Nat
    <3>1. TotalLen(tbl, {}) = 0
      BY TotalEmpty
    <3>2. T \in SUBSET S /\ TotalLen(tbl, T) \notin Nat
      BY <1>1, <2>2
    <3>3. IsFiniteSet(T)
      BY <3>2, FS_Subset
    <3>. QED  BY <3>1, <3>2, <3>3
  <2>4. TotalLen(tbl, T \ {First(T)}) \in Nat
    BY <1>1, <2>2, <2>3, OneTaken
  <2>5. tbl[First(T)].len \in Nat
    BY <2>3, OneTaken
  <2>. QED  BY <2>3, <2>4, <2>5, TotalTakes
<1>. QED  BY <1>1, <1>2

LEMMA TotalWithout ==
    ASSUME NEW tbl, NEW S, IsFiniteSet(S), \A x \in S : tbl[x].len \in Nat, NEW x \in S
    PROVE  TotalLen(tbl, S) = tbl[x].len + TotalLen(tbl, S \ {x})
<1>1. PICK C : C = {T \in SUBSET S : \E y \in T :
                        TotalLen(tbl, T) # tbl[y].len + TotalLen(tbl, T \ {y})}
  OBVIOUS
<1>2. ASSUME C # {} PROVE FALSE
  <2>1. C \subseteq SUBSET S
    BY <1>1
  <2>2. PICK T \in C : \A U \in C : ~(U \subseteq T /\ U # T)
    BY <1>2, <2>1, LeastSubset
  <2>3. PICK y \in T : TotalLen(tbl, T) # tbl[y].len + TotalLen(tbl, T \ {y})
    BY <1>1, <2>2
  <2>4. PICK z : z = First(T)
    OBVIOUS
  <2>5. /\ T \in SUBSET S /\ IsFiniteSet(T) /\ z \in T
        /\ TotalLen(tbl, T) = tbl[z].len + TotalLen(tbl, T \ {z})
    BY <1>1, <2>2, <2>3, <2>4, OneTaken, TotalTakes, FS_Subset
  <2>6. y # z
    BY <2>3, <2>5
  <2>7. TotalLen(tbl, T \ {z}) = tbl[y].len + TotalLen(tbl, (T \ {z}) \ {y})
    <3>1. T \ {z} \notin C
      BY <2>2, <2>5
    <3>. QED  BY <1>1, <2>5, <2>6, <3>1
  <2>8. TotalLen(tbl, T \ {y}) = tbl[z].len + TotalLen(tbl, (T \ {y}) \ {z})
    <3>1. T \ {y} \notin C
      BY <2>2
    <3>. QED  BY <1>1, <2>5, <2>6, <3>1
  <2>9. /\ (T \ {y}) \ {z} = (T \ {z}) \ {y}
        /\ tbl[y].len \in Nat /\ tbl[z].len \in Nat
        /\ TotalLen(tbl, (T \ {z}) \ {y}) \in Nat
    <3>1. IsFiniteSet((T \ {z}) \ {y}) /\ \A v \in (T \ {z}) \ {y} : tbl[v].len \in Nat
      BY <2>5, FS_Subset
    <3>. QED  BY <2>5, <3>1, TotalNat
  <2>10. PICK p, q, r, s : /\ p = tbl[y].len /\ q = tbl[z].len /\ r = TotalLen(tbl, (T \ {z}) \ {y})
                           /\ s = TotalLen(tbl, T \ {y})
    OBVIOUS
  <2>11. TotalLen(tbl, T) = q + (p + r) /\ s = q + r /\ p \in Nat /\ q \in Nat /\ r \in Nat
    BY <2>5, <2>7, <2>8, <2>9, <2>10, Zenon
  <2>12. TotalLen(tbl, T) # p + s
    BY <2>3, <2>10
  <2>. QED  BY <2>11, <2>12
<1>3. S \notin C
  BY <1>2
<1>. QED  BY <1>1, <1>3

LEMMA TotalAgrees ==
    ASSUME NEW tbl, NEW other, NEW S, IsFiniteSet(S), \A x \in S : tbl[x].len = other[x].len
    PROVE  TotalLen(tbl, S) = TotalLen(other, S)
<1>1. PICK C : C = {T \in SUBSET S : TotalLen(tbl, T) # TotalLen(other, T)}
  OBVIOUS
<1>2. ASSUME C # {} PROVE FALSE
  <2>1. C \subseteq SUBSET S
    BY <1>1
  <2>2. PICK T \in C : \A U \in C : ~(U \subseteq T /\ U # T)
    BY <1>2, <2>1, LeastSubset
  <2>3. T # {} /\ T \in SUBSET S /\ IsFiniteSet(T)
    BY <1>1, <2>2, TotalEmpty, FS_Subset
  <2>4. TotalLen(tbl, T \ {First(T)}) = TotalLen(other, T \ {First(T)})
    BY <1>1, <2>2, <2>3, OneTaken
  <2>5. tbl[First(T)].len = other[First(T)].len
    BY <2>3, OneTaken
  <2>6. TotalLen(tbl, T) = TotalLen(other, T)
    BY <2>3, <2>4, <2>5, TotalTakes
  <2>. QED  BY <1>1, <2>2, <2>6
<1>. QED  BY <1>1, <1>2

(* One element more.                                                       *)
LEMMA TotalWith ==
    ASSUME NEW tbl, NEW S, IsFiniteSet(S), NEW y, y \notin S,
           \A x \in S \cup {y} : tbl[x].len \in Nat
    PROVE  TotalLen(tbl, S \cup {y}) = TotalLen(tbl, S) + tbl[y].len
<1>1. IsFiniteSet(S \cup {y}) /\ (S \cup {y}) \ {y} = S /\ y \in S \cup {y}
  BY FS_AddElement
<1>2. TotalLen(tbl, S \cup {y}) = tbl[y].len + TotalLen(tbl, S)
  <2>1. TotalLen(tbl, S \cup {y}) = tbl[y].len + TotalLen(tbl, (S \cup {y}) \ {y})
    BY <1>1, TotalWithout
  <2>. QED  BY <1>1, <2>1
<1>3. tbl[y].len \in Nat /\ TotalLen(tbl, S) \in Nat
  BY TotalNat
<1>. QED  BY <1>1, <1>2, <1>3

(* Elements of another table are filed under new names.                    *)
Filed(more, J) == {more[i].id : i \in J}

Joinable(tbl, all, more, S, I) ==
    /\ IsFiniteSet(S) /\ IsFiniteSet(I)
    /\ \A x \in S : tbl[x].len \in Nat /\ all[x].len = tbl[x].len
    /\ \A i \in I : /\ more[i].len \in Nat /\ all[more[i].id].len = more[i].len
                    /\ more[i].id \notin S
    /\ \A i, j \in I : more[i].id = more[j].id => i = j

LEMMA TotalJoin ==
    ASSUME NEW tbl, NEW all, NEW more, NEW S, NEW I, Joinable(tbl, all, more, S, I)
    PROVE  /\ Cardinality(S \cup Filed(more, I)) = Cardinality(S) + Cardinality(I)
           /\ TotalLen(all, S \cup Filed(more, I)) = TotalLen(tbl, S) + TotalLen(more, I)
<1>. USE DEF Joinable
<1>. DEFINE U(J) == S \cup Filed(more, J)
            Joined(J) == /\ IsFiniteSet(U(J))
                         /\ Cardinality(U(J)) = Cardinality(S) + Cardinality(J)
                         /\ TotalLen(all, U(J)) = TotalLen(tbl, S) + TotalLen(more, J)
<1>1. PICK C : C = {J \in SUBSET I : ~Joined(J)}
  OBVIOUS
<1>2. Joined({})
  <2>1. U({}) = S
    BY DEF Filed
  <2>2. TotalLen(all, S) = TotalLen(tbl, S)
    BY TotalAgrees
  <2>3. Cardinality(S) \in Nat /\ TotalLen(tbl, S) \in Nat /\ Cardinality({}) = 0
    BY FS_CardinalityType, TotalNat, FS_EmptySet
  <2>4. TotalLen(more, {}) = 0
    BY TotalEmpty
  <2>. HIDE DEF U
  <2>. QED  BY <2>1, <2>2, <2>3, <2>4
<1>3. ASSUME C # {} PROVE FALSE
  <2>1. C \subseteq SUBSET I
    BY <1>1
  <2>2. PICK J \in C : \A K \in C : ~(K \subseteq J /\ K # J)
    BY <1>3, <2>1, LeastSubset
  <2>3. J \in SUBSET I /\ ~Joined(J)
    BY <1>1, <2>2
  <2>4. J # {} /\ IsFiniteSet(J)
    BY <1>2, <2>3, FS_Subset
  <2>5. PICK j, K, V : j = First(J) /\ K = J \ {j} /\ V = U(K)
    OBVIOUS
  <2>6. j \in J /\ K \subseteq J /\ K # J /\ j \notin K
    BY <2>4, <2>5, OneTaken
  <2>7. Joined(K)
    BY <1>1, <2>2, <2>3, <2>6
  <2>8. U(J) = V \cup {more[j].id} /\ more[j].id \notin V
    BY <2>3, <2>5, <2>6 DEF Filed
  <2>9. \A x \in V \cup {more[j].id} : all[x].len \in Nat
    BY <2>3, <2>5, <2>6 DEF Filed
  <2>. HIDE DEF U
  <2>10. /\ IsFiniteSet(V) /\ Cardinality(V) = Cardinality(S) + Cardinality(K)
         /\ TotalLen(all, V) = TotalLen(tbl, S) + TotalLen(more, K)
    BY <2>5, <2>7
  <2>11. IsFiniteSet(U(J)) /\ Cardinality(U(J)) = Cardinality(V) + 1
    BY <2>8, <2>10, FS_AddElement
  <2>12. TotalLen(all, U(J)) = TotalLen(all, V) + more[j].len
    <3>1. TotalLen(all, V \cup {more[j].id}) = TotalLen(all, V) + all[more[j].id].len
      BY <2>8, <2>9, <2>10, TotalWith
    <3>. QED  BY <2>3, <2>6, <2>8, <3>1
  <2>13. TotalLen(more, J) = more[j].len + TotalLen(more, K)
    BY <2>4, <2>5, TotalTakes
  <2>14. IsFiniteSet(K) /\ Cardinality(J) = Cardinality(K) + 1
    <3>1. IsFiniteSet(J \ {j}) /\ Cardinality(J \ {j}) = Cardinality(J) - 1 /\ Cardinality(J) \in Nat
      BY <2>4, <2>6, FS_RemoveElement, FS_CardinalityType
    <3>. QED  BY <2>5, <3>1
  <2>15. /\ Cardinality(S) \in Nat /\ Cardinality(K) \in Nat /\ more[j].len \in Nat
         /\ TotalLen(tbl, S) \in Nat /\ TotalLen(more, K) \in Nat
    <3>1. \A i \in K : more[i].len \in Nat
      BY <2>3, <2>6
    <3>. QED  BY <2>3, <2>6, <2>14, <3>1, FS_CardinalityType, TotalNat
  <2>16. Cardinality(U(J)) = Cardinality(S) + Cardinality(J)
    BY <2>10, <2>11, <2>14, <2>15
  <2>17. TotalLen(all, U(J)) = TotalLen(tbl, S) + TotalLen(more, J)
    BY <2>10, <2>12, <2>13, <2>15
  <2>. QED  BY <2>3, <2>11, <2>16, <2>17
<1>4. Joined(I)
  <2>. HIDE DEF Joined
  <2>. QED  BY <1>1, <1>3
<1>. QED  BY <1>4
==============================================================================
