------------------------ MODULE FederatedQueryProofs ------------------------
(***************************************************************************)
(* What is proved about the reads of the federation, for any number of     *)
(* scopes, notes, pages and changes: the types (QueryTypeCorrect); a       *)
(* search shows the best of the rows that the indexes of its scopes        *)
(* offered it (SearchIsBest); a listing shows no note twice unless a note  *)
(* is created or updated, a row is hidden, a cached summary is older than  *)
(* the vault, or the listing started before the first note (NoRowTwice);   *)
(* it shows every note once, in order, when nothing disturbs it            *)
(* (PagingIsExact); an answer shows only scopes that the caller could read *)
(* when the request was made (AnswersConfined).                            *)
(*                                                                         *)
(* A cursor holds an offset per scope, and a vault counts its notes from   *)
(* an offset: the proofs go through the rank of a note among the notes of  *)
(* its scope, and start with what ranks are.                               *)
(***************************************************************************)
EXTENDS FederatedQuery, InductionFacts

-----------------------------------------------------------------------------
(* Ranks                                                                   *)

\* The notes of V before the one of rank k.
BelowRank(V, k) == {p \in V : RankIn(p, V) < k}

\* Two sets with no common member have as many members as both together.
LEMMA DisjointCount ==
  ASSUME NEW S, IsFiniteSet(S), NEW T, IsFiniteSet(T), S \cap T = {}
  PROVE  Cardinality(S \cup T) = Cardinality(S) + Cardinality(T)
<1>1. Cardinality(S \cap T) = 0  BY FS_EmptySet
<1>2. Cardinality(S \cup T) = Cardinality(S) + Cardinality(T) - Cardinality(S \cap T)
  BY FS_Union
<1>3. Cardinality(S) \in Nat /\ Cardinality(T) \in Nat  BY FS_CardinalityType
<1> QED BY <1>1, <1>2, <1>3

\* A rank is a number, at most the size of the set, and less for a member.
LEMMA RankType ==
  ASSUME NEW V \in SUBSET Nat, IsFiniteSet(V), NEW p \in Nat
  PROVE  /\ RankIn(p, V) \in Nat /\ Cardinality(V) \in Nat
         /\ RankIn(p, V) <= Cardinality(V)
         /\ p \in V => RankIn(p, V) < Cardinality(V)
<1> DEFINE W == {n \in V : n < p}
<1>1. IsFiniteSet(W) /\ Cardinality(W) \in Nat /\ Cardinality(V) \in Nat
      /\ Cardinality(W) <= Cardinality(V)
  BY FS_Subset, FS_CardinalityType
<1>2. ASSUME p \in V PROVE Cardinality(W) < Cardinality(V)
  <2>1. W \subseteq V /\ W # V  BY <1>2
  <2>2. Cardinality(W) = Cardinality(V) => W = V  BY <2>1, FS_Subset
  <2> QED BY <1>1, <2>1, <2>2
<1> QED BY <1>1, <1>2 DEF RankIn

\* A later note has a larger rank.
LEMMA RankGrows ==
  ASSUME NEW V \in SUBSET Nat, IsFiniteSet(V), NEW p \in Nat, NEW q \in Nat
  PROVE  /\ p <= q => RankIn(p, V) <= RankIn(q, V)
         /\ p \in V /\ p < q => RankIn(p, V) < RankIn(q, V)
<1> DEFINE A == {n \in V : n < p}
           B == {n \in V : n < q}
<1>1. IsFiniteSet(A) /\ IsFiniteSet(B) /\ Cardinality(A) \in Nat /\ Cardinality(B) \in Nat
  BY FS_Subset, FS_CardinalityType
<1>2. ASSUME p <= q PROVE Cardinality(A) <= Cardinality(B)
  <2>1. \A n \in V : n < p => n < q  BY <1>2
  <2>2. A \subseteq B  BY <2>1
  <2> QED BY <1>1, <2>2, FS_Subset
<1>3. ASSUME p \in V, p < q PROVE Cardinality(A) < Cardinality(B)
  <2>1. \A n \in V : n < p => n < q  BY <1>3
  <2>2. ~(p < p)  OBVIOUS
  <2>3. p \in B /\ p \notin A  BY <1>3, <2>2
  <2>4. A \subseteq B /\ A # B  BY <2>1, <2>3
  <2>5. Cardinality(A) <= Cardinality(B) /\ (Cardinality(A) = Cardinality(B) => A = B)
    BY <1>1, <2>4, FS_Subset
  <2> QED BY <1>1, <2>4, <2>5
<1> QED BY <1>2, <1>3 DEF RankIn

\* A rank does not grow when notes are taken away.
LEMMA RankShrinks ==
  ASSUME NEW V \in SUBSET Nat, IsFiniteSet(V), NEW W \in SUBSET V, NEW p \in Nat
  PROVE  RankIn(p, W) <= RankIn(p, V)
<1>1. {n \in W : n < p} \subseteq {n \in V : n < p}  OBVIOUS
<1>2. IsFiniteSet({n \in V : n < p})  BY FS_Subset
<1> QED BY <1>1, <1>2, FS_Subset DEF RankIn

\* There are k notes of rank less than k, or else all notes are.
LEMMA RankCounts ==
  ASSUME NEW V \in SUBSET Nat, IsFiniteSet(V), NEW k \in Nat
  PROVE  /\ IsFiniteSet(BelowRank(V, k)) /\ Cardinality(BelowRank(V, k)) \in Nat
         /\ k <= Cardinality(V) => Cardinality(BelowRank(V, k)) = k
         /\ k >= Cardinality(V) => BelowRank(V, k) = V
<1> DEFINE c == Cardinality(V)
           S == {i \in 0..c : Cardinality(BelowRank(V, i)) = i}
<1>0. c \in Nat /\ \A p \in V : RankIn(p, V) \in Nat /\ RankIn(p, V) < c
  BY RankType, FS_CardinalityType
<1>1. \A i : IsFiniteSet(BelowRank(V, i)) /\ Cardinality(BelowRank(V, i)) \in Nat
  BY FS_Subset, FS_CardinalityType DEF BelowRank
<1>2. 0 \in S
  <2>1. \A p \in V : ~(RankIn(p, V) < 0)  BY <1>0
  <2>2. BelowRank(V, 0) = {}  BY <2>1 DEF BelowRank
  <2> QED BY <1>0, <2>2, FS_EmptySet
<1>3. ASSUME NEW i \in 0..(c - 1), i \in S PROVE i + 1 \in S
  <2> DEFINE B == BelowRank(V, i)
             Rest == V \ B
  <2>1. i \in Nat /\ i < c /\ Cardinality(B) = i  BY <1>0, <1>3
  <2>2. B \subseteq V /\ B # V  BY <2>1 DEF BelowRank
  <2>3. Rest \in SUBSET Nat /\ Rest # {}  BY <2>2
  <2>4. PICK m \in Rest : \A n \in Rest : m <= n
    <3> HIDE DEF Rest
    <3> QED BY <2>3, Least
  <2>5. m \in V /\ m \in Nat /\ m \notin B  BY <2>4
  <2>6. \A n \in V : n < m <=> n \in B
    <3> SUFFICES ASSUME NEW n \in V PROVE n < m <=> n \in B  OBVIOUS
    <3>1. ASSUME n < m PROVE n \in B
      <4>1. ~(m <= n)  BY <2>5, <3>1
      <4> QED BY <2>4, <4>1
    <3>2. ASSUME n \in B, ~(n < m) PROVE FALSE
      <4>1. m <= n  BY <2>5, <3>2
      <4>2. RankIn(m, V) <= RankIn(n, V)  BY <2>5, <4>1, RankGrows
      <4>3. RankIn(n, V) < i /\ ~(RankIn(m, V) < i)  BY <2>5, <3>2 DEF BelowRank
      <4> QED BY <1>0, <2>1, <2>5, <4>2, <4>3
    <3> QED BY <3>1, <3>2
  <2>7. RankIn(m, V) = i
    <3>1. {n \in V : n < m} = B  BY <2>2, <2>6
    <3> QED BY <2>1, <3>1 DEF RankIn
  <2>8. BelowRank(V, i + 1) = B \cup {m}
    <3>1. ASSUME NEW n \in V, RankIn(n, V) < i + 1, n # m, n \notin B PROVE FALSE
      <4>1. m < n  BY <2>5, <2>6, <3>1
      <4>2. i < RankIn(n, V)  BY <2>5, <2>7, <4>1, RankGrows
      <4> QED BY <1>0, <2>1, <3>1, <4>2
    <3>2. ASSUME NEW n \in B PROVE RankIn(n, V) < i + 1
      <4>1. RankIn(n, V) \in Nat /\ RankIn(n, V) < i  BY <1>0 DEF BelowRank
      <4> QED BY <2>1, <4>1
    <3>3. RankIn(m, V) < i + 1  BY <2>1, <2>7
    <3>4. BelowRank(V, i + 1) \subseteq B \cup {m}  BY <3>1 DEF BelowRank
    <3>5. B \cup {m} \subseteq BelowRank(V, i + 1)  BY <2>2, <2>5, <3>2, <3>3 DEF BelowRank
    <3> QED BY <3>4, <3>5
  <2>9. Cardinality(B \cup {m}) = i + 1
    <3> HIDE DEF B
    <3> QED BY <1>1, <2>1, <2>5, FS_AddElement DEF B
  <2> QED BY <1>0, <2>1, <2>8, <2>9
<1>4. \A i \in 0..c : Cardinality(BelowRank(V, i)) = i
  <2> HIDE DEF S, c
  <2>1. \A i \in 0..c : i \in S  BY <1>0, <1>2, <1>3, Induct
  <2> USE DEF S
  <2> QED BY <2>1
<1>5. ASSUME k >= c PROVE BelowRank(V, k) = V
  <2> HIDE DEF c
  <2>1. \A p \in V : RankIn(p, V) < k  BY <1>0, <1>5
  <2> QED BY <2>1 DEF BelowRank
<1> QED BY <1>0, <1>1, <1>4, <1>5

\* The notes of V from rank o on, at most n of them.
Window(V, o, n) == {p \in V : RankIn(p, V) >= o /\ RankIn(p, V) < o + n}

\* How many notes a window holds, and what it means when it is not full.
LEMMA WindowCounts ==
  ASSUME NEW V \in SUBSET Nat, IsFiniteSet(V), NEW o \in Nat, NEW n \in Nat
  PROVE  /\ IsFiniteSet(Window(V, o, n)) /\ Cardinality(Window(V, o, n)) \in Nat
         /\ Cardinality(Window(V, o, n)) <= n
         /\ Window(V, o, n) # {} => o + Cardinality(Window(V, o, n)) <= Cardinality(V)
         /\ Cardinality(Window(V, o, n)) < n =>
              \A p \in V : RankIn(p, V) >= o => p \in Window(V, o, n)
<1> DEFINE A == Window(V, o, n)
           B == BelowRank(V, o)
           C == BelowRank(V, o + n)
           c == Cardinality(V)
<1>0. c \in Nat /\ \A p \in V : RankIn(p, V) \in Nat /\ RankIn(p, V) < c
  BY RankType, FS_CardinalityType
<1>1. IsFiniteSet(A) /\ Cardinality(A) \in Nat
  BY FS_Subset, FS_CardinalityType DEF Window
<1>2. \A p \in V : RankIn(p, V) < o + n <=> (RankIn(p, V) < o \/ p \in A)
  <2>1. \A p \in V : RankIn(p, V) < o => RankIn(p, V) < o + n  BY <1>0
  <2>2. \A p \in V : RankIn(p, V) \in Nat => (RankIn(p, V) >= o \/ RankIn(p, V) < o)  OBVIOUS
  <2> QED BY <1>0, <2>1, <2>2 DEF Window
<1>3. C = B \cup A
  <2>1. A \subseteq V  BY DEF Window
  <2> QED BY <1>2, <2>1 DEF BelowRank
<1>4. B \cap A = {}
  <2>1. \A p \in V : ~(RankIn(p, V) < o /\ RankIn(p, V) >= o)  BY <1>0
  <2> QED BY <2>1 DEF BelowRank, Window
<1>5. Cardinality(C) = Cardinality(B) + Cardinality(A)
  <2>1. IsFiniteSet(B) /\ Cardinality(B) \in Nat  BY RankCounts
  <2> HIDE DEF A, B, C
  <2> QED BY <1>1, <1>3, <1>4, <2>1, DisjointCount
<1>6. /\ o <= c => Cardinality(B) = o
      /\ o >= c => Cardinality(B) = c
      /\ o + n <= c => Cardinality(C) = o + n
      /\ o + n >= c => Cardinality(C) = c
  BY <1>0, RankCounts
<1>7. Cardinality(B) \in Nat /\ Cardinality(C) \in Nat  BY RankCounts
<1>8. A # {} => o < c
  <2>1. \A p \in V : RankIn(p, V) >= o => o < c  BY <1>0
  <2> QED BY <2>1 DEF Window
<1>9. Cardinality(A) < n => \A p \in V : RankIn(p, V) >= o => p \in A
  <2> SUFFICES ASSUME Cardinality(A) < n, NEW p \in V, RankIn(p, V) >= o PROVE p \in A
    OBVIOUS
  <2>1. o < c  BY <1>0
  <2>2. Cardinality(B) = o  BY <1>0, <1>6, <2>1
  <2>3. ~(o + n <= c)
    <3> HIDE DEF A, B, C, c
    <3> QED BY <1>0, <1>1, <1>5, <1>6, <1>7, <2>2
  <2>4. RankIn(p, V) < o + n
    <3> HIDE DEF A, B, C, c
    <3> QED BY <1>0, <2>3
  <2> QED BY <1>2, <2>4 DEF Window
<1>10. Cardinality(A) <= n
  <2> HIDE DEF A, B, C, c
  <2> QED BY <1>0, <1>1, <1>5, <1>6, <1>7
<1>11. A # {} => o + Cardinality(A) <= c
  <2> HIDE DEF A, B, C, c
  <2> QED BY <1>0, <1>1, <1>5, <1>6, <1>7, <1>8
<1> QED BY <1>1, <1>9, <1>10, <1>11

\* The rank of a note of a window, in the whole set and in the window.
LEMMA WindowRank ==
  ASSUME NEW V \in SUBSET Nat, IsFiniteSet(V), NEW o \in Nat, NEW n \in Nat,
         NEW p \in Window(V, o, n)
  PROVE  RankIn(p, V) = o + RankIn(p, Window(V, o, n))
<1> DEFINE A == Window(V, o, n)
           B == BelowRank(V, o)
           L == {x \in A : x < p}
<1>0. Cardinality(V) \in Nat /\ \A x \in V : RankIn(x, V) \in Nat /\ RankIn(x, V) < Cardinality(V)
  BY RankType, FS_CardinalityType
<1>1. p \in V /\ p \in Nat /\ RankIn(p, V) >= o /\ RankIn(p, V) < o + n  BY DEF Window
<1>2. Cardinality(B) = o /\ IsFiniteSet(B)
  <2>1. o <= Cardinality(V)  BY <1>0, <1>1
  <2> QED BY <2>1, RankCounts
<1>3. \A x \in V : x < p <=> (x \in B \/ x \in L)
  <2> SUFFICES ASSUME NEW x \in V PROVE x < p <=> (x \in B \/ (x \in A /\ x < p))  OBVIOUS
  <2>1. RankIn(x, V) \in Nat /\ x \in Nat  BY <1>0
  <2>2. ASSUME x < p, x \notin B PROVE x \in A
    <3>1. RankIn(x, V) < RankIn(p, V)  BY <1>1, <2>1, <2>2, RankGrows
    <3>2. RankIn(x, V) >= o  BY <2>1, <2>2 DEF BelowRank
    <3>3. RankIn(x, V) < o + n  BY <1>0, <1>1, <2>1, <3>1
    <3> QED BY <3>2, <3>3 DEF Window
  <2>3. ASSUME x \in B PROVE x < p
    <3> SUFFICES ASSUME ~(x < p) PROVE FALSE  OBVIOUS
    <3>1. p <= x  BY <1>1, <2>1
    <3>2. RankIn(p, V) <= RankIn(x, V)  BY <1>1, <2>1, <3>1, RankGrows
    <3>3. RankIn(x, V) < o  BY <2>3 DEF BelowRank
    <3> QED BY <1>0, <1>1, <2>1, <3>2, <3>3
  <2> QED BY <2>2, <2>3
<1>4. {x \in V : x < p} = B \cup L
  <2>1. B \subseteq V /\ L \subseteq V  BY DEF BelowRank, Window
  <2> QED BY <1>3, <2>1
<1>5. B \cap L = {}
  <2>1. \A x \in V : ~(RankIn(x, V) < o /\ RankIn(x, V) >= o)  BY <1>0
  <2> QED BY <2>1 DEF BelowRank, Window
<1>6. IsFiniteSet(L) /\ Cardinality(L) \in Nat
  <2>1. IsFiniteSet(A)  BY WindowCounts
  <2> QED BY <2>1, FS_Subset, FS_CardinalityType
<1>7. Cardinality(B \cup L) = o + Cardinality(L)
  <2> HIDE DEF B, L
  <2> QED BY <1>2, <1>5, <1>6, DisjointCount
<1> QED BY <1>4, <1>7 DEF RankIn

\* A part of a set that comes before the rest of it is made of the notes of least
\* rank.
LEMMA FrontRank ==
  ASSUME NEW A \in SUBSET Nat, IsFiniteSet(A), NEW t \in SUBSET A,
         \A a \in t, b \in A \ t : a <= b,
         NEW p \in A
  PROVE  p \in t <=> RankIn(p, A) < Cardinality(t)
<1> DEFINE L == {n \in A : n < p}
<1>0. IsFiniteSet(t) /\ IsFiniteSet(L) /\ Cardinality(t) \in Nat /\ Cardinality(L) \in Nat
  BY FS_Subset, FS_CardinalityType
<1>1. ASSUME p \in t PROVE Cardinality(L) < Cardinality(t)
  <2>1. \A n \in A : n < p => n \in t
    <3>1. \A n \in A : n < p => ~(p <= n)  OBVIOUS
    <3> QED BY <1>1, <3>1
  <2>2. p \notin L  OBVIOUS
  <2>3. L \subseteq t /\ L # t  BY <1>1, <2>1, <2>2
  <2>4. Cardinality(L) <= Cardinality(t) /\ (Cardinality(t) = Cardinality(L) => t = L)
    BY <1>0, <2>3, FS_Subset
  <2> QED BY <1>0, <2>3, <2>4
<1>2. ASSUME p \notin t PROVE ~(Cardinality(L) < Cardinality(t))
  <2>1. \A n \in t : n < p
    <3> SUFFICES ASSUME NEW n \in t PROVE n < p  OBVIOUS
    <3>1. n <= p /\ n # p /\ n \in Nat /\ p \in Nat  BY <1>2
    <3> QED BY <3>1
  <2>2. t \subseteq L  BY <2>1
  <2>3. Cardinality(t) <= Cardinality(L)  BY <1>0, <2>2, FS_Subset
  <2> QED BY <1>0, <2>3
<1> QED BY <1>1, <1>2 DEF RankIn

-----------------------------------------------------------------------------
(* Rows                                                                    *)

\* A vault's notes are finitely many numbers, no more than there are notes.
LEMMA NotesFinite ==
  ASSUME NEW V \in SUBSET Ranks
  PROVE  /\ V \in SUBSET Nat /\ IsFiniteSet(V) /\ Cardinality(V) \in Nat
         /\ Cardinality(V) <= Cardinality(Ranks) /\ Cardinality(Ranks) \in Nat
<1>1. Ranks \in SUBSET Nat /\ IsFiniteSet(Ranks)  BY QueryAssumption
<1>2. IsFiniteSet(V) /\ Cardinality(V) <= Cardinality(Ranks)  BY <1>1, FS_Subset
<1>3. Cardinality(V) \in Nat /\ Cardinality(Ranks) \in Nat  BY <1>1, <1>2, FS_CardinalityType
<1> QED BY <1>1, <1>2, <1>3

\* The notes of one scope among the rows.
RowsOf(rows, s) == {p \in Ranks : <<s, p>> \in rows}

\* The rows of a scope are as many as its notes.
LEMMA RowsCount ==
  ASSUME NEW rows \in SUBSET Row, NEW s \in Scopes
  PROVE  /\ IsFiniteSet(RowsOf(rows, s)) /\ RowsOf(rows, s) \in SUBSET Nat
         /\ Cardinality(RowsOf(rows, s)) \in Nat
         /\ IsFiniteSet(RowsOf(rows, s)) /\ IsFiniteSet({r \in rows : r[1] = s})
         /\ Cardinality({r \in rows : r[1] = s}) = Cardinality(RowsOf(rows, s))
<1> DEFINE T == RowsOf(rows, s)
           S == {r \in rows : r[1] = s}
           f == [p \in T |-> <<s, p>>]
<1>1. IsFiniteSet(T) /\ Cardinality(T) \in Nat /\ T \in SUBSET Nat
  <2>1. T \subseteq Ranks  BY DEF RowsOf
  <2> QED BY <2>1, NotesFinite
<1>2. f \in [T -> S]  BY DEF RowsOf
<1>3. \A a, b \in T : f[a] = f[b] => a = b  OBVIOUS
<1>4. \A r \in S : r[2] \in T /\ f[r[2]] = r  BY DEF RowsOf, Row
<1>5. f \in Bijection(T, S)
  <2> HIDE DEF T, S, f
  <2> QED BY <1>2, <1>3, <1>4 DEF Bijection, Injection, Surjection, IsInjective
<1>6. IsFiniteSet(S) /\ Cardinality(S) = Cardinality(T)
  <2> HIDE DEF T, S, f
  <2> QED BY <1>1, <1>5, FS_Bijection DEF ExistsBijection
<1> QED BY <1>1, <1>6

\* The rows are finitely many.
LEMMA RowsFinite ==
  ASSUME NEW rows \in SUBSET Row
  PROVE  IsFiniteSet(rows) /\ Cardinality(rows) \in Nat
<1>1. IsFiniteSet(Row)  BY QueryAssumption, FS_Product DEF Row
<1> QED BY <1>1, FS_Subset, FS_CardinalityType

\* The least of two numbers.
LEMMA MinOfTwo ==
  ASSUME NEW a \in Nat, NEW b \in Nat
  PROVE  Min({a, b}) = IF a <= b THEN a ELSE b
<1>1. \E x \in {a, b} : \A y \in {a, b} : x <= y  OBVIOUS
<1>2. Min({a, b}) \in {a, b} /\ \A y \in {a, b} : Min({a, b}) <= y  BY <1>1 DEF Min
<1> QED BY <1>2

\* What a merge takes of the rows.
LEMMA TopRowsFacts ==
  ASSUME NEW rows \in SUBSET Row, NEW limit \in Nat, NEW t \in TopRows(rows, limit)
  PROVE  /\ t \in SUBSET rows /\ Cardinality(t) \in Nat /\ Cardinality(t) <= limit
         /\ Cardinality(rows) <= limit => t = rows
         /\ Cardinality(rows) >= limit => Cardinality(t) = limit
         /\ \A a \in t, b \in rows \ t : a[2] <= b[2]
<1>1. /\ t \in SUBSET rows /\ Cardinality(t) = Min({limit, Cardinality(rows)})
      /\ \A a \in t, b \in rows \ t : a[2] <= b[2]
  BY DEF TopRows
<1>2. IsFiniteSet(rows) /\ Cardinality(rows) \in Nat  BY RowsFinite
<1>3. Cardinality(t) = IF limit <= Cardinality(rows) THEN limit ELSE Cardinality(rows)
  BY <1>1, <1>2, MinOfTwo
<1>4. Cardinality(t) = Cardinality(rows) => t = rows  BY <1>1, <1>2, FS_Subset
<1> QED BY <1>1, <1>2, <1>3, <1>4

\* The larger of two numbers.
LEMMA MaxOfTwo ==
  ASSUME NEW a \in Int, NEW b \in Int
  PROVE  Max({a, b}) = IF a >= b THEN a ELSE b
<1>1. \E x \in {a, b} : \A y \in {a, b} : x >= y  OBVIOUS
<1>2. Max({a, b}) \in {a, b} /\ \A y \in {a, b} : Max({a, b}) >= y  BY <1>1 DEF Max
<1> QED BY <1>2

\* The most rows a vault gives to a page of this size.
Most(limit) == Min({PageLimit(limit + 1), MaxPage})

\* A vault is always asked for some rows, and for one more than the page takes if it
\* can list that many.
LEMMA MostType ==
  ASSUME NEW limit \in Int
  PROVE  /\ Most(limit) \in Nat /\ PageLimit(limit) \in Nat
         /\ limit > 0 => PageLimit(limit) = limit
         /\ limit \in Nat /\ limit < MaxPage => Most(limit) = limit + 1
<1>1. PageLimit(limit) \in Nat /\ PageLimit(limit + 1) \in Nat  BY QueryAssumption DEF PageLimit
<1>2. MaxPage \in Nat  BY QueryAssumption
<1>3. Most(limit) = IF PageLimit(limit + 1) <= MaxPage THEN PageLimit(limit + 1) ELSE MaxPage
  BY <1>1, <1>2, MinOfTwo DEF Most
<1>4. limit > 0 => PageLimit(limit) = limit  BY DEF PageLimit
<1>5. limit \in Nat => PageLimit(limit + 1) = limit + 1  BY DEF PageLimit
<1> QED BY <1>1, <1>2, <1>3, <1>4, <1>5

\* A vault answers a listing with a window of its notes.
LEMMA AnswerWindow ==
  ASSUME NEW notes, NEW limit \in Int, NEW o \in Nat
  PROVE  VaultQuery(notes, limit + 1, o) = Window(notes, o, Most(limit))
<1>1. Max({o, 0}) = o  BY MaxOfTwo
<1> QED BY <1>1 DEF VaultQuery, Window, Most

\* A limit is a number, and so is the one that stands for no limit.
LEMMA LimitType == \A l \in Limits \cup {DefaultLimit} : l \in Int
<1>1. \A l \in Limits : l \in Int  BY QueryAssumption
<1>2. DefaultLimit \in Int  BY QueryAssumption
<1> QED BY <1>1, <1>2

\* The bounds of what a request asks.
LEMMA RequestNumbers ==
  ASSUME NEW r \in Request, NEW s \in Scopes
  PROVE  r.limit \in Int /\ r.offsets[s] \in Int /\ Most(r.limit) \in Nat
<1>1. r.limit \in Limits \cup {DefaultLimit} /\ r.offsets \in [Scopes -> Int]
  BY DEF Request, Offsets
<1>2. r.limit \in Int /\ r.offsets[s] \in Int  BY <1>1, LimitType
<1> QED BY <1>2, MostType

\* A vault's contents are ranks.
LEMMA ContentsRanks ==
  /\ Contents \subseteq SUBSET Ranks
  /\ [Scopes -> Contents] \subseteq [Scopes -> SUBSET Ranks]
BY DEF Contents

\* The indexes offer a search only what they hold.
LEMMA OfferedNotes ==
  ASSUME NEW kind, NEW notes, NEW limit, NEW hits \in Offers(kind, notes, limit)
  PROVE  hits \subseteq notes
<1>1. CASE kind = "search"  BY <1>1 DEF Offers, TextHits
<1>2. CASE kind = "hybrid"  BY <1>2 DEF Offers
<1>3. CASE kind = "semantic"  BY <1>3 DEF Offers
<1>4. CASE kind = "backlinks"  BY <1>4 DEF Offers
<1>5. CASE kind \notin {"search", "hybrid", "semantic", "backlinks"}  BY <1>5 DEF Offers
<1> QED BY <1>1, <1>2, <1>3, <1>4, <1>5

-----------------------------------------------------------------------------
(* The types                                                               *)

Serving == req # Idle /\ req.kind = "query"

\* The handle of the last page gives the payload of the last page, as long as it
\* is in the store.
CursorInv ==
  cursor # NoCursor /\ cursor.kind = "handle" /\ cursor.handle \in DOMAIN store =>
    store[cursor.handle] = cursor.data

\* How far a request has come: a listing leaves the service when it is merged, a
\* search stays where it was merged and changes no more.
ReqShape ==
  req # Idle =>
    /\ req.asked \subseteq req.scopes
    /\ req.rows \subseteq req.asked \X Ranks /\ req.held \subseteq req.asked \X Ranks
    /\ req.kind = "query" => /\ req.limit \in Limits
                             /\ status = "open" /\ Len(pages) < MaxPages
    /\ req.kind # "query" =>
         /\ cursor = NoCursor
         /\ \/ status = "open" /\ pages = <<>>
            \/ status # "open" /\ req.asked = req.scopes /\ Len(pages) = 1

QInv == TypeOK /\ boot <= changes /\ CursorInv /\ ReqShape

\* What the types say, variable by variable.
LEMMA QTypes ==
  ASSUME QInv
  PROVE  /\ vault \in [Scopes -> Contents] /\ vault \in [Scopes -> SUBSET Ranks]
         /\ past \in [Scopes -> SUBSET Contents]
         /\ tomb \subseteq Refs /\ allowed \subseteq Scopes
         /\ boot \in Nat /\ changes \in 0..MaxChanges /\ boot <= changes
         /\ cursor # NoCursor => cursor \in Cursor
         /\ pages \in Seq(Page) /\ Len(pages) \in Nat /\ Len(pages) <= MaxPages
         /\ req # Idle => req \in Request
BY QueryAssumption, ContentsRanks DEF QInv, TypeOK

\* The payload of a cursor is one, and it is the one of the last page.
LEMMA Decoded ==
  ASSUME QInv, cursor # NoCursor, NEW p \in DecodeCursor(cursor)
  PROVE  p = cursor.data /\ p \in Payload
<1>1. cursor \in Cursor  BY QTypes
<1>2. cursor.data \in Payload  BY <1>1 DEF Cursor
<1>3. p = cursor.data  BY DEF DecodeCursor, QInv, CursorInv
<1> QED BY <1>2, <1>3

\* A new request is one.
LEMMA NewRequestType ==
  ASSUME QInv, NEW kind \in Kinds, NEW limit \in Limits \cup {DefaultLimit},
         NEW scopes \in SUBSET Scopes, NEW offsets \in Offsets
  PROVE  /\ NewRequest(kind, limit, scopes, offsets) \in Request
         /\ NewRequest(kind, limit, scopes, offsets) # Idle
<1>1. allowed \subseteq Scopes  BY QTypes
<1>2. [s \in Scopes |-> "ok"] \in [Scopes -> Outcome]  BY DEF Outcome
<1>3. NewRequest(kind, limit, scopes, offsets) \in Request
  BY <1>1, <1>2 DEF NewRequest, Request
<1> QED BY <1>3, NilAssumption

\* A request that begins.
LEMMA QStart ==
  ASSUME QInv, NEW kind \in Kinds, NEW limit \in Limits \cup {DefaultLimit},
         NEW scopes \in SUBSET Scopes, NEW offsets \in Offsets,
         status = "open",
         IF kind = "query" THEN limit \in Limits /\ Len(pages) < MaxPages
         ELSE pages = <<>> /\ cursor = NoCursor,
         req' = NewRequest(kind, limit, scopes, offsets), upset' \subseteq Upsets,
         UNCHANGED <<others, store, cursor, pages, status>>
  PROVE  QInv'
<1>2. NewRequest(kind, limit, scopes, offsets) \in Request  BY NewRequestType
<1>3. /\ req'.kind = kind /\ req'.limit = limit /\ req'.rows = {} /\ req'.held = {} /\ req'.asked = {}
  BY DEF NewRequest
<1>4. TypeOK'  BY <1>2 DEF QInv, TypeOK, others
<1>5. CursorInv'  BY DEF QInv, CursorInv
<1>6. ReqShape'  BY <1>3 DEF ReqShape
<1>7. (boot <= changes)'  BY DEF QInv, others
<1> QED BY <1>4, <1>5, <1>6, <1>7 DEF QInv

\* An answer is a reply with some ranks, of the vault or of what was cached of it.
LEMMA AnswerReplies ==
  ASSUME QInv, NEW s \in Scopes, AnswerQuery(s) \/ AnswerSearch(s)
  PROVE  \E rows, hits \in SUBSET Ranks :
           Reply(s, rows, hits) /\ upset \subseteq upset' /\ upset' \subseteq upset \cup {"stale"}
<1>1. CASE AnswerQuery(s)
  <2>1. PICK notes \in {vault[s]} \cup past[s] :
          /\ Reply(s, VaultQuery(notes, AskedLimit(req), req.offsets[s]), {})
          /\ upset' = IF notes = vault[s] THEN upset ELSE upset \cup {"stale"}
    BY <1>1 DEF AnswerQuery
  <2>2. notes \in SUBSET Ranks  BY QTypes, ContentsRanks
  <2>3. VaultQuery(notes, AskedLimit(req), req.offsets[s]) \in SUBSET Ranks
    BY <2>2 DEF VaultQuery
  <2> QED BY <2>1, <2>3
<1>2. CASE AnswerSearch(s)
  <2>1. PICK hits \in Offers(req.kind, vault[s], PageLimit(AskedLimit(req))) :
          Reply(s, IF req.kind = "backlinks" THEN hits
                   ELSE VaultSearch(hits, PageLimit(AskedLimit(req))), hits)
    BY <1>2 DEF AnswerSearch
  <2>2. hits \subseteq vault[s] /\ vault[s] \subseteq Ranks  BY QTypes, OfferedNotes
  <2>3. (IF req.kind = "backlinks" THEN hits
         ELSE VaultSearch(hits, PageLimit(AskedLimit(req)))) \in SUBSET Ranks
    BY <2>2 DEF VaultSearch
  <2> QED BY <1>2, <2>1, <2>2, <2>3 DEF AnswerSearch
<1> QED BY <1>1, <1>2

\* What a reply does to the request.
LEMMA ReplyEffect ==
  ASSUME QInv, NEW s \in Scopes, NEW rows \in SUBSET Ranks, NEW hits \in SUBSET Ranks,
         Reply(s, rows, hits)
  PROVE  /\ req \in Request /\ req' \in Request /\ s \in req.scopes \ req.asked
         /\ req'.kind = req.kind /\ req'.limit = req.limit /\ req'.scopes = req.scopes
         /\ req'.offsets = req.offsets /\ req'.allowed = req.allowed
         /\ req'.asked = req.asked \cup {s}
         /\ req'.rows = req.rows \cup ({s} \X rows)
         /\ req'.held = req.held \cup ({s} \X hits)
<1> DEFINE newRows == req.rows \cup ({s} \X rows)
           newHeld == req.held \cup ({s} \X hits)
           newAsked == req.asked \cup {s}
<1>1. /\ req # Idle /\ s \in req.scopes \ req.asked
      /\ req' = [req EXCEPT !.asked = @ \cup {s},
                            !.rows = @ \cup ({s} \X rows),
                            !.held = @ \cup ({s} \X hits)]
  BY DEF Reply
<1>2. req \in Request  BY <1>1, QTypes
<1>3. req' = [req EXCEPT !.asked = newAsked, !.rows = newRows, !.held = newHeld]
  BY <1>1, <1>2
<1>4. newRows \in SUBSET Row /\ newHeld \in SUBSET Row /\ newAsked \in SUBSET Scopes
  BY <1>2 DEF Request, Row
<1> HIDE DEF newRows, newHeld, newAsked
<1>5. /\ req' \in Request
      /\ req'.kind = req.kind /\ req'.limit = req.limit /\ req'.scopes = req.scopes
      /\ req'.offsets = req.offsets /\ req'.allowed = req.allowed
      /\ req'.asked = newAsked /\ req'.rows = newRows /\ req'.held = newHeld
  BY <1>2, <1>3, <1>4 DEF Request
<1> QED BY <1>1, <1>2, <1>5 DEF newRows, newHeld, newAsked

\* The rows of the scope that replied are its answer; those of the others stay.
LEMMA ReplyRows ==
  ASSUME QInv, NEW s \in Scopes, NEW rows \in SUBSET Ranks, NEW hits \in SUBSET Ranks,
         Reply(s, rows, hits)
  PROVE  /\ RowsOf(req.rows, s) = {} /\ RowsOf(req.held, s) = {}
         /\ RowsOf(req'.rows, s) = rows
         /\ RowsOf(req'.held, s) = hits
         /\ \A x : x # s => /\ RowsOf(req'.rows, x) = RowsOf(req.rows, x)
                            /\ RowsOf(req'.held, x) = RowsOf(req.held, x)
<1>1. /\ s \notin req.asked
      /\ req'.rows = req.rows \cup ({s} \X rows)
      /\ req'.held = req.held \cup ({s} \X hits)
  BY ReplyEffect
<1>2. req.rows \subseteq req.asked \X Ranks /\ req.held \subseteq req.asked \X Ranks
  BY DEF QInv, ReqShape, Reply
<1> QED BY <1>1, <1>2 DEF RowsOf

\* What a failure does to the request.
LEMMA FailureEffect ==
  ASSUME QInv, NEW s \in Scopes, NEW why \in Outcome, Failure(s, why)
  PROVE  /\ req \in Request /\ req' \in Request /\ s \in req.scopes \ req.asked
         /\ req'.kind = req.kind /\ req'.limit = req.limit /\ req'.scopes = req.scopes
         /\ req'.offsets = req.offsets /\ req'.rows = req.rows /\ req'.held = req.held
         /\ req'.asked = req.asked \cup {s} /\ req'.allowed = req.allowed
<1>1. /\ req # Idle /\ s \in req.scopes \ req.asked
      /\ req' = [req EXCEPT !.asked = @ \cup {s}, !.result[s] = why]
  BY DEF Failure
<1>2. req \in Request  BY <1>1, QTypes
<1>3. [req.result EXCEPT ![s] = why] \in [Scopes -> Outcome]  BY <1>2 DEF Request
<1>4. req.asked \cup {s} \in SUBSET Scopes  BY <1>2 DEF Request
<1>5. req' = [req EXCEPT !.asked = req.asked \cup {s}, !.result = [req.result EXCEPT ![s] = why]]
  BY <1>1, <1>2 DEF Request
<1>6. req' \in Request
  <2> DEFINE asked == req.asked \cup {s}
             result == [req.result EXCEPT ![s] = why]
  <2>1. req' = [req EXCEPT !.asked = asked, !.result = result]  BY <1>5
  <2>2. asked \in SUBSET Scopes /\ result \in [Scopes -> Outcome]  BY <1>3, <1>4
  <2> HIDE DEF asked, result
  <2> QED BY <1>2, <2>1, <2>2 DEF Request
<1>7. /\ req'.kind = req.kind /\ req'.limit = req.limit /\ req'.scopes = req.scopes
      /\ req'.offsets = req.offsets /\ req'.rows = req.rows /\ req'.held = req.held
      /\ req'.asked = req.asked \cup {s} /\ req'.allowed = req.allowed
  BY <1>2, <1>5 DEF Request
<1> QED BY <1>1, <1>2, <1>6, <1>7

\* An answer keeps the types.
LEMMA QAnswer ==
  ASSUME QInv, NEW s \in Scopes, AnswerQuery(s) \/ AnswerSearch(s)
  PROVE  QInv'
<1>0. PICK rows \in SUBSET Ranks, hits \in SUBSET Ranks :
        Reply(s, rows, hits) /\ upset' \subseteq upset \cup {"stale"}
  BY AnswerReplies
<1>1. UNCHANGED <<others, store, cursor, pages, status>>  BY <1>0 DEF Reply
<1>2. req \in Request /\ req' \in Request /\ req # Idle /\ req' # Idle
  BY <1>0, ReplyEffect, NilAssumption
<1>3. TypeOK'
  <2>1. "stale" \in Upsets  BY DEF Upsets
  <2> QED BY <1>0, <1>1, <1>2, <2>1 DEF QInv, TypeOK, others
<1>4. CursorInv'  BY <1>1 DEF QInv, CursorInv
<1>5. ReqShape'
  <2>1. /\ req.asked \subseteq req.scopes
        /\ req.rows \subseteq req.asked \X Ranks /\ req.held \subseteq req.asked \X Ranks
        /\ req.kind = "query" => req.limit \in Limits /\ status = "open" /\ Len(pages) < MaxPages
        /\ req.kind # "query" => status = "open" /\ pages = <<>> /\ cursor = NoCursor
    BY <1>0, <1>2, ReplyEffect DEF QInv, ReqShape
  <2>2. /\ req'.asked \subseteq req'.scopes
        /\ req'.rows \subseteq req'.asked \X Ranks /\ req'.held \subseteq req'.asked \X Ranks
    <3>1. /\ s \in req.scopes /\ req'.scopes = req.scopes /\ req'.asked = req.asked \cup {s}
          /\ req'.rows = req.rows \cup ({s} \X rows) /\ req'.held = req.held \cup ({s} \X hits)
      BY <1>0, ReplyEffect
    <3> QED BY <2>1, <3>1
  <2>3. req'.kind = req.kind /\ req'.limit = req.limit  BY <1>0, ReplyEffect
  <2> QED BY <1>1, <2>1, <2>2, <2>3 DEF ReqShape
<1>6. (boot <= changes)'  BY <1>1 DEF QInv, others
<1> QED BY <1>3, <1>4, <1>5, <1>6 DEF QInv

\* A failure leaves the rows as they were.
LEMMA QFailure ==
  ASSUME QInv, NEW s \in Scopes, NEW why \in Outcome, Failure(s, why),
         changes' \in {changes, changes + 1}, changes' <= MaxChanges
  PROVE  QInv'
<1>1. /\ UNCHANGED <<vault, past, tomb, allowed, boot, store, cursor, pages, status>>
      /\ upset' = upset \cup {"failed"}
  BY DEF Failure
<1>2. req \in Request /\ req' \in Request /\ req # Idle /\ req' # Idle
  BY FailureEffect, NilAssumption
<1>3. boot \in Nat /\ changes \in 0..MaxChanges /\ boot <= changes  BY QTypes
<1>4. changes' \in 0..MaxChanges /\ boot <= changes'  BY <1>3, QueryAssumption
<1>5. TypeOK'
  <2>1. "failed" \in Upsets  BY DEF Upsets
  <2> QED BY <1>1, <1>2, <1>4, <2>1 DEF QInv, TypeOK
<1>6. CursorInv'  BY <1>1 DEF QInv, CursorInv
<1>7. ReqShape'
  <2>1. /\ req.asked \subseteq req.scopes
        /\ req.rows \subseteq req.asked \X Ranks /\ req.held \subseteq req.asked \X Ranks
        /\ req.kind = "query" => req.limit \in Limits /\ status = "open" /\ Len(pages) < MaxPages
        /\ req.kind # "query" => status = "open" /\ pages = <<>> /\ cursor = NoCursor
    BY <1>2, FailureEffect DEF QInv, ReqShape
  <2>2. /\ req'.asked \subseteq req'.scopes
        /\ req'.rows \subseteq req'.asked \X Ranks /\ req'.held \subseteq req'.asked \X Ranks
    BY <2>1, FailureEffect
  <2> QED BY <1>1, <2>1, <2>2, FailureEffect DEF ReqShape
<1> QED BY <1>1, <1>4, <1>5, <1>6, <1>7 DEF QInv

\* The offsets of the next page.
LEMMA AdvanceFacts ==
  ASSUME QInv, Serving, NEW page \in SUBSET req.rows
  PROVE  /\ Advance(req.offsets, req.scopes, page) \in Offsets
         /\ \A s \in req.scopes : Advance(req.offsets, req.scopes, page)[s]
                                  = req.offsets[s] + Cardinality(RowsOf(page, s))
         /\ (\A s \in Scopes : req.offsets[s] \in Nat) =>
              \A s \in Scopes : Advance(req.offsets, req.scopes, page)[s] \in Nat
<1>0. req \in Request  BY QTypes DEF Serving
<1>1. page \in SUBSET Row /\ req.scopes \subseteq Scopes /\ req.offsets \in [Scopes -> Int]
  BY <1>0 DEF Request, Offsets
<1>2. \A s \in Scopes :
        /\ Cardinality(RowsOf(page, s)) \in Nat
        /\ Cardinality({r \in page : r[1] = s}) = Cardinality(RowsOf(page, s))
  BY <1>1, RowsCount
<1>3. \A s \in Scopes : Advance(req.offsets, req.scopes, page)[s]
        = IF s \in req.scopes THEN req.offsets[s] + Cardinality(RowsOf(page, s)) ELSE 0
  BY <1>2 DEF Advance
<1>4. Advance(req.offsets, req.scopes, page) \in [Scopes -> Int]
  <2>1. ASSUME NEW s \in Scopes PROVE Advance(req.offsets, req.scopes, page)[s] \in Int
    <3>1. req.offsets[s] \in Int  BY <1>1
    <3>2. Cardinality(RowsOf(page, s)) \in Nat  BY <1>2
    <3>3. req.offsets[s] + Cardinality(RowsOf(page, s)) \in Int  BY <3>1, <3>2
    <3> QED BY <1>3, <3>3
  <2>2. Advance(req.offsets, req.scopes, page)
          = [s \in Scopes |-> Advance(req.offsets, req.scopes, page)[s]]
    BY DEF Advance
  <2> QED BY <2>1, <2>2
<1>5. ASSUME NEW s \in Scopes, req.offsets[s] \in Nat
      PROVE  Advance(req.offsets, req.scopes, page)[s] \in Nat
  <2>1. Cardinality(RowsOf(page, s)) \in Nat  BY <1>2
  <2>2. req.offsets[s] + Cardinality(RowsOf(page, s)) \in Nat  BY <1>5, <2>1
  <2> QED BY <1>3, <2>2
<1> QED BY <1>1, <1>3, <1>4, <1>5 DEF Offsets

\* The scopes and the offsets that a page leaves to the next one.
NextPayload(page) ==
  [scopes |-> req.scopes, offsets |-> Advance(req.offsets, req.scopes, page)]

\* The merge of a listing gave this page, with a cursor when rows are left: it is the
\* next of the pages, unless a limit of zero left it empty.
Collected(page) ==
  /\ Serving /\ req \in Request /\ req.limit \in Nat
  /\ page \in SUBSET req.rows /\ page \in TopRows(Visible, req.limit)
  /\ PageOf(page) \in Page /\ NextPayload(page) \in Payload
  /\ Len(pages) \in Nat /\ Len(pages) < MaxPages
  /\ IF HasMore /\ req.limit = 0
     THEN pages' = pages /\ page = {}
     ELSE pages' = Append(pages, PageOf(page))
  /\ pages' \in Seq(Page) /\ Len(pages') <= MaxPages
  /\ IF HasMore
     THEN /\ cursor' \in Cursor /\ cursor'.data = NextPayload(page)
          /\ cursor'.kind = "handle" => store' = PutCursor(NextPayload(page), cursor'.handle)
          /\ cursor'.kind # "handle" => store' = store
     ELSE cursor' = NoCursor /\ store' = store

\* What the merge of a listing does: the page, the payload of the next page and the
\* cursor that carries it.
LEMMA CollectEffect ==
  ASSUME QInv, Collect
  PROVE  \E page : Collected(page)
<1>1. Serving /\ req \in Request /\ req.limit \in Nat
  <2>1. Serving /\ req \in Request /\ req.limit >= 0  BY QTypes DEF Collect, Answered, Serving
  <2>2. req.limit \in Limits \cup {DefaultLimit}  BY <2>1 DEF Request
  <2>3. req.limit \in Int  BY <2>2, LimitType
  <2> QED BY <2>1, <2>3
<1>2. PICK page \in TopRows(Visible, req.limit) :
        LET p == [scopes |-> req.scopes,
                  offsets |-> Advance(req.offsets, req.scopes, page)]
            h == Len(pages) + 1
        IN /\ pages' = IF HasMore /\ req.limit = 0 THEN pages ELSE Append(pages, PageOf(page))
           /\ cursor' = IF HasMore THEN EncodeCursor(p, h) ELSE NoCursor
           /\ store' = IF HasMore /\ ~Inline(p) THEN PutCursor(p, h) ELSE store
  BY DEF Collect
<1> DEFINE p == NextPayload(page)
           h == Len(pages) + 1
<1>3. /\ pages' = IF HasMore /\ req.limit = 0 THEN pages ELSE Append(pages, PageOf(page))
      /\ cursor' = IF HasMore THEN EncodeCursor(p, h) ELSE NoCursor
      /\ store' = IF HasMore /\ ~Inline(p) THEN PutCursor(p, h) ELSE store
  BY <1>2 DEF NextPayload
<1>4. page \in SUBSET req.rows  BY DEF TopRows, Visible
<1>5. p \in Payload
  <2>1. req.scopes \in SUBSET Scopes  BY <1>1 DEF Request
  <2> QED BY <1>1, <1>4, <2>1, AdvanceFacts DEF Payload, NextPayload
<1>6. PageOf(page) \in Page
  <2>1. /\ req.rows \in SUBSET Row /\ req.scopes \in SUBSET Scopes
        /\ req.allowed \in SUBSET Scopes /\ req.offsets \in Offsets
    BY <1>1 DEF Request
  <2> QED BY <1>4, <2>1 DEF PageOf, Page
<1>7. Len(pages) \in Nat /\ Len(pages) < MaxPages /\ pages \in Seq(Page)
  BY <1>1, QTypes DEF QInv, ReqShape, Serving
<1>8. h \in Handle  BY <1>7, QueryAssumption DEF Handle
<1>9. boot \in Nat  BY QTypes
<1>10. /\ EncodeCursor(p, h) \in Cursor /\ EncodeCursor(p, h).data = p
       /\ EncodeCursor(p, h).handle = h
       /\ EncodeCursor(p, h).kind = "handle" <=> ~Inline(p)
  <2> HIDE DEF p, h
  <2> QED BY <1>5, <1>8, <1>9 DEF EncodeCursor, Cursor
<1>11. pages' \in Seq(Page) /\ Len(pages') <= MaxPages
  <2>1. CASE HasMore /\ req.limit = 0  BY <1>3, <1>7, <2>1, QueryAssumption
  <2>2. CASE ~(HasMore /\ req.limit = 0)
    <3>1. pages' = Append(pages, PageOf(page))  BY <1>3, <2>2
    <3>2. pages' \in Seq(Page) /\ Len(pages') = Len(pages) + 1  BY <1>6, <1>7, <3>1
    <3> QED BY <1>7, <3>2, QueryAssumption
  <2> QED BY <2>1, <2>2
<1>12. IF HasMore
       THEN /\ cursor' \in Cursor /\ cursor'.data = p
            /\ cursor'.kind = "handle" => store' = PutCursor(p, cursor'.handle)
            /\ cursor'.kind # "handle" => store' = store
       ELSE cursor' = NoCursor /\ store' = store
  <2> HIDE DEF p, h
  <2> QED BY <1>3, <1>10
<1>13. ASSUME HasMore, req.limit = 0 PROVE page = {}
  <2>1. Visible \in SUBSET Row  BY <1>1 DEF Visible, Request
  <2>2. IsFiniteSet(page) /\ Cardinality(page) \in Nat
    <3>1. page \in SUBSET Row  BY <1>1, <1>4 DEF Request
    <3> QED BY <3>1, RowsFinite
  <2>3. Cardinality(page) <= 0
    <3> DEFINE l == req.limit
    <3>1. l \in Nat /\ page \in TopRows(Visible, l)  BY <1>1
    <3> HIDE DEF l
    <3>2. Cardinality(page) <= l  BY <2>1, <3>1, TopRowsFacts
    <3> QED BY <1>13, <3>2 DEF l
  <2>4. Cardinality(page) = 0  BY <2>2, <2>3
  <2> QED BY <2>2, <2>4, FS_EmptySet
<1>14. IF HasMore /\ req.limit = 0
       THEN pages' = pages /\ page = {}
       ELSE pages' = Append(pages, PageOf(page))
  BY <1>3, <1>13
<1>15. p = NextPayload(page)  OBVIOUS
<1> HIDE DEF p
<1> QED BY <1>1, <1>2, <1>4, <1>5, <1>6, <1>7, <1>11, <1>12, <1>14, <1>15 DEF Collected

\* The merge of a listing keeps the types.
LEMMA QCollect ==
  ASSUME QInv, Collect
  PROVE  QInv'
<1>1. /\ req' = Idle /\ status' \in {"open", "done"}
      /\ upset' \subseteq upset \cup {"hidden", "zero"}
      /\ UNCHANGED others
  BY DEF Collect
<1>2. PICK page : Collected(page)  BY CollectEffect
<1> DEFINE p == NextPayload(page)
<1>3. p \in Payload  BY <1>2 DEF Collected
<1>4. pages' \in Seq(Page) /\ Len(pages') <= MaxPages  BY <1>2 DEF Collected
<1>5. IF HasMore
      THEN /\ cursor' \in Cursor /\ cursor'.data = p
           /\ cursor'.kind = "handle" => store' = PutCursor(p, cursor'.handle)
           /\ cursor'.kind # "handle" => store' = store
      ELSE cursor' = NoCursor /\ store' = store
  BY <1>2 DEF Collected
<1> HIDE DEF p
<1>6. cursor' \in Cursor \cup {NoCursor}  BY <1>5
<1>7. DOMAIN store' \subseteq Handle /\ \A h \in DOMAIN store' : store'[h] \in Payload
  <2>1. DOMAIN store \subseteq Handle /\ \A h \in DOMAIN store : store[h] \in Payload
    BY DEF QInv, TypeOK
  <2>2. CASE store' = store  BY <2>1, <2>2
  <2>3. CASE cursor' \in Cursor /\ store' = PutCursor(p, cursor'.handle)
    <3>1. cursor'.handle \in Handle  BY <2>3 DEF Cursor
    <3> QED BY <1>3, <2>1, <2>3, <3>1 DEF PutCursor
  <2> QED BY <1>5, <2>2, <2>3
<1>8. TypeOK'
  <2>1. "hidden" \in Upsets /\ "zero" \in Upsets  BY DEF Upsets
  <2> QED BY <1>1, <1>4, <1>6, <1>7, <2>1 DEF QInv, TypeOK, others
<1>9. CursorInv'
  <2>1. ASSUME cursor' # NoCursor, cursor'.kind = "handle"
        PROVE  store'[cursor'.handle] = cursor'.data
    <3>1. store' = PutCursor(p, cursor'.handle) /\ cursor'.data = p  BY <1>5, <2>1
    <3> QED BY <3>1 DEF PutCursor
  <2> QED BY <2>1 DEF CursorInv
<1>10. ReqShape'  BY <1>1 DEF ReqShape
<1>11. (boot <= changes)'  BY <1>1 DEF QInv, others
<1> QED BY <1>8, <1>9, <1>10, <1>11 DEF QInv

\* The merge of a search: the only page, and the request stays as it is.
LEMMA QMerge ==
  ASSUME QInv, MergeSearch
  PROVE  QInv'
<1>1. /\ req # Idle /\ req.kind # "query" /\ status = "open" /\ req.asked = req.scopes
      /\ status' \in {"error", "done"}
      /\ UNCHANGED <<others, store, cursor, req, upset>>
  BY DEF MergeSearch, Answered
<1>2. PICK found \in IF req.kind = "backlinks" THEN {AllBacklinks(req)} ELSE BestMatches(req) :
        pages' = <<PageOf(found)>>
  BY DEF MergeSearch
<1>3. found \in SUBSET req.rows  BY DEF AllBacklinks, BestMatches, TopRows
<1>4. PageOf(found) \in Page
  <2>1. req \in Request  BY <1>1, QTypes
  <2>2. /\ req.rows \in SUBSET Row /\ req.scopes \in SUBSET Scopes
        /\ req.allowed \in SUBSET Scopes /\ req.offsets \in Offsets
    BY <2>1 DEF Request
  <2> QED BY <1>3, <2>2 DEF PageOf, Page
<1>5. pages' \in Seq(Page) /\ Len(pages') = 1 /\ Len(pages') <= MaxPages
  BY <1>2, <1>4, QueryAssumption
<1>6. TypeOK'  BY <1>1, <1>5 DEF QInv, TypeOK, others
<1>7. CursorInv'  BY <1>1 DEF QInv, CursorInv
<1>8. ReqShape'  BY <1>1, <1>5 DEF QInv, ReqShape
<1>9. (boot <= changes)'  BY <1>1 DEF QInv, others
<1> QED BY <1>6, <1>7, <1>8, <1>9 DEF QInv

\* Steps that leave the requests and what was answered alone.
LEMMA QRest ==
  ASSUME QInv, vault' \in [Scopes -> Contents], past' \in [Scopes -> SUBSET Contents],
         tomb' \subseteq Refs, allowed' \subseteq Scopes, upset' \subseteq Upsets,
         \/ changes' = changes /\ status' = status
         \/ changes' = changes + 1 /\ changes < MaxChanges /\ status' = status
         \/ changes' = changes /\ req' = Idle /\ status' \in {"open", "done", "error"},
         req' = req \/ req' = Idle,
         UNCHANGED <<boot, cursor, pages>>,
         store' = store \/ \E h : store' = [x \in DOMAIN store \ {h} |-> store[x]]
  PROVE  QInv'
<1>1. changes' \in 0..MaxChanges /\ boot <= changes'
  <2>1. boot \in Nat /\ changes \in 0..MaxChanges /\ boot <= changes  BY QTypes
  <2> QED BY <2>1, QueryAssumption
<1>2. /\ DOMAIN store' \subseteq DOMAIN store
      /\ \A h \in DOMAIN store' : store'[h] = store[h]
  OBVIOUS
<1>3. TypeOK'
  <2>1. status' \in {"open", "done", "error"}  BY DEF QInv, TypeOK
  <2>2. DOMAIN store' \subseteq Handle /\ \A h \in DOMAIN store' : store'[h] \in Payload
    BY <1>2 DEF QInv, TypeOK
  <2> QED BY <1>1, <2>1, <2>2 DEF QInv, TypeOK
<1>4. CursorInv'  BY <1>2 DEF QInv, CursorInv
<1>5. ReqShape'  BY DEF QInv, ReqShape
<1> QED BY <1>1, <1>3, <1>4, <1>5 DEF QInv

\* Steps that only end the request.
LEMMA QEnd ==
  ASSUME QInv, UNCHANGED <<others, store, cursor, pages>>, req' = Idle,
         status' \in {"open", "done", "error"}, upset' = upset
  PROVE  QInv'
<1>1. /\ vault' \in [Scopes -> Contents] /\ past' \in [Scopes -> SUBSET Contents]
      /\ tomb' \subseteq Refs /\ allowed' \subseteq Scopes /\ upset' \subseteq Upsets
  BY QTypes DEF QInv, TypeOK, others
<1> QED BY <1>1, QRest DEF others

\* Changes to the notes of one scope.
LEMMA QChange ==
  ASSUME QInv, NEW s \in Scopes, NEW notes \in Contents, Change(s, notes),
         tomb' \subseteq Refs, upset' \subseteq Upsets
  PROVE  QInv'
<1>1. /\ vault' = [vault EXCEPT ![s] = notes]
      /\ past' = IF s \in Remote THEN [past EXCEPT ![s] = past[s] \cup {vault[s]}] ELSE past
      /\ changes < MaxChanges /\ changes' = changes + 1
      /\ UNCHANGED <<allowed, boot, store, cursor, pages, status, req>>
  BY DEF Change, Meddle
<1>2. vault \in [Scopes -> Contents] /\ past \in [Scopes -> SUBSET Contents] /\ allowed \subseteq Scopes
  BY QTypes
<1>3. vault' \in [Scopes -> Contents] /\ past' \in [Scopes -> SUBSET Contents]  BY <1>1, <1>2
<1> QED BY <1>1, <1>2, <1>3, QRest

\* A restart forgets the handles, the cached summaries and the request.
LEMMA QRestart ==
  ASSUME QInv, Restart
  PROVE  QInv'
<1>1. /\ changes < MaxChanges /\ changes' = changes + 1 /\ boot' = boot + 1
      /\ store' = [h \in {} |-> {}] /\ req' = Idle /\ status' \in {status, "error"}
      /\ past' = [s \in Scopes |-> {}]
      /\ UNCHANGED <<vault, tomb, allowed, cursor, pages, upset>>
  BY DEF Restart, Meddle
<1>2. changes' \in 0..MaxChanges /\ boot' <= changes' /\ boot' \in 0..MaxChanges
  <2>1. boot \in Nat /\ changes \in 0..MaxChanges /\ boot <= changes  BY QTypes
  <2> QED BY <1>1, <2>1, QueryAssumption
<1>3. DOMAIN store' = {}  BY <1>1
<1>4. TypeOK'
  <2>1. DOMAIN store' \subseteq Handle /\ \A h \in DOMAIN store' : store'[h] \in Payload  BY <1>3
  <2>2. status' \in {"open", "done", "error"}  BY <1>1 DEF QInv, TypeOK
  <2>3. past' \in [Scopes -> SUBSET Contents]  BY <1>1
  <2> QED BY <1>1, <1>2, <2>1, <2>2, <2>3 DEF QInv, TypeOK
<1>5. CursorInv'  BY <1>1, <1>3 DEF QInv, CursorInv
<1>6. ReqShape'  BY <1>1 DEF ReqShape
<1> QED BY <1>2, <1>4, <1>5, <1>6 DEF QInv

\* The invariant holds at the start.
LEMMA QInvInit == Init => QInv
<1> SUFFICES ASSUME Init PROVE QInv  OBVIOUS
<1>1. /\ vault \in [Scopes -> Contents] /\ past = [s \in Scopes |-> {}]
      /\ tomb \subseteq Refs /\ allowed = Scopes
      /\ boot = 0 /\ cursor = NoCursor /\ pages = <<>> /\ status = "open" /\ req = Idle
      /\ upset = {} /\ changes = 0
  BY InitialAssumption DEF Init
<1>2. DOMAIN store = {}  BY DEF Init
<1>3. boot \in 0..MaxChanges /\ changes \in 0..MaxChanges /\ boot <= changes
  BY <1>1, QueryAssumption
<1>4. pages \in Seq(Page) /\ Len(pages) <= MaxPages  BY <1>1, QueryAssumption
<1>5. TypeOK
  <2>1. DOMAIN store \subseteq Handle /\ \A h \in DOMAIN store : store[h] \in Payload  BY <1>2
  <2>2. past \in [Scopes -> SUBSET Contents]  BY <1>1
  <2> QED BY <1>1, <1>3, <1>4, <2>1, <2>2 DEF TypeOK
<1>6. CursorInv /\ ReqShape  BY <1>1 DEF CursorInv, ReqShape
<1> QED BY <1>3, <1>5, <1>6 DEF QInv

\* One step for each action.
LEMMA QInvStep == QInv /\ [Next]_vars => QInv'
<1> SUFFICES ASSUME QInv, [Next]_vars PROVE QInv'  OBVIOUS
<1>0. /\ vault \in [Scopes -> Contents] /\ past \in [Scopes -> SUBSET Contents]
      /\ tomb \subseteq Refs /\ allowed \subseteq Scopes
      /\ upset \subseteq Upsets /\ status \in {"open", "done", "error"}
      /\ changes \in 0..MaxChanges
  BY DEF QInv, TypeOK
<1>a. /\ \A f : EffectiveScopes(allowed, f) \subseteq Scopes
      /\ \A p : StickyScopes(p) \subseteq Scopes
  BY <1>0 DEF EffectiveScopes, StickyScopes
<1>b. \A x \in Int : [s \in Scopes |-> x] \in Offsets  BY DEF Offsets
<1>1. ASSUME NEW limit \in Limits, NEW f \in Filters, NEW start \in Starts,
             StartQuery(limit, f, start)
      PROVE  QInv'
  <2>1. /\ req = Idle /\ status = "open" /\ UNCHANGED <<others, store, cursor, pages>>
        /\ Len(pages) < MaxPages
    BY <1>1, QueryAssumption DEF StartQuery
  <2>2. CASE start > MaxListOffset
    <3>1. req' = Idle /\ status' = "error" /\ upset' = upset  BY <1>1, <2>1, <2>2 DEF StartQuery
    <3> QED BY <2>1, <3>1, QEnd
  <2>3. CASE ~(start > MaxListOffset)
    <3>1. /\ req' = NewRequest("query", limit, EffectiveScopes(allowed, f), [s \in Scopes |-> start])
          /\ upset' \subseteq {"hidden", "negative"} /\ status' = status
      BY <1>1, <2>3 DEF StartQuery
    <3>2. "query" \in Kinds /\ {"hidden", "negative"} \subseteq Upsets  BY DEF Kinds, Upsets
    <3>3. [s \in Scopes |-> start] \in Offsets  BY <1>b, QueryAssumption
    <3> QED BY <1>a, <2>1, <3>1, <3>2, <3>3, QStart
  <2> QED BY <2>2, <2>3
<1>2. ASSUME NEW k \in Kinds \ {"query"}, NEW limit \in Limits, NEW f \in Filters,
             StartSearch(k, limit, f)
      PROVE  QInv'
  <2>1. (IF k = "search" THEN limit ELSE PageLimit(limit)) \in Limits \cup {DefaultLimit}
    BY DEF PageLimit
  <2>2. 0 \in Int  OBVIOUS
  <2>3. [s \in Scopes |-> 0] \in Offsets  BY <1>b, <2>2
  <2> QED BY <1>0, <1>2, <1>a, <2>1, <2>3, QStart DEF StartSearch
<1>3. ASSUME NEW limit \in Limits, NextQuery(limit) PROVE QInv'
  <2>1. /\ status = "open" /\ cursor # NoCursor /\ Len(pages) < MaxPages /\ req = Idle
        /\ UNCHANGED <<others, store, cursor, pages, upset>>
    BY <1>3 DEF NextQuery
  <2>2. CASE status' = "error" /\ req' = req
    BY <2>1, <2>2, QEnd
  <2>3. ASSUME NEW p \in DecodeCursor(cursor), status' = status,
               req' = NewRequest("query", limit, StickyScopes(p), p.offsets)
        PROVE  QInv'
    <3>1. p \in Payload  BY <2>1, Decoded
    <3>2. p.offsets \in Offsets  BY <3>1 DEF Payload
    <3>3. "query" \in Kinds  BY DEF Kinds
    <3> QED BY <1>0, <1>a, <2>1, <2>3, <3>2, <3>3, QStart
  <2> QED BY <1>3, <2>2, <2>3 DEF NextQuery
<1>4. ASSUME NEW s \in Scopes, AnswerQuery(s) \/ AnswerSearch(s) PROVE QInv'  BY <1>4, QAnswer
<1>5. CASE Collect  BY <1>5, QCollect
<1>6. CASE Unavailable \/ Panic  BY <1>6, QEnd DEF Unavailable, Panic
<1>7. CASE MergeSearch  BY <1>7, QMerge
<1>8. ASSUME NEW s \in Scopes, Refused(s) PROVE QInv'
  <2>1. "failed" \in Outcome  BY DEF Outcome
  <2>2. changes' = changes /\ changes' <= MaxChanges  BY <1>0, <1>8, QueryAssumption DEF Refused
  <2> QED BY <1>8, <2>1, <2>2, QFailure DEF Refused
<1>9. ASSUME NEW s \in Scopes, NEW why \in Outcome \ {"ok"}, Fail(s, why) PROVE QInv'
  <2>1. changes' = changes + 1 /\ changes' <= MaxChanges  BY <1>0, <1>9, QueryAssumption DEF Fail
  <2> QED BY <1>9, <2>1, QFailure DEF Fail
<1>10. ASSUME NEW s \in Scopes, NEW p \in Ranks, OtherCreate(s, p) PROVE QInv'
  <2>1. Change(s, vault[s] \cup {p}) /\ tomb' \subseteq Refs
    BY <1>0, <1>10 DEF OtherCreate
  <2>2. vault[s] \cup {p} \in Contents
    <3>1. vault[s] \in Contents /\ \A q \in vault[s] : NameOf[q] # NameOf[p]
      BY <1>0, <1>10 DEF OtherCreate
    <3> QED BY <3>1 DEF Contents
  <2>3. upset' \subseteq Upsets  BY <1>0, <1>10 DEF OtherCreate, Upsets
  <2> QED BY <2>1, <2>2, <2>3, QChange
<1>11. ASSUME NEW s \in Scopes, NEW p \in Ranks, NEW q \in Ranks, OtherUpdate(s, p, q)
       PROVE  QInv'
  <2>1. Change(s, (vault[s] \ {p}) \cup {q}) /\ tomb' \subseteq Refs
    BY <1>0, <1>11 DEF OtherUpdate
  <2>2. (vault[s] \ {p}) \cup {q} \in Contents
    <3>1. vault[s] \in Contents /\ p \in vault[s] /\ NameOf[p] = NameOf[q]
      BY <1>0, <1>11 DEF OtherUpdate
    <3> QED BY <3>1 DEF Contents
  <2>3. upset' \subseteq Upsets  BY <1>0, <1>11 DEF OtherUpdate, Upsets
  <2> QED BY <2>1, <2>2, <2>3, QChange
<1>12. ASSUME NEW s \in Scopes, NEW p \in Ranks, OtherDelete(s, p) PROVE QInv'
  <2>1. Change(s, vault[s] \ {p})  BY <1>12 DEF OtherDelete
  <2>2. vault[s] \ {p} \in Contents
    <3>1. vault[s] \in Contents  BY <1>0
    <3> QED BY <3>1 DEF Contents
  <2>3. upset' \subseteq Upsets  BY <1>0, <1>12 DEF OtherDelete, Upsets
  <2>4. tomb' \subseteq Refs
    <3>1. <<s, p>> \in Row  BY DEF Row
    <3>2. RefOf(<<s, p>>) \in Refs  BY <3>1 DEF Refs
    <3> QED BY <1>0, <1>12, <3>2 DEF OtherDelete
  <2> QED BY <2>1, <2>2, <2>3, <2>4, QChange
<1>13. ASSUME NEW s \in Scopes, Revoke(s) PROVE QInv'
  <2>1. upset' \subseteq Upsets  BY <1>0, <1>13 DEF Revoke, Upsets
  <2> QED BY <1>0, <1>13, <2>1, QRest DEF Revoke, Meddle
<1>14. ASSUME NEW h \in Handle, ExpireHandle(h) PROVE QInv'
  BY <1>0, <1>14, QRest DEF ExpireHandle, others
<1>15. CASE Restart  BY <1>15, QRestart
<1>16. CASE UNCHANGED vars  BY <1>0, <1>16, QRest DEF vars, others
<1> QED BY <1>1, <1>2, <1>3, <1>4, <1>5, <1>6, <1>7, <1>8, <1>9, <1>10, <1>11, <1>12, <1>13,
           <1>14, <1>15, <1>16 DEF Next, Serve, Others

\* Every variable of the listing has its type: in particular a vault never holds two
\* ranks of one note, a cursor carries an offset for each scope, and a listing has no
\* more pages and handles than it may (newOffsets of Query, Encode and Decode of the
\* cursors).
THEOREM QueryTypeCorrect == Spec => []TypeOK
<1>1. QInv => TypeOK  BY DEF QInv
<1> QED BY QInvInit, QInvStep, <1>1, PTL DEF Spec

-----------------------------------------------------------------------------
(* Searches                                                                *)

\* A request for backlinks has everything its vaults offered; a search has the best
\* rows of what each scope offered, as many as the vault was asked for.
SearchInv ==
  req # Idle =>
    /\ req.kind = "backlinks" => req.rows = req.held
    /\ req.kind \in {"search", "hybrid", "semantic"} =>
         \A s \in Scopes :
           RowsOf(req.rows, s) = BelowRank(RowsOf(req.held, s), PageLimit(req.limit))
    /\ req.kind \in {"hybrid", "semantic"} => req.limit > 0

SInv == QInv /\ SearchInv /\ SearchBest

\* A row that is not among the best of its scope comes after as many rows of that
\* scope as the page takes.
LEMMA LeftOut ==
  ASSUME NEW rows \in SUBSET Row, NEW held \in SUBSET Row, NEW limit \in Nat,
         \A s \in Scopes : RowsOf(rows, s) = BelowRank(RowsOf(held, s), limit),
         NEW b \in held \ rows
  PROVE  LET S == {r \in rows : r[1] = b[1]}
         IN IsFiniteSet(S) /\ Cardinality(S) = limit /\ \A r \in S : r[2] < b[2]
<1> DEFINE s == b[1]
           q == b[2]
           H == RowsOf(held, s)
           N == RowsOf(rows, s)
<1>0. s \in Scopes /\ q \in Ranks /\ b = <<s, q>>  BY DEF Row
<1>1. s \in Scopes /\ q \in Ranks /\ b = <<s, q>> /\ q \in Nat  BY <1>0, QueryAssumption
<1>2. q \in H /\ q \notin N  BY <1>1 DEF RowsOf
<1>3. /\ H \in SUBSET Nat /\ IsFiniteSet(H) /\ Cardinality(H) \in Nat
      /\ IsFiniteSet({r \in rows : r[1] = s}) /\ Cardinality({r \in rows : r[1] = s}) = Cardinality(N)
  BY <1>1, RowsCount
<1>4. N = BelowRank(H, limit)  BY <1>1
<1> HIDE DEF H, N
<1>5. ~(RankIn(q, H) < limit)  BY <1>2, <1>4 DEF BelowRank
<1>6. ~(limit >= Cardinality(H))  BY <1>2, <1>3, <1>4, RankCounts
<1>7. Cardinality(N) = limit
  <2>1. limit <= Cardinality(H)  BY <1>3, <1>6
  <2> QED BY <1>3, <1>4, <2>1, RankCounts
<1>8. ASSUME NEW x \in N PROVE x < q
  <2>1. x \in H /\ x \in Nat /\ RankIn(x, H) < limit  BY <1>3, <1>4 DEF BelowRank
  <2>2. RankIn(x, H) \in Nat /\ RankIn(q, H) \in Nat  BY <1>1, <1>3, <2>1, RankType
  <2>3. q <= x => RankIn(q, H) <= RankIn(x, H)  BY <1>1, <1>3, <2>1, RankGrows
  <2> QED BY <1>1, <1>5, <2>1, <2>2, <2>3
<1>9. \A r \in rows : r[1] = s => r[2] \in N  BY DEF RowsOf, Row, N
<1> QED BY <1>3, <1>7, <1>8, <1>9

\* The best rows of all the scopes are among the best rows of each.
LEMMA BestOfBest ==
  ASSUME NEW rows \in SUBSET Row, NEW held \in SUBSET Row, NEW limit \in Nat,
         \A s \in Scopes : RowsOf(rows, s) = BelowRank(RowsOf(held, s), limit),
         NEW t \in TopRows(rows, limit)
  PROVE  t \in TopRows(held, limit)
<1>1. rows \subseteq held
  <2> SUFFICES ASSUME NEW r \in rows PROVE r \in held  OBVIOUS
  <2>1. r = <<r[1], r[2]>> /\ r[1] \in Scopes /\ r[2] \in Ranks  BY DEF Row
  <2>2. r[2] \in RowsOf(rows, r[1])  BY <2>1 DEF RowsOf
  <2>3. r[2] \in RowsOf(held, r[1])  BY <2>1, <2>2 DEF BelowRank
  <2> QED BY <2>1, <2>3 DEF RowsOf
<1>2. /\ t \in SUBSET rows /\ Cardinality(t) \in Nat /\ Cardinality(t) <= limit
      /\ Cardinality(rows) <= limit => t = rows
      /\ Cardinality(rows) >= limit => Cardinality(t) = limit
      /\ \A a \in t, b \in rows \ t : a[2] <= b[2]
  BY TopRowsFacts
<1>3. /\ IsFiniteSet(rows) /\ Cardinality(rows) \in Nat
      /\ IsFiniteSet(held) /\ Cardinality(held) \in Nat
  BY RowsFinite
<1>4. ASSUME rows # held PROVE Cardinality(rows) >= limit /\ Cardinality(held) >= limit
  <2>1. PICK b \in held : b \notin rows  BY <1>1, <1>4
  <2> DEFINE S == {r \in rows : r[1] = b[1]}
  <2>2. IsFiniteSet(S) /\ Cardinality(S) = limit /\ \A r \in S : r[2] < b[2]
    BY <2>1, LeftOut
  <2>3. Cardinality(S) <= Cardinality(rows)  BY <1>3, FS_Subset
  <2> HIDE DEF S
  <2>4. Cardinality(rows) <= Cardinality(held)  BY <1>1, <1>3, FS_Subset
  <2> QED BY <1>3, <2>2, <2>3, <2>4
<1>5. Cardinality(t) = Min({limit, Cardinality(held)})
  <2>1. Min({limit, Cardinality(held)}) = IF limit <= Cardinality(held) THEN limit ELSE Cardinality(held)
    BY <1>3, MinOfTwo
  <2>2. CASE rows = held
    <3>1. Cardinality(t) = IF limit <= Cardinality(rows) THEN limit ELSE Cardinality(rows)
      BY <1>2, <1>3
    <3> QED BY <2>1, <2>2, <3>1
  <2>3. CASE rows # held
    <3>1. Cardinality(t) = limit  BY <1>2, <1>4, <2>3
    <3>2. limit <= Cardinality(held)  BY <1>3, <1>4, <2>3
    <3> QED BY <2>1, <3>1, <3>2
  <2> QED BY <2>2, <2>3
<1>6. ASSUME NEW a \in t, NEW b \in held \ t PROVE a[2] <= b[2]
  <2>1. CASE b \in rows  BY <1>2, <1>6, <2>1
  <2>2. CASE b \notin rows
    <3> DEFINE S == {r \in rows : r[1] = b[1]}
    <3>1. IsFiniteSet(S) /\ Cardinality(S) = limit /\ \A r \in S : r[2] < b[2]
      BY <2>2, LeftOut
    <3>2. a[2] \in Nat /\ b[2] \in Nat /\ \A r \in rows : r[2] \in Nat
      BY <1>1, <1>2, QueryAssumption DEF Row
    <3> SUFFICES ASSUME ~(a[2] <= b[2]) PROVE FALSE  OBVIOUS
    <3>3. b[2] < a[2]  BY <3>2
    <3>4. \A r \in S : r \in t
      <4>1. \A r \in S : ~(a[2] <= r[2])  BY <3>1, <3>2, <3>3
      <4> QED BY <1>2, <4>1
    <3>5. a \notin S
      <4>1. ~(a[2] < b[2])  BY <3>2, <3>3
      <4> QED BY <3>1, <4>1
    <3> HIDE DEF S
    <3>6. Cardinality(S \cup {a}) = limit + 1  BY <3>1, <3>5, FS_AddElement
    <3>7. Cardinality(S \cup {a}) <= Cardinality(t)
      <4>1. IsFiniteSet(t)  BY <1>2, <1>3, FS_Subset
      <4>2. S \cup {a} \in SUBSET t  BY <3>4
      <4> QED BY <4>1, <4>2, FS_Subset
    <3> QED BY <1>2, <3>6, <3>7
  <2> QED BY <2>1, <2>2
<1> QED BY <1>1, <1>2, <1>5, <1>6 DEF TopRows

\* A limit of zero shows nothing, whatever was offered.
LEMMA BestOfNone ==
  ASSUME NEW rows \in SUBSET Row, NEW held \in SUBSET Row, NEW t \in TopRows(rows, 0)
  PROVE  t \in TopRows(held, 0)
<1>1. IsFiniteSet(t) /\ Cardinality(t) \in Nat
  <2>1. t \in SUBSET Row  BY DEF TopRows
  <2> QED BY <2>1, RowsFinite
<1>2. Cardinality(t) <= 0
  <2> DEFINE zero == 0
  <2>1. zero \in Nat /\ t \in TopRows(rows, zero)  OBVIOUS
  <2> HIDE DEF zero
  <2>2. Cardinality(t) <= zero  BY <2>1, TopRowsFacts
  <2> QED BY <2>2 DEF zero
<1>3. t = {}
  <2>1. Cardinality(t) = 0  BY <1>1, <1>2
  <2> QED BY <1>1, <2>1, FS_EmptySet
<1>4. Cardinality(held) \in Nat /\ Cardinality({}) = 0  BY RowsFinite, FS_EmptySet
<1>5. Min({0, Cardinality(held)}) = 0  BY <1>4, MinOfTwo
<1> QED BY <1>3, <1>4, <1>5 DEF TopRows

\* A request that begins has nothing yet.
LEMMA SStart ==
  ASSUME NEW kind, NEW limit, NEW scopes, NEW offsets, status' = "open",
         kind \in {"hybrid", "semantic"} => limit > 0,
         req' = NewRequest(kind, limit, scopes, offsets)
  PROVE  SearchInv' /\ SearchBest'
<1>1. req'.rows = {} /\ req'.held = {} /\ req'.kind = kind /\ req'.limit = limit
  BY DEF NewRequest
<1>2. \A s : RowsOf({}, s) = {}  BY DEF RowsOf
<1>3. \A k : BelowRank({}, k) = {}  BY DEF BelowRank
<1> QED BY <1>1, <1>2, <1>3 DEF SearchInv, SearchBest

\* Steps that leave the request and the answer alone, or end the request.
LEMMA SRest ==
  ASSUME SInv, req' = Idle \/ (req' = req /\ UNCHANGED <<pages, status>>)
  PROVE  SearchInv' /\ SearchBest'
BY DEF SInv, SearchInv, SearchBest

\* An answer to a listing is no matter of the searches.
LEMMA SAnswerQuery ==
  ASSUME SInv, NEW s \in Scopes, AnswerQuery(s)
  PROVE  SearchInv' /\ SearchBest'
<1>1. QInv /\ req.kind = "query"  BY DEF SInv, AnswerQuery
<1>2. PICK rows \in SUBSET Ranks, hits \in SUBSET Ranks : Reply(s, rows, hits)
  BY <1>1, AnswerReplies
<1>3. req'.kind = "query" /\ status' = status /\ req # Idle
  BY <1>1, <1>2, ReplyEffect DEF Reply
<1>4. status = "open"  BY <1>1, <1>3 DEF QInv, ReqShape
<1> QED BY <1>3, <1>4 DEF SearchInv, SearchBest

\* An answer brings the best rows of what the indexes offered, or all of them.
LEMMA SAnswerSearch ==
  ASSUME SInv, NEW s \in Scopes, AnswerSearch(s)
  PROVE  SearchInv' /\ SearchBest'
<1>1. QInv /\ SearchInv  BY DEF SInv
<1>2. req # Idle /\ req.kind # "query"  BY DEF AnswerSearch
<1>3. PICK hits \in Offers(req.kind, vault[s], PageLimit(AskedLimit(req))) :
        Reply(s, IF req.kind = "backlinks" THEN hits
                 ELSE VaultSearch(hits, PageLimit(AskedLimit(req))), hits)
  BY DEF AnswerSearch
<1> DEFINE rows == IF req.kind = "backlinks" THEN hits
                   ELSE VaultSearch(hits, PageLimit(AskedLimit(req)))
<1>4. hits \in SUBSET Ranks /\ rows \in SUBSET Ranks
  <2>1. hits \subseteq vault[s] /\ vault[s] \subseteq Ranks  BY <1>1, QTypes, OfferedNotes
  <2> QED BY <2>1 DEF VaultSearch
<1>5. rows = IF req.kind = "backlinks" THEN hits ELSE BelowRank(hits, PageLimit(req.limit))
  BY <1>2 DEF AskedLimit, VaultSearch, BelowRank
<1> HIDE DEF rows
<1>6. Reply(s, rows, hits)  BY <1>3 DEF rows
<1>7. UNCHANGED <<pages, status>>  BY <1>6 DEF Reply
<1>8. status = "open"
  <2>1. s \in req.scopes /\ s \notin req.asked  BY <1>1, <1>4, <1>6, ReplyEffect
  <2> QED BY <1>1, <1>2, <2>1 DEF QInv, ReqShape
<1>9. SearchBest'  BY <1>7, <1>8 DEF SearchBest
<1>10. /\ req'.kind = req.kind /\ req'.limit = req.limit
       /\ req'.rows = req.rows \cup ({s} \X rows) /\ req'.held = req.held \cup ({s} \X hits)
  BY <1>1, <1>4, <1>6, ReplyEffect
<1>11. /\ RowsOf(req'.rows, s) = rows /\ RowsOf(req'.held, s) = hits
       /\ \A x : x # s => /\ RowsOf(req'.rows, x) = RowsOf(req.rows, x)
                          /\ RowsOf(req'.held, x) = RowsOf(req.held, x)
  BY <1>1, <1>4, <1>6, ReplyRows
<1>12. ASSUME req.kind = "backlinks" PROVE req'.rows = req'.held
  BY <1>1, <1>2, <1>5, <1>10, <1>12 DEF SearchInv
<1>13. ASSUME req.kind \in {"search", "hybrid", "semantic"}, NEW x \in Scopes
       PROVE  RowsOf(req'.rows, x) = BelowRank(RowsOf(req'.held, x), PageLimit(req.limit))
  <2>1. CASE x # s  BY <1>1, <1>2, <1>11, <1>13, <2>1 DEF SearchInv
  <2>2. CASE x = s  BY <1>5, <1>11, <1>13, <2>2
  <2> QED BY <2>1, <2>2
<1>14. req.kind \in {"hybrid", "semantic"} => req.limit > 0  BY <1>1, <1>2 DEF SearchInv
<1>15. SearchInv'  BY <1>10, <1>12, <1>13, <1>14 DEF SearchInv
<1> QED BY <1>9, <1>15

\* A failure brings nothing.
LEMMA SFailure ==
  ASSUME SInv, NEW s \in Scopes, NEW why \in Outcome, Failure(s, why)
  PROVE  SearchInv' /\ SearchBest'
<1>1. QInv /\ SearchInv  BY DEF SInv
<1>2. req # Idle /\ UNCHANGED <<pages, status>>  BY DEF Failure
<1>3. status = "open"
  <2>1. s \in req.scopes /\ s \notin req.asked  BY <1>1, FailureEffect
  <2> QED BY <1>1, <1>2, <2>1 DEF QInv, ReqShape
<1>4. SearchBest'  BY <1>2, <1>3 DEF SearchBest
<1>5. SearchInv'  BY <1>1, <1>2, FailureEffect DEF SearchInv
<1> QED BY <1>4, <1>5

\* The merge takes the best rows of what was offered.
LEMMA SMerge ==
  ASSUME SInv, MergeSearch
  PROVE  SearchInv' /\ SearchBest'
<1>1. QInv /\ SearchInv  BY DEF SInv
<1>2. /\ req # Idle /\ req.kind # "query" /\ req' = req
      /\ req.kind = "search" => req.limit >= 0
  BY DEF MergeSearch, Answered
<1>3. SearchInv'  BY <1>1, <1>2 DEF SearchInv
<1>4. req \in Request  BY <1>1, <1>2, QTypes
<1>5. /\ req.rows \in SUBSET Row /\ req.held \in SUBSET Row
      /\ req.kind \in {"backlinks", "search", "hybrid", "semantic"}
      /\ req.limit \in Limits \cup {DefaultLimit}
  BY <1>2, <1>4 DEF Request, Kinds
<1>6. req.limit \in Int  BY <1>5, LimitType
<1>7. PICK found \in IF req.kind = "backlinks" THEN {AllBacklinks(req)} ELSE BestMatches(req) :
        pages' = <<PageOf(found)>>
  BY DEF MergeSearch
<1>8. pages'[1].rows = found  BY <1>7 DEF PageOf
<1>9. CASE req.kind = "backlinks"
  <2>1. found = req.held  BY <1>1, <1>2, <1>7, <1>9 DEF AllBacklinks, SearchInv
  <2> QED BY <1>2, <1>8, <1>9, <1>3, <2>1 DEF SearchBest
<1>10. CASE req.kind # "backlinks"
  <2>1. found \in TopRows(req.rows, req.limit)  BY <1>7, <1>10 DEF BestMatches
  <2>2. /\ \A s \in Scopes :
             RowsOf(req.rows, s) = BelowRank(RowsOf(req.held, s), PageLimit(req.limit))
        /\ req.limit >= 0
    <3>1. req.kind \in {"hybrid", "semantic"} => req.limit > 0
      BY <1>1, <1>2 DEF SearchInv
    <3> QED BY <1>1, <1>2, <1>5, <1>6, <1>10, <3>1 DEF SearchInv
  <2>3. found \in TopRows(req.held, req.limit)
    <3>1. CASE req.limit = 0  BY <1>5, <2>1, <3>1, BestOfNone
    <3>2. CASE req.limit > 0
      <4>1. PageLimit(req.limit) = req.limit /\ req.limit \in Nat  BY <1>6, <3>2, MostType
      <4>2. \A s \in Scopes : RowsOf(req.rows, s) = BelowRank(RowsOf(req.held, s), req.limit)
        BY <2>2, <4>1
      <4> QED BY <1>5, <2>1, <4>1, <4>2, BestOfBest
    <3> QED BY <1>6, <2>2, <3>1, <3>2
  <2> QED BY <1>2, <1>3, <1>8, <1>10, <2>3 DEF SearchBest
<1> QED BY <1>3, <1>9, <1>10

\* Every step keeps what the search has and shows.
LEMMA SInvStep == SInv /\ [Next]_vars => SInv'
<1> SUFFICES ASSUME SInv, [Next]_vars PROVE SearchInv' /\ SearchBest'
  BY QInvStep DEF SInv
<1>1. ASSUME NEW limit \in Limits, NEW f \in Filters, NEW start \in Starts,
             StartQuery(limit, f, start)
      PROVE  SearchInv' /\ SearchBest'
  <2>1. req = Idle /\ status = "open"  BY <1>1 DEF StartQuery
  <2>2. CASE req' = req  BY <2>1, <2>2, SRest
  <2>3. CASE /\ status' = status
             /\ req' = NewRequest("query", limit, EffectiveScopes(allowed, f),
                                  [s \in Scopes |-> start])
    BY <2>1, <2>3, SStart
  <2> QED BY <1>1, <2>2, <2>3 DEF StartQuery
<1>2. ASSUME NEW k \in Kinds \ {"query"}, NEW limit \in Limits, NEW f \in Filters,
             StartSearch(k, limit, f)
      PROVE  SearchInv' /\ SearchBest'
  <2> DEFINE l == IF k = "search" THEN limit ELSE PageLimit(limit)
             scopes == EffectiveScopes(allowed, f)
             offsets == [s \in Scopes |-> 0]
  <2>1. status' = "open" /\ req' = NewRequest(k, l, scopes, offsets)
    BY <1>2 DEF StartSearch
  <2>2. k \in {"hybrid", "semantic"} => l > 0
    <3>1. limit \in Int  BY LimitType
    <3>2. PageLimit(limit) > 0  BY <3>1, QueryAssumption DEF PageLimit
    <3> QED BY <3>2
  <2> HIDE DEF l, scopes, offsets
  <2> QED BY <2>1, <2>2, SStart
<1>3. ASSUME NEW limit \in Limits, NextQuery(limit) PROVE SearchInv' /\ SearchBest'
  <2>1. status = "open" /\ req = Idle  BY <1>3 DEF NextQuery
  <2>2. CASE req' = req  BY <2>1, <2>2, SRest
  <2>3. ASSUME NEW p, status' = status,
               req' = NewRequest("query", limit, StickyScopes(p), p.offsets)
        PROVE  SearchInv' /\ SearchBest'
    BY <2>1, <2>3, SStart
  <2> QED BY <1>3, <2>2, <2>3 DEF NextQuery
<1>4. ASSUME NEW s \in Scopes, AnswerQuery(s) \/ AnswerSearch(s) PROVE SearchInv' /\ SearchBest'
  BY <1>4, SAnswerQuery, SAnswerSearch
<1>5. CASE Collect  BY <1>5, SRest DEF Collect
<1>6. CASE Unavailable \/ Panic  BY <1>6, SRest DEF Unavailable, Panic
<1>7. CASE MergeSearch  BY <1>7, SMerge
<1>8. ASSUME NEW s \in Scopes, Refused(s) PROVE SearchInv' /\ SearchBest'
  BY <1>8, SFailure DEF Refused, Outcome
<1>9. ASSUME NEW s \in Scopes, NEW why \in Outcome, Fail(s, why) PROVE SearchInv' /\ SearchBest'
  BY <1>9, SFailure DEF Fail
<1>10. ASSUME NEW s, NEW notes, Change(s, notes) PROVE SearchInv' /\ SearchBest'
  BY <1>10, SRest DEF Change
<1>11. ASSUME NEW s \in Scopes, NEW p \in Ranks, NEW q \in Ranks,
              OtherCreate(s, p) \/ OtherUpdate(s, p, q) \/ OtherDelete(s, p)
       PROVE  SearchInv' /\ SearchBest'
  BY <1>10, <1>11 DEF OtherCreate, OtherUpdate, OtherDelete
<1>12. ASSUME NEW s \in Scopes, Revoke(s) PROVE SearchInv' /\ SearchBest'
  BY <1>12, SRest DEF Revoke
<1>13. ASSUME NEW h \in Handle, ExpireHandle(h) PROVE SearchInv' /\ SearchBest'
  BY <1>13, SRest DEF ExpireHandle
<1>14. CASE Restart  BY <1>14, SRest DEF Restart
<1>15. CASE UNCHANGED vars  BY <1>15, SRest DEF vars
<1> QED BY <1>1, <1>2, <1>3, <1>4, <1>5, <1>6, <1>7, <1>8, <1>9, <1>11, <1>12, <1>13,
           <1>14, <1>15 DEF Next, Serve, Others

\* A search that succeeds returns the best rows of all that the indexes of the scopes
\* that answered offered it together, although each of them was asked for its own best
\* rows only: nothing that was left out of a vault's answer belongs on the page (the
\* merges of Search, HybridSearch and SemanticSearch).  Which hits an index offers is
\* its own matter: the theorem holds for whatever they are.
THEOREM SearchIsBest == Spec => []SearchBest
<1>1. Init => SInv
  <2>1. Init => SearchInv /\ SearchBest  BY DEF Init, SearchInv, SearchBest
  <2> QED BY <2>1, QInvInit DEF SInv
<1>2. SInv => SearchBest  BY DEF SInv
<1> QED BY <1>1, <1>2, SInvStep, PTL DEF Spec

-----------------------------------------------------------------------------
(* No row twice                                                            *)

\* Nothing that shifts the ranks of the rows to come has happened.
Clean == upset \cap {"created", "updated", "hidden", "stale", "negative"} = {}

\* No row is on two pages.
Apart ==
  \A i, j \in DOMAIN pages : i # j => pages[i].rows \cap pages[j].rows = {}

\* A note has one rank among these rows.
OneRank(rows) == \A a, b \in rows : RefOf(a) = RefOf(b) => a = b

\* The rows received, gathered and listed.
Known == Received \cup Listed \cup (IF req = Idle THEN {} ELSE req.rows)

\* Offsets that a vault takes as they are.
FromZero(offsets) == \A s \in Scopes : offsets[s] \in Nat

\* The rows received from these scopes are before the offsets.
Passed(scopes, offsets) ==
  \A r \in Received : r[1] \in scopes => RankIn(r[2], vault[r[1]]) < offsets[r[1]]

\* The rows a listing has are new, and no further from the offset of their scope
\* than the rows of that scope before them.
Fresh ==
  /\ req.rows \cap Received = {}
  /\ \A r \in req.rows :
       RankIn(r[2], vault[r[1]])
         <= req.offsets[r[1]] + RankIn(r[2], RowsOf(req.rows, r[1]))

\* Where the cursor of the last page stands.
CursorPassed ==
  cursor # NoCursor =>
    FromZero(cursor.data.offsets) /\ Passed(cursor.data.scopes, cursor.data.offsets)

\* Where the request being served stands.
RequestPassed ==
  Serving => FromZero(req.offsets) /\ Passed(req.scopes, req.offsets) /\ Fresh

RepeatInv ==
  Clean => Apart /\ OneRank(Known) /\ CursorPassed /\ RequestPassed

RInv == QInv /\ RepeatInv

\* Rows of one rank for each note, on pages that share no row, repeat no note.
LEMMA ApartRepeatFree ==
  ASSUME Apart, OneRank(Known)
  PROVE  RepeatFree
<1> SUFFICES ASSUME NEW i \in DOMAIN pages, NEW j \in DOMAIN pages,
                    NEW a \in pages[i].rows, NEW b \in pages[j].rows, RefOf(a) = RefOf(b)
             PROVE  i = j /\ a = b
  BY DEF RepeatFree
<1>1. a \in Known /\ b \in Known  BY DEF Known, Received
<1>2. a = b  BY <1>1 DEF OneRank
<1> QED BY <1>2 DEF Apart

\* What was received are rows.
LEMMA ReceivedRows == ASSUME QInv PROVE Received \subseteq Row
<1>1. pages \in Seq(Page)  BY QTypes
<1>2. \A i \in DOMAIN pages : pages[i] \in Page  BY <1>1
<1>3. \A i \in DOMAIN pages : pages[i].rows \in SUBSET Row  BY <1>2 DEF Page
<1> QED BY <1>3 DEF Received

\* A page more, and no page at all.
LEMMA ReceivedAppend ==
  ASSUME NEW g \in Page, pages \in Seq(Page), pages' = Append(pages, g)
  PROVE  /\ Received' = Received \cup g.rows
         /\ Apart /\ g.rows \cap Received = {} => Apart'
<1>1. /\ Len(pages) \in Nat /\ DOMAIN pages = 1..Len(pages)
      /\ DOMAIN pages' = 1..(Len(pages) + 1)
      /\ \A i \in 1..Len(pages) : pages'[i] = pages[i]
      /\ pages'[Len(pages) + 1] = g
  OBVIOUS
<1> DEFINE n == Len(pages)
<1> HIDE DEF n
<1>2. \A i \in DOMAIN pages' : (i \in DOMAIN pages /\ pages'[i] = pages[i]) \/ (i = n + 1 /\ pages'[i] = g)
  BY <1>1 DEF n
<1>3. \A i \in DOMAIN pages : i \in DOMAIN pages' /\ pages'[i] = pages[i]  BY <1>1
<1>4. n + 1 \in DOMAIN pages' /\ pages'[n + 1] = g /\ n + 1 \notin DOMAIN pages  BY <1>1 DEF n
<1>5. Received' \subseteq Received \cup g.rows  BY <1>2 DEF Received
<1>6. Received \cup g.rows \subseteq Received'
  <2>1. Received \subseteq Received'  BY <1>3 DEF Received
  <2>2. g.rows \subseteq Received'  BY <1>4 DEF Received
  <2> QED BY <2>1, <2>2
<1>7. ASSUME Apart, g.rows \cap Received = {},
             NEW i \in DOMAIN pages', NEW j \in DOMAIN pages', i # j
      PROVE  pages'[i].rows \cap pages'[j].rows = {}
  <2>1. \A k \in DOMAIN pages : pages[k].rows \cap g.rows = {}  BY <1>7 DEF Received
  <2>2. CASE i \in DOMAIN pages /\ j \in DOMAIN pages  BY <1>3, <1>7, <2>2 DEF Apart
  <2>3. CASE i \in DOMAIN pages /\ j = n + 1  BY <1>3, <1>4, <2>1, <2>3
  <2>4. CASE i = n + 1 /\ j \in DOMAIN pages  BY <1>3, <1>4, <2>1, <2>4
  <2> QED BY <1>2, <1>7, <2>2, <2>3, <2>4
<1> QED BY <1>5, <1>6, <1>7 DEF Apart

\* What the merge of a listing adds to the rows received.
LEMMA CollectedRows ==
  ASSUME QInv, NEW page, Collected(page)
  PROVE  /\ Received' = Received \cup page
         /\ Apart /\ page \cap Received = {} => Apart'
<1>1. CASE HasMore /\ req.limit = 0
  <2>1. pages' = pages /\ page = {}  BY <1>1 DEF Collected
  <2> QED BY <2>1 DEF Received, Apart
<1>2. CASE ~(HasMore /\ req.limit = 0)
  <2>1. pages' = Append(pages, PageOf(page)) /\ PageOf(page) \in Page  BY <1>2 DEF Collected
  <2>2. PageOf(page).rows = page  BY DEF PageOf
  <2>3. pages \in Seq(Page)  BY QTypes
  <2> QED BY <2>1, <2>2, <2>3, ReceivedAppend
<1> QED BY <1>1, <1>2

\* Without a page nothing was received.
LEMMA ReceivedNone ==
  ASSUME pages = <<>>
  PROVE  Received = {} /\ Apart
BY DEF Received, Apart

\* The ranks of what a scope lists, and the offsets of a payload, are numbers.
LEMMA RankNumbers ==
  ASSUME vault \in [Scopes -> SUBSET Ranks], NEW r \in Row
  PROVE  /\ r[1] \in Scopes /\ r[2] \in Ranks /\ r[2] \in Nat
         /\ vault[r[1]] \in SUBSET Nat /\ IsFiniteSet(vault[r[1]])
         /\ RankIn(r[2], vault[r[1]]) \in Nat
<1>1. r[1] \in Scopes /\ r[2] \in Ranks  BY DEF Row
<1>2. r[2] \in Nat  BY <1>1, QueryAssumption
<1>3. vault[r[1]] \in SUBSET Ranks  BY <1>1
<1>4. vault[r[1]] \in SUBSET Nat /\ IsFiniteSet(vault[r[1]])  BY <1>3, NotesFinite
<1>5. RankIn(r[2], vault[r[1]]) \in Nat  BY <1>2, <1>4, RankType
<1> QED BY <1>1, <1>2, <1>4, <1>5

\* Steps that add no note, no row and no page: what was passed stays passed.
LEMMA RShrink ==
  ASSUME RInv, UNCHANGED <<pages, cursor>>, upset \subseteq upset',
         vault' \in [Scopes -> SUBSET Ranks], \A s \in Scopes : vault'[s] \subseteq vault[s],
         \/ req' = Idle
         \/ req # Idle /\ req'.kind = req.kind /\ req'.scopes = req.scopes
            /\ req'.offsets = req.offsets /\ req'.rows = req.rows
  PROVE  RepeatInv'
<1> SUFFICES ASSUME Clean'
             PROVE  Apart' /\ OneRank(Known)' /\ CursorPassed' /\ RequestPassed'
  BY DEF RepeatInv
<1>1. Clean  BY DEF Clean
<1>2. QInv /\ vault \in [Scopes -> SUBSET Ranks]  BY QTypes DEF RInv
<1>3. Received' = Received /\ Received \subseteq Row  BY <1>2, ReceivedRows DEF Received
<1>4. ASSUME NEW r \in Row
      PROVE  /\ RankIn(r[2], vault'[r[1]]) \in Nat /\ RankIn(r[2], vault[r[1]]) \in Nat
             /\ RankIn(r[2], vault'[r[1]]) <= RankIn(r[2], vault[r[1]])
  <2>1. /\ r[1] \in Scopes /\ r[2] \in Nat /\ vault[r[1]] \in SUBSET Nat
        /\ IsFiniteSet(vault[r[1]]) /\ RankIn(r[2], vault[r[1]]) \in Nat
    BY <1>2, RankNumbers
  <2>2. vault'[r[1]] \in SUBSET vault[r[1]]  BY <2>1
  <2>3. RankIn(r[2], vault'[r[1]]) <= RankIn(r[2], vault[r[1]])  BY <2>1, <2>2, RankShrinks
  <2>4. vault'[r[1]] \in SUBSET Nat /\ IsFiniteSet(vault'[r[1]])  BY <2>1, <2>2, FS_Subset
  <2>5. RankIn(r[2], vault'[r[1]]) \in Nat  BY <2>1, <2>4, RankType
  <2> QED BY <2>1, <2>3, <2>5
<1>5. ASSUME NEW scopes, NEW offsets, FromZero(offsets), Passed(scopes, offsets)
      PROVE  \A r \in Received' : r[1] \in scopes => RankIn(r[2], vault'[r[1]]) < offsets[r[1]]
  <2> SUFFICES ASSUME NEW r \in Received, r[1] \in scopes
               PROVE  RankIn(r[2], vault'[r[1]]) < offsets[r[1]]
    BY <1>3
  <2>1. RankIn(r[2], vault[r[1]]) < offsets[r[1]]  BY <1>5 DEF Passed
  <2>2. r \in Row /\ r[1] \in Scopes  BY <1>2, <1>3, RankNumbers
  <2>3. offsets[r[1]] \in Nat  BY <1>5, <2>2 DEF FromZero
  <2> QED BY <1>4, <2>1, <2>2, <2>3
<1>6. Apart'  BY <1>1 DEF RInv, RepeatInv, Apart
<1>7. OneRank(Known)'
  <2>1. Listed' \subseteq Listed
    <3>1. \A r \in Row : r[1] \in Scopes  BY DEF Row
    <3> QED BY <3>1 DEF Listed
  <2>2. Known' \subseteq Known  BY <1>3, <2>1 DEF Known
  <2> QED BY <1>1, <2>2 DEF RInv, RepeatInv, OneRank
<1>8. CursorPassed'
  <2> SUFFICES ASSUME cursor # NoCursor
               PROVE  FromZero(cursor.data.offsets)' /\ Passed(cursor.data.scopes, cursor.data.offsets)'
    BY DEF CursorPassed
  <2>1. FromZero(cursor.data.offsets) /\ Passed(cursor.data.scopes, cursor.data.offsets)
    BY <1>1 DEF RInv, RepeatInv, CursorPassed
  <2>2. Passed(cursor.data.scopes, cursor.data.offsets)'  BY <1>5, <2>1 DEF Passed
  <2> QED BY <2>1, <2>2 DEF FromZero
<1>9. RequestPassed'
  <2> SUFFICES ASSUME Serving'
               PROVE  FromZero(req.offsets)' /\ Passed(req.scopes, req.offsets)' /\ Fresh'
    BY DEF RequestPassed
  <2>1. /\ Serving /\ req'.scopes = req.scopes /\ req'.offsets = req.offsets
        /\ req'.rows = req.rows
    BY DEF Serving
  <2>2. req \in Request  BY <1>2, <2>1, QTypes DEF Serving
  <2>3. req.rows \in SUBSET Row  BY <2>2 DEF Request
  <2>4. FromZero(req.offsets) /\ Passed(req.scopes, req.offsets) /\ Fresh
    BY <1>1, <2>1 DEF RInv, RepeatInv, RequestPassed
  <2>5. Passed(req.scopes, req.offsets)'  BY <1>5, <2>1, <2>4 DEF Passed
  <2>6. ASSUME NEW r \in req.rows
        PROVE  RankIn(r[2], vault'[r[1]]) <= req.offsets[r[1]] + RankIn(r[2], RowsOf(req.rows, r[1]))
    <3>1. r \in Row /\ r[1] \in Scopes /\ r[2] \in Nat  BY <1>2, <2>3, RankNumbers
    <3>2. req.offsets[r[1]] \in Nat  BY <2>4, <3>1 DEF FromZero
    <3>3. RankIn(r[2], RowsOf(req.rows, r[1])) \in Nat  BY <2>3, <3>1, RowsCount, RankType
    <3>4. RankIn(r[2], vault[r[1]]) <= req.offsets[r[1]] + RankIn(r[2], RowsOf(req.rows, r[1]))
      BY <2>4 DEF Fresh
    <3> QED BY <1>4, <3>1, <3>2, <3>3, <3>4
  <2>7. Fresh'  BY <1>3, <2>1, <2>4, <2>6 DEF Fresh
  <2>8. FromZero(req.offsets)'  BY <2>1, <2>4 DEF FromZero
  <2> QED BY <2>5, <2>7, <2>8
<1> QED BY <1>6, <1>7, <1>8, <1>9

\* A request that begins has no rows; its offsets are passed when they are those of
\* the cursor, or when nothing was received.
LEMMA RStart ==
  ASSUME UNCHANGED <<vault, cursor, pages>>,
         NEW kind, NEW limit, NEW scopes, NEW offsets,
         req' = NewRequest(kind, limit, scopes, offsets),
         Clean' => Apart /\ OneRank(Received \cup Listed) /\ CursorPassed,
         Clean' /\ kind = "query" => FromZero(offsets) /\ Passed(scopes, offsets)
  PROVE  RepeatInv'
<1> SUFFICES ASSUME Clean'
             PROVE  Apart' /\ OneRank(Known)' /\ CursorPassed' /\ RequestPassed'
  BY DEF RepeatInv
<1>1. /\ req'.kind = kind /\ req'.scopes = scopes /\ req'.offsets = offsets
      /\ req'.rows = {}
  BY DEF NewRequest
<1>2. Received' = Received /\ Listed' = Listed  BY DEF Received, Listed
<1>3. Apart'  BY DEF Apart
<1>4. OneRank(Known)'
  <2>1. Known' \subseteq Received \cup Listed  BY <1>1, <1>2 DEF Known
  <2> QED BY <2>1 DEF OneRank
<1>5. CursorPassed'  BY <1>2 DEF CursorPassed, Passed, FromZero
<1>6. RequestPassed'
  <2> SUFFICES ASSUME Serving'
               PROVE  FromZero(req.offsets)' /\ Passed(req.scopes, req.offsets)' /\ Fresh'
    BY DEF RequestPassed
  <2>1. kind = "query"  BY <1>1 DEF Serving
  <2>2. FromZero(offsets) /\ Passed(scopes, offsets)  BY <2>1
  <2>3. FromZero(req.offsets)' /\ Passed(req.scopes, req.offsets)'
    BY <1>1, <1>2, <2>2 DEF Passed, FromZero
  <2>4. Fresh'  BY <1>1 DEF Fresh
  <2> QED BY <2>3, <2>4
<1> QED BY <1>3, <1>4, <1>5, <1>6

\* A vault lists each note at one rank.
LEMMA ListedOnce == ASSUME QInv PROVE OneRank(Listed)
<1> SUFFICES ASSUME NEW a \in Listed, NEW b \in Listed, RefOf(a) = RefOf(b) PROVE a = b
  BY DEF OneRank
<1>1. vault \in [Scopes -> Contents]  BY QTypes
<1>2. /\ a = <<a[1], a[2]>> /\ b = <<b[1], b[2]>> /\ a[1] \in Scopes
      /\ a[2] \in vault[a[1]] /\ b[2] \in vault[b[1]]
  BY DEF Listed, Row
<1>3. a[1] = b[1] /\ NameOf[a[2]] = NameOf[b[2]]  BY DEF RefOf
<1>4. vault[a[1]] \in Contents  BY <1>1, <1>2
<1>5. a[2] = b[2]  BY <1>2, <1>3, <1>4 DEF Contents
<1> QED BY <1>2, <1>3, <1>5

\* What is gathered from a vault as it is was listed already.
LEMMA RReply ==
  ASSUME RInv, NEW s \in Scopes, NEW rows \in SUBSET vault[s], NEW hits \in SUBSET Ranks,
         Reply(s, rows, hits), Clean
  PROVE  Apart' /\ OneRank(Known)' /\ CursorPassed'
<1>1. QInv /\ vault[s] \subseteq Ranks  BY QTypes DEF RInv
<1>2. /\ UNCHANGED <<vault, cursor, pages>> /\ req # Idle
      /\ req'.rows = req.rows \cup ({s} \X rows)
  BY <1>1, ReplyEffect DEF Reply, others
<1>3. Received' = Received /\ Listed' = Listed  BY <1>2 DEF Received, Listed
<1>4. Apart /\ OneRank(Known) /\ CursorPassed  BY DEF RInv, RepeatInv
<1>5. Apart'  BY <1>2, <1>4 DEF Apart
<1>6. OneRank(Known)'
  <2>1. {s} \X rows \subseteq Listed  BY <1>1 DEF Listed, Row
  <2>2. Known' \subseteq Known  BY <1>2, <1>3, <2>1 DEF Known
  <2> QED BY <1>4, <2>2 DEF OneRank
<1>7. CursorPassed'  BY <1>2, <1>3, <1>4 DEF CursorPassed, Passed, FromZero
<1> QED BY <1>5, <1>6, <1>7

\* An answer to a search.
LEMMA RAnswerSearch ==
  ASSUME RInv, NEW s \in Scopes, AnswerSearch(s)
  PROVE  RepeatInv'
<1> SUFFICES ASSUME Clean'
             PROVE  Apart' /\ OneRank(Known)' /\ CursorPassed' /\ RequestPassed'
  BY DEF RepeatInv
<1>1. QInv /\ req # Idle /\ req.kind # "query" /\ Clean  BY DEF RInv, AnswerSearch, Clean
<1>2. PICK hits \in Offers(req.kind, vault[s], PageLimit(AskedLimit(req))) :
        Reply(s, IF req.kind = "backlinks" THEN hits
                 ELSE VaultSearch(hits, PageLimit(AskedLimit(req))), hits)
  BY DEF AnswerSearch
<1> DEFINE rows == IF req.kind = "backlinks" THEN hits
                   ELSE VaultSearch(hits, PageLimit(AskedLimit(req)))
<1>3. rows \in SUBSET vault[s] /\ hits \in SUBSET Ranks /\ rows \in SUBSET Ranks
  <2>1. hits \subseteq vault[s] /\ vault[s] \subseteq Ranks  BY <1>1, QTypes, OfferedNotes
  <2> QED BY <2>1 DEF VaultSearch
<1> HIDE DEF rows
<1>4. Reply(s, rows, hits)  BY <1>2 DEF rows
<1>5. Apart' /\ OneRank(Known)' /\ CursorPassed'  BY <1>1, <1>3, <1>4, RReply
<1>6. req'.kind = req.kind  BY <1>1, <1>3, <1>4, ReplyEffect
<1>7. RequestPassed'  BY <1>1, <1>6 DEF RequestPassed, Serving
<1> QED BY <1>5, <1>7

\* An answer to a listing lies at the offset of its scope, so it holds no row that
\* was received.
LEMMA RAnswerQuery ==
  ASSUME RInv, NEW s \in Scopes, AnswerQuery(s)
  PROVE  RepeatInv'
<1> SUFFICES ASSUME Clean'
             PROVE  Apart' /\ OneRank(Known)' /\ CursorPassed' /\ RequestPassed'
  BY DEF RepeatInv
<1>1. PICK notes \in {vault[s]} \cup past[s] :
        /\ Reply(s, VaultQuery(notes, AskedLimit(req), req.offsets[s]), {})
        /\ upset' = IF notes = vault[s] THEN upset ELSE upset \cup {"stale"}
  BY DEF AnswerQuery
<1>2. notes = vault[s] /\ upset' = upset  BY <1>1 DEF Clean
<1>3. Clean /\ QInv /\ Serving  BY <1>2 DEF Clean, RInv, AnswerQuery, Serving
<1>4. req \in Request  BY <1>3, QTypes DEF Serving
<1>5. /\ vault[s] \in SUBSET Nat /\ IsFiniteSet(vault[s]) /\ vault[s] \in SUBSET Ranks
  <2>1. vault[s] \in SUBSET Ranks  BY <1>3, QTypes
  <2> QED BY <2>1, NotesFinite
<1>6. FromZero(req.offsets) /\ Passed(req.scopes, req.offsets) /\ Fresh
  BY <1>3 DEF RInv, RepeatInv, RequestPassed
<1>7. req.offsets[s] \in Nat /\ Most(req.limit) \in Nat /\ req.limit \in Int
  BY <1>4, <1>6, RequestNumbers DEF FromZero
<1> DEFINE A == Window(vault[s], req.offsets[s], Most(req.limit))
<1>8. Reply(s, A, {})
  <2>1. AskedLimit(req) = req.limit + 1  BY <1>3 DEF AskedLimit, Serving
  <2> QED BY <1>1, <1>2, <1>7, <2>1, AnswerWindow
<1>9. A \in SUBSET vault[s] /\ A \in SUBSET Ranks  BY <1>5 DEF Window
<1>10. Apart' /\ OneRank(Known)' /\ CursorPassed'
  <2> HIDE DEF A
  <2> QED BY <1>3, <1>8, <1>9, RReply
<1>11. /\ s \in req.scopes /\ s \notin req.asked
       /\ req'.kind = req.kind /\ req'.scopes = req.scopes /\ req'.offsets = req.offsets
       /\ req'.rows = req.rows \cup ({s} \X A)
       /\ RowsOf(req'.rows, s) = A
       /\ \A x : x # s => RowsOf(req'.rows, x) = RowsOf(req.rows, x)
       /\ UNCHANGED <<vault, pages>>
  <2> HIDE DEF A
  <2>1. UNCHANGED <<vault, pages>>  BY <1>8 DEF Reply, others
  <2>2. {} \in SUBSET Ranks  OBVIOUS
  <2>3. /\ s \in req.scopes /\ s \notin req.asked
        /\ req'.kind = req.kind /\ req'.scopes = req.scopes /\ req'.offsets = req.offsets
        /\ req'.rows = req.rows \cup ({s} \X A)
    BY <1>3, <1>8, <1>9, <2>2, ReplyEffect
  <2>4. /\ RowsOf(req'.rows, s) = A
        /\ \A x : x # s => RowsOf(req'.rows, x) = RowsOf(req.rows, x)
    BY <1>3, <1>8, <1>9, <2>2, ReplyRows
  <2> QED BY <2>1, <2>3, <2>4
<1>12. Received' = Received  BY <1>11 DEF Received
<1>13. ASSUME NEW r \in {s} \X A PROVE r \notin Received
  <2>1. r[1] = s /\ r[2] \in A  BY <1>13
  <2>2. r[2] \in vault[s] /\ RankIn(r[2], vault[s]) >= req.offsets[s]  BY <2>1 DEF Window
  <2>3. RankIn(r[2], vault[s]) \in Nat  BY <1>5, <2>2, RankType
  <2>4. ~(RankIn(r[2], vault[s]) < req.offsets[s])  BY <1>7, <2>2, <2>3
  <2> QED BY <1>6, <1>11, <2>1, <2>4 DEF Passed
<1>14. req'.rows \cap Received = {}  BY <1>6, <1>11, <1>13 DEF Fresh
<1>15. ASSUME NEW r \in req'.rows
       PROVE  RankIn(r[2], vault[r[1]])
                <= req.offsets[r[1]] + RankIn(r[2], RowsOf(req'.rows, r[1]))
  <2>1. CASE r[1] # s
    <3>1. r \in req.rows  BY <1>11, <2>1
    <3>2. RowsOf(req'.rows, r[1]) = RowsOf(req.rows, r[1])  BY <1>11, <2>1
    <3> QED BY <1>6, <3>1, <3>2 DEF Fresh
  <2>2. CASE r[1] = s
    <3>1. req.rows \subseteq req.asked \X Ranks  BY <1>3 DEF QInv, ReqShape, Serving
    <3>2. r \notin req.rows  BY <1>11, <2>2, <3>1
    <3>3. r[2] \in A  BY <1>11, <3>2
    <3>4. RankIn(r[2], vault[s]) = req.offsets[s] + RankIn(r[2], A)
      BY <1>5, <1>7, <3>3, WindowRank
    <3>5. RankIn(r[2], vault[s]) \in Nat
      <4>1. r[2] \in vault[s]  BY <3>3 DEF Window
      <4> QED BY <1>5, <4>1, RankType
    <3> HIDE DEF A
    <3>6. RankIn(r[2], vault[s]) <= req.offsets[s] + RankIn(r[2], A)  BY <3>4, <3>5
    <3> QED BY <1>11, <2>2, <3>6
  <2> QED BY <2>1, <2>2
<1> HIDE DEF A
<1>16. Fresh'  BY <1>11, <1>12, <1>14, <1>15 DEF Fresh
<1>17. FromZero(req.offsets)' /\ Passed(req.scopes, req.offsets)'
  BY <1>6, <1>11, <1>12 DEF FromZero, Passed
<1> QED BY <1>10, <1>16, <1>17 DEF RequestPassed

\* The merge of a listing takes the first rows of each scope, and moves its offset
\* past them.
LEMMA RCollect ==
  ASSUME RInv, Collect
  PROVE  RepeatInv'
<1> SUFFICES ASSUME Clean'
             PROVE  Apart' /\ OneRank(Known)' /\ CursorPassed' /\ RequestPassed'
  BY DEF RepeatInv
<1>1. /\ req' = Idle /\ UNCHANGED vault /\ upset \subseteq upset'
      /\ Visible # req.rows => "hidden" \in upset'
  BY DEF Collect, others
<1>2. Clean /\ QInv /\ Visible = req.rows  BY <1>1 DEF Clean, RInv
<1>3. PICK page : Collected(page)  BY <1>2, CollectEffect
<1> DEFINE new == Advance(req.offsets, req.scopes, page)
<1>4. /\ Serving /\ req \in Request /\ page \in SUBSET req.rows
      /\ page \in TopRows(req.rows, req.limit)
      /\ cursor' # NoCursor => cursor'.data.scopes = req.scopes /\ cursor'.data.offsets = new
  BY <1>2, <1>3 DEF Collected, NextPayload
<1>5. /\ Apart /\ OneRank(Known) /\ FromZero(req.offsets)
      /\ Passed(req.scopes, req.offsets) /\ Fresh
  BY <1>2, <1>4 DEF RInv, RepeatInv, RequestPassed
<1>6. /\ req.rows \in SUBSET Row /\ page \in SUBSET Row /\ req.scopes \in SUBSET Scopes
  BY <1>4 DEF Request
<1>7. \A a \in page, b \in req.rows \ page : a[2] <= b[2]
  BY <1>4 DEF TopRows
<1>8. page \cap Received = {}  BY <1>4, <1>5 DEF Fresh
<1>9. Received' = Received \cup page /\ Apart'
  BY <1>2, <1>3, <1>5, <1>8, CollectedRows
<1>10. OneRank(Known)'
  <2>1. Listed' = Listed  BY <1>1 DEF Listed
  <2>2. req # Idle  BY <1>4 DEF Serving
  <2>3. Known' \subseteq Known  BY <1>1, <1>4, <1>9, <2>1, <2>2 DEF Known
  <2> QED BY <1>5, <2>3 DEF OneRank
<1>11. /\ \A s \in req.scopes : new[s] = req.offsets[s] + Cardinality(RowsOf(page, s))
       /\ FromZero(new)
  BY <1>2, <1>4, <1>5, AdvanceFacts DEF FromZero
<1> HIDE DEF new
<1>12. ASSUME NEW r \in Received', r[1] \in req.scopes
       PROVE  RankIn(r[2], vault[r[1]]) < new[r[1]]
  <2> DEFINE s == r[1]
             q == r[2]
             A == RowsOf(req.rows, s)
             t == RowsOf(page, s)
  <2>1. r \in Row  BY <1>2, <1>6, <1>9, <1>12, ReceivedRows
  <2>2. /\ s \in Scopes /\ q \in Ranks /\ q \in Nat /\ RankIn(q, vault[s]) \in Nat /\ r = <<s, q>>
    <3>1. vault \in [Scopes -> SUBSET Ranks]  BY <1>2, QTypes
    <3>2. r = <<s, q>>  BY <2>1 DEF Row
    <3> QED BY <2>1, <3>1, <3>2, RankNumbers
  <2>3. req.offsets[s] \in Nat  BY <1>5, <2>2 DEF FromZero
  <2>4. /\ Cardinality(t) \in Nat /\ A \in SUBSET Nat /\ IsFiniteSet(A)
    BY <1>6, <2>2, RowsCount
  <2>5. new[s] = req.offsets[s] + Cardinality(t)  BY <1>11, <1>12
  <2>6. CASE r \in Received
    <3>1. RankIn(q, vault[s]) < req.offsets[s]  BY <1>5, <1>12, <2>6 DEF Passed
    <3> HIDE DEF t
    <3> QED BY <2>2, <2>3, <2>4, <2>5, <3>1
  <2>7. CASE r \in page
    <3>1. RankIn(q, vault[s]) <= req.offsets[s] + RankIn(q, A)  BY <1>4, <1>5, <2>7 DEF Fresh
    <3>2. q \in t /\ t \in SUBSET A  BY <1>4, <2>2, <2>7 DEF RowsOf
    <3>3. \A a \in t, b \in A \ t : a <= b
      <4> SUFFICES ASSUME NEW a \in t, NEW b \in A, b \notin t PROVE a <= b  OBVIOUS
      <4>1. <<s, a>> \in page /\ <<s, b>> \in req.rows \ page  BY DEF RowsOf
      <4> QED BY <1>7, <4>1
    <3> HIDE DEF A, t
    <3>4. RankIn(q, A) < Cardinality(t)  BY <2>4, <3>2, <3>3, FrontRank
    <3>5. RankIn(q, A) \in Nat  BY <2>2, <2>4, RankType
    <3> QED BY <2>2, <2>3, <2>4, <2>5, <3>1, <3>4, <3>5
  <2> QED BY <1>9, <2>6, <2>7
<1>13. CursorPassed'
  BY <1>1, <1>4, <1>11, <1>12 DEF CursorPassed, Passed, FromZero
<1>14. RequestPassed'  BY <1>1 DEF RequestPassed, Serving
<1> QED BY <1>9, <1>10, <1>13, <1>14

\* The merge of a search gives the only page.
LEMMA RMerge ==
  ASSUME RInv, MergeSearch
  PROVE  RepeatInv'
<1> SUFFICES ASSUME Clean'
             PROVE  Apart' /\ OneRank(Known)' /\ CursorPassed' /\ RequestPassed'
  BY DEF RepeatInv
<1>1. /\ req # Idle /\ req.kind # "query" /\ status = "open" /\ req' = req /\ cursor' = cursor
      /\ UNCHANGED <<vault, upset>>
  BY DEF MergeSearch, Answered, others
<1>2. cursor = NoCursor  BY <1>1 DEF RInv, QInv, ReqShape
<1>3. PICK found \in IF req.kind = "backlinks" THEN {AllBacklinks(req)} ELSE BestMatches(req) :
        pages' = <<PageOf(found)>>
  BY DEF MergeSearch
<1>4. found \subseteq req.rows  BY DEF AllBacklinks, BestMatches, TopRows
<1>5. Apart'  BY <1>3 DEF Apart
<1>6. OneRank(Known)'
  <2>1. Received' = found  BY <1>3 DEF Received, PageOf
  <2>2. Listed' = Listed  BY <1>1 DEF Listed
  <2>3. Known' \subseteq Known  BY <1>1, <1>4, <2>1, <2>2 DEF Known
  <2>4. OneRank(Known)  BY <1>1 DEF RInv, RepeatInv, Clean
  <2> QED BY <2>3, <2>4 DEF OneRank
<1>7. CursorPassed' /\ RequestPassed'  BY <1>1, <1>2 DEF CursorPassed, RequestPassed, Serving
<1> QED BY <1>5, <1>6, <1>7

\* Every step keeps what was passed behind.
LEMMA RInvStep == RInv /\ [Next]_vars => RInv'
<1> SUFFICES ASSUME RInv, [Next]_vars PROVE RepeatInv'
  BY QInvStep DEF RInv
<1>0. QInv /\ vault \in [Scopes -> SUBSET Ranks]  BY QTypes DEF RInv
<1>1. ASSUME UNCHANGED <<vault, pages, cursor>>, upset \subseteq upset', req' \in {req, Idle}
      PROVE  RepeatInv'
  <2>1. CASE req' = Idle  BY <1>0, <1>1, <2>1, RShrink
  <2>2. CASE req' # Idle /\ req' = req  BY <1>0, <1>1, <2>2, RShrink
  <2> QED BY <1>1, <2>1, <2>2
<1>2. ASSUME NEW limit \in Limits, NEW f \in Filters, NEW start \in Starts,
             StartQuery(limit, f, start)
      PROVE  RepeatInv'
  <2>1. /\ req = Idle /\ pages = <<>> /\ cursor = NoCursor /\ UNCHANGED <<vault, pages, cursor>>
    BY <1>2 DEF StartQuery, others
  <2>2. CASE req' = req /\ upset' = upset  BY <1>1, <2>1, <2>2
  <2>3. CASE /\ req' = NewRequest("query", limit, EffectiveScopes(allowed, f),
                                  [s \in Scopes |-> start])
             /\ upset' = (IF Hides THEN {"hidden"} ELSE {})
                         \cup (IF start < 0 THEN {"negative"} ELSE {})
    <3> DEFINE scopes == EffectiveScopes(allowed, f)
               offsets == [s \in Scopes |-> start]
    <3>1. Received = {} /\ Apart  BY <2>1, ReceivedNone
    <3>2. OneRank(Received \cup Listed)
      <4>1. Received \cup Listed = Listed  BY <3>1
      <4> QED BY <1>0, <4>1, ListedOnce
    <3>3. CursorPassed  BY <2>1 DEF CursorPassed
    <3>4. Clean' => FromZero(offsets)
      <4>1. start \in Int  BY QueryAssumption
      <4>2. Clean' => ~(start < 0)  BY <2>3 DEF Clean
      <4> QED BY <4>1, <4>2 DEF FromZero
    <3> HIDE DEF scopes, offsets
    <3>5. Passed(scopes, offsets)  BY <3>1 DEF Passed
    <3> QED BY <2>1, <2>3, <3>1, <3>2, <3>3, <3>4, <3>5, RStart DEF scopes, offsets
  <2> QED BY <1>2, <2>2, <2>3 DEF StartQuery
<1>3. ASSUME UNCHANGED <<vault, cursor, pages, upset>>, req = Idle,
             NEW kind, NEW limit, NEW scopes, NEW offsets,
             req' = NewRequest(kind, limit, scopes, offsets),
             Clean /\ kind = "query" => FromZero(offsets) /\ Passed(scopes, offsets)
      PROVE  RepeatInv'
  <2>1. Clean' = Clean  BY <1>3 DEF Clean
  <2>2. Clean => Apart /\ OneRank(Received \cup Listed) /\ CursorPassed
    BY DEF RInv, RepeatInv, OneRank, Known
  <2> QED BY <1>3, <2>1, <2>2, RStart
<1>4. ASSUME NEW k \in Kinds \ {"query"}, NEW limit \in Limits, NEW f \in Filters,
             StartSearch(k, limit, f)
      PROVE  RepeatInv'
  <2> DEFINE l == IF k = "search" THEN limit ELSE PageLimit(limit)
             scopes == EffectiveScopes(allowed, f)
             offsets == [s \in Scopes |-> 0]
  <2>1. /\ UNCHANGED <<vault, cursor, pages, upset>> /\ req = Idle /\ k # "query"
        /\ req' = NewRequest(k, l, scopes, offsets)
    BY <1>4 DEF StartSearch, others
  <2> HIDE DEF l, scopes, offsets
  <2> QED BY <1>3, <2>1
<1>5. ASSUME NEW limit \in Limits, NextQuery(limit) PROVE RepeatInv'
  <2>1. /\ req = Idle /\ cursor # NoCursor /\ UNCHANGED <<vault, cursor, pages, upset>>
    BY <1>5 DEF NextQuery, others
  <2>2. CASE req' = req  BY <1>1, <2>1, <2>2
  <2>3. ASSUME NEW p \in DecodeCursor(cursor),
               req' = NewRequest("query", limit, StickyScopes(p), p.offsets)
        PROVE  RepeatInv'
    <3>1. p = cursor.data  BY <1>0, <2>1, Decoded
    <3>2. Clean => FromZero(p.offsets) /\ Passed(p.scopes, p.offsets)
      BY <2>1, <3>1 DEF RInv, RepeatInv, CursorPassed
    <3>3. Clean => FromZero(p.offsets) /\ Passed(StickyScopes(p), p.offsets)
      BY <3>2 DEF Passed, StickyScopes
    <3> QED BY <1>3, <2>1, <2>3, <3>3
  <2> QED BY <1>5, <2>2, <2>3 DEF NextQuery
<1>6. ASSUME NEW s \in Scopes, AnswerQuery(s) \/ AnswerSearch(s) PROVE RepeatInv'
  BY <1>6, RAnswerQuery, RAnswerSearch
<1>7. CASE Collect  BY <1>7, RCollect
<1>8. CASE Unavailable \/ Panic  BY <1>1, <1>8 DEF Unavailable, Panic, others
<1>9. CASE MergeSearch  BY <1>9, RMerge
<1>10. ASSUME NEW s \in Scopes, NEW why \in Outcome, Failure(s, why) PROVE RepeatInv'
  <2>1. /\ UNCHANGED <<vault, cursor, pages>> /\ upset \subseteq upset' /\ req # Idle
    BY <1>10 DEF Failure
  <2>2. /\ req'.kind = req.kind /\ req'.scopes = req.scopes
        /\ req'.offsets = req.offsets /\ req'.rows = req.rows
    BY <1>0, <1>10, FailureEffect
  <2> QED BY <1>0, <2>1, <2>2, RShrink
<1>11. ASSUME NEW s \in Scopes, Refused(s) PROVE RepeatInv'
  BY <1>10, <1>11 DEF Refused, Outcome
<1>12. ASSUME NEW s \in Scopes, NEW why \in Outcome, Fail(s, why) PROVE RepeatInv'
  BY <1>10, <1>12 DEF Fail
<1>13. ASSUME NEW s \in Scopes, NEW p \in Ranks, NEW q \in Ranks,
              OtherCreate(s, p) \/ OtherUpdate(s, p, q)
       PROVE  RepeatInv'
  BY <1>13 DEF OtherCreate, OtherUpdate, RepeatInv, Clean
<1>14. ASSUME NEW s \in Scopes, NEW p \in Ranks, OtherDelete(s, p) PROVE RepeatInv'
  <2>1. /\ vault' = [vault EXCEPT ![s] = vault[s] \ {p}]
        /\ UNCHANGED <<cursor, pages, req>> /\ upset \subseteq upset'
    BY <1>14 DEF OtherDelete, Change
  <2>2. vault' \in [Scopes -> SUBSET Ranks] /\ \A x \in Scopes : vault'[x] \subseteq vault[x]
    BY <1>0, <2>1
  <2>3. CASE req = Idle  BY <2>1, <2>2, <2>3, RShrink
  <2>4. CASE req # Idle  BY <2>1, <2>2, <2>4, RShrink
  <2> QED BY <2>3, <2>4
<1>15. ASSUME NEW s \in Scopes, Revoke(s) PROVE RepeatInv'  BY <1>1, <1>15 DEF Revoke
<1>16. ASSUME NEW h \in Handle, ExpireHandle(h) PROVE RepeatInv'
  BY <1>1, <1>16 DEF ExpireHandle, others
<1>17. CASE Restart  BY <1>1, <1>17 DEF Restart
<1>18. CASE UNCHANGED vars  BY <1>1, <1>18 DEF vars, others
<1> QED BY <1>2, <1>4, <1>5, <1>6, <1>7, <1>8, <1>9, <1>11, <1>12, <1>13,
           <1>14, <1>15, <1>16, <1>17, <1>18 DEF Next, Serve, Others

\* The invariant of the rows holds at the start.
LEMMA RInvInit == Init => RInv
<1> SUFFICES ASSUME Init PROVE RInv  OBVIOUS
<1>1. cursor = NoCursor /\ req = Idle /\ pages = <<>>  BY DEF Init
<1>2. QInv  BY QInvInit
<1>3. Received = {} /\ Apart  BY <1>1, ReceivedNone
<1>4. OneRank(Known)
  <2>1. Known = Listed  BY <1>1, <1>3 DEF Known
  <2> QED BY <1>2, <2>1, ListedOnce
<1> QED BY <1>1, <1>2, <1>3, <1>4 DEF RInv, RepeatInv, CursorPassed, RequestPassed, Serving

\* Failing scopes, revoked scopes, restarts, expired handles, notes removed while the
\* client pages and any mix of page sizes never make a note appear on two pages, at
\* one rank or at two, unless a note was created or updated meanwhile, a tombstone
\* hides a row that a vault still lists, a remote scope answered from summaries it had
\* cached before a change, or the listing was started from a negative offset
\* (newOffsets in Query counts the rows each scope put on the page).
THEOREM NoRowTwice == Spec => []NoRepeat
<1>1. RInv => NoRepeat
  BY ApartRepeatFree DEF RInv, RepeatInv, NoRepeat, Clean
<1> QED BY <1>1, RInvInit, RInvStep, PTL DEF Spec

-----------------------------------------------------------------------------
(* Every row once, in order                                                *)

\* The pages come in the order of the listing.
PagesOrdered ==
  \A i, j \in DOMAIN pages :
    i < j => \A a \in pages[i].rows, b \in pages[j].rows : a[2] <= b[2]

\* Where the listing began.
Base(offsets) == IF pages = <<>> THEN offsets ELSE pages[1].from

\* What a listing of these scopes is to show, from these offsets on.
ToShow(scopes, from) ==
  {r \in Row : /\ r[1] \in scopes /\ r[2] \in vault[r[1]]
               /\ RankIn(r[2], vault[r[1]]) >= from[r[1]]}

\* What was received is exactly what is to show before the offsets, and comes before
\* the rest of it.
ExactlyFrom(scopes, from, offsets) ==
  /\ scopes \subseteq allowed
  /\ \A i \in DOMAIN pages : pages[i].attempted = scopes
  /\ \A s \in scopes : offsets[s] \in Nat /\ from[s] \in Nat /\ from[s] <= offsets[s]
  /\ Received = {r \in ToShow(scopes, from) : RankIn(r[2], vault[r[1]]) < offsets[r[1]]}
  /\ \A a \in Received, b \in ToShow(scopes, from) \ Received : a[2] <= b[2]

Exactly(scopes, offsets) == ExactlyFrom(scopes, Base(offsets), offsets)

\* The listing has shown all that it was to show.
Complete == Received = ToShow(pages[1].attempted, pages[1].from)

\* Each scope that answered gave the window of its vault that the offset says.
Windows ==
  \A s \in req.asked : RowsOf(req.rows, s) = Window(vault[s], req.offsets[s], Most(req.limit))

CursorExact == cursor # NoCursor => Exactly(cursor.data.scopes, cursor.data.offsets)

RequestExact == Serving => Exactly(req.scopes, req.offsets) /\ Windows

\* Nothing but empty pages happened to the listing.
Undisturbed == upset \subseteq {"zero"}

PagingInv ==
  Undisturbed =>
    /\ PagesOrdered /\ CursorExact /\ RequestExact
    /\ status = "done" /\ req = Idle => Complete

PInv == RInv /\ PagingInv

\* The next offset is passed by what was passed before and by what the page took of
\* the window.
LEMMA NextRank ==
  ASSUME NEW V \in SUBSET Nat, IsFiniteSet(V), NEW o \in Nat, NEW n \in Nat,
         NEW t \in SUBSET Window(V, o, n),
         \A a \in t, b \in Window(V, o, n) \ t : a <= b,
         NEW p \in V
  PROVE  RankIn(p, V) < o + Cardinality(t) <=> RankIn(p, V) < o \/ p \in t
<1> DEFINE A == Window(V, o, n)
           c == Cardinality(t)
           k == RankIn(p, V)
<1>1. /\ IsFiniteSet(A) /\ Cardinality(A) \in Nat /\ Cardinality(A) <= n  BY WindowCounts
<1>2. c \in Nat /\ c <= Cardinality(A)  BY <1>1, FS_Subset, FS_CardinalityType
<1>3. k \in Nat /\ p \in Nat  BY RankType
<1>4. A \in SUBSET Nat  BY DEF Window
<1>5. ASSUME p \in A PROVE p \in t <=> RankIn(p, A) < c  BY <1>1, <1>4, <1>5, FrontRank
<1>6. ASSUME p \in A PROVE k = o + RankIn(p, A) /\ RankIn(p, A) \in Nat
  BY <1>1, <1>3, <1>4, <1>6, WindowRank, RankType
<1>7. k >= o /\ k < o + n => p \in A  BY DEF Window
<1>8. t \subseteq A  OBVIOUS
<1> HIDE DEF A, c, k
<1>9. ASSUME p \in t PROVE k < o + c
  <2>1. p \in A  BY <1>8, <1>9
  <2> QED BY <1>2, <1>3, <1>5, <1>6, <1>9, <2>1
<1>10. ASSUME k < o + c, ~(k < o) PROVE p \in t
  <2>1. p \in A  BY <1>1, <1>2, <1>3, <1>7, <1>10
  <2>2. RankIn(p, A) < c  BY <1>2, <1>3, <1>6, <1>10, <2>1
  <2> QED BY <1>5, <2>1, <2>2
<1>11. k < o => k < o + c  BY <1>2, <1>3
<1> QED BY <1>9, <1>10, <1>11 DEF c, k

\* A note that a full window leaves out comes after the window.
LEMMA AfterWindow ==
  ASSUME NEW V \in SUBSET Nat, IsFiniteSet(V), NEW o \in Nat, NEW n \in Nat,
         NEW p \in V, ~(RankIn(p, V) < o), p \notin Window(V, o, n)
  PROVE  /\ Cardinality(Window(V, o, n)) = n
         /\ \A c \in Window(V, o, n) : c < p
<1> DEFINE A == Window(V, o, n)
<1>1. RankIn(p, V) \in Nat /\ p \in Nat  BY RankType
<1>2. RankIn(p, V) >= o  BY <1>1
<1>3. ~(RankIn(p, V) < o + n)  BY <1>2 DEF Window
<1>4. Cardinality(A) = n
  <2>1. /\ Cardinality(A) \in Nat /\ Cardinality(A) <= n
        /\ Cardinality(A) < n => \A x \in V : RankIn(x, V) >= o => x \in A
    BY WindowCounts
  <2> HIDE DEF A
  <2>2. ~(Cardinality(A) < n)  BY <1>2, <2>1 DEF A
  <2> QED BY <2>1, <2>2
<1>5. ASSUME NEW c \in A PROVE c < p
  <2>1. c \in V /\ c \in Nat /\ RankIn(c, V) < o + n  BY DEF Window
  <2>2. RankIn(c, V) \in Nat  BY <2>1, RankType
  <2>3. p <= c => RankIn(p, V) <= RankIn(c, V)  BY <1>1, <2>1, RankGrows
  <2> QED BY <1>1, <1>3, <2>1, <2>2, <2>3
<1> QED BY <1>4, <1>5

\* The invariant of an undisturbed listing, part by part.
LEMMA PagingParts ==
  ASSUME Undisturbed' => /\ PagesOrdered' /\ CursorExact' /\ RequestExact'
                         /\ (status = "done" /\ req = Idle => Complete)'
  PROVE  PagingInv'
BY DEF PagingInv

\* Steps that change neither the vaults nor what was answered.
LEMMA PRest ==
  ASSUME PInv, UNCHANGED <<vault, allowed, cursor, pages, upset>>,
         \/ req' = req /\ status' = status
         \/ req' \in {req, Idle} /\ status' # "done"
  PROVE  PagingInv'
<1> SUFFICES ASSUME Undisturbed'
             PROVE  /\ PagesOrdered' /\ CursorExact' /\ RequestExact'
                    /\ (status = "done" /\ req = Idle => Complete)'
  BY PagingParts
<1>1. Undisturbed /\ Received' = Received  BY DEF Undisturbed, Received
<1>2. PagesOrdered'  BY <1>1 DEF PInv, PagingInv, PagesOrdered
<1>3. CursorExact'
  <2> SUFFICES ASSUME cursor # NoCursor PROVE Exactly(cursor.data.scopes, cursor.data.offsets)'
    BY DEF CursorExact
  <2>1. Exactly(cursor.data.scopes, cursor.data.offsets)
    BY <1>1 DEF PInv, PagingInv, CursorExact
  <2> QED BY <1>1, <2>1 DEF Exactly, ExactlyFrom, Base, ToShow
<1>4. RequestExact'
  <2> SUFFICES ASSUME Serving' PROVE Exactly(req.scopes, req.offsets)' /\ Windows'
    BY DEF RequestExact
  <2>1. req' = req /\ Serving  BY DEF Serving
  <2>2. Exactly(req.scopes, req.offsets) /\ Windows
    BY <1>1, <2>1 DEF PInv, PagingInv, RequestExact
  <2>3. Exactly(req.scopes, req.offsets)'
    BY <1>1, <2>1, <2>2 DEF Exactly, ExactlyFrom, Base, ToShow
  <2>4. Windows'  BY <2>1, <2>2 DEF Windows
  <2> QED BY <2>3, <2>4
<1>5. (status = "done" /\ req = Idle => Complete)'
  BY <1>1 DEF PInv, PagingInv, Complete, ToShow
<1> QED BY <1>2, <1>3, <1>4, <1>5

\* A request that begins where the listing stands.
LEMMA PStart ==
  ASSUME UNCHANGED <<vault, allowed, cursor, pages>>, status' = "open",
         NEW kind, NEW limit, NEW scopes, NEW offsets,
         req' = NewRequest(kind, limit, scopes, offsets), req' # Idle,
         Undisturbed' => PagesOrdered /\ CursorExact,
         Undisturbed' /\ kind = "query" => Exactly(scopes, offsets)
  PROVE  PagingInv'
<1> SUFFICES ASSUME Undisturbed'
             PROVE  /\ PagesOrdered' /\ CursorExact' /\ RequestExact'
                    /\ (status = "done" /\ req = Idle => Complete)'
  BY PagingParts
<1>1. Received' = Received  BY DEF Received
<1>2. PagesOrdered'  BY DEF PagesOrdered
<1>3. CursorExact'
  BY <1>1 DEF CursorExact, Exactly, ExactlyFrom, Base, ToShow
<1>4. /\ req'.kind = kind /\ req'.scopes = scopes /\ req'.offsets = offsets /\ req'.asked = {}
  BY DEF NewRequest
<1>5. RequestExact'
  <2> SUFFICES ASSUME Serving' PROVE Exactly(req.scopes, req.offsets)' /\ Windows'
    BY DEF RequestExact
  <2>1. Exactly(scopes, offsets)  BY <1>4 DEF Serving
  <2>2. Exactly(req.scopes, req.offsets)'
    BY <1>1, <1>4, <2>1 DEF Exactly, ExactlyFrom, Base, ToShow
  <2>3. Windows'  BY <1>4 DEF Windows
  <2> QED BY <2>2, <2>3
<1> QED BY <1>2, <1>3, <1>5

\* Before the first page, nothing was received and everything from the offsets on is
\* to show.
LEMMA ExactlyBegins ==
  ASSUME vault \in [Scopes -> SUBSET Ranks], pages = <<>>,
         NEW scopes \in SUBSET allowed, NEW offsets, \A s \in scopes : offsets[s] \in Nat
  PROVE  Exactly(scopes, offsets)
<1>1. Received = {} /\ Base(offsets) = offsets  BY ReceivedNone DEF Base
<1>2. \A r \in ToShow(scopes, offsets) : ~(RankIn(r[2], vault[r[1]]) < offsets[r[1]])
  <2> SUFFICES ASSUME NEW r \in ToShow(scopes, offsets)
               PROVE  ~(RankIn(r[2], vault[r[1]]) < offsets[r[1]])
    OBVIOUS
  <2>1. /\ r \in Row /\ r[1] \in scopes /\ RankIn(r[2], vault[r[1]]) >= offsets[r[1]]
    BY DEF ToShow
  <2>2. RankIn(r[2], vault[r[1]]) \in Nat /\ offsets[r[1]] \in Nat  BY <2>1, RankNumbers
  <2> QED BY <2>1, <2>2
<1>3. \A s \in scopes : offsets[s] \in Nat /\ offsets[s] <= offsets[s]  OBVIOUS
<1> QED BY <1>1, <1>2, <1>3 DEF Exactly, ExactlyFrom

\* An answer is the window at the offset of its scope.
LEMMA PAnswer ==
  ASSUME PInv, NEW s \in Scopes, AnswerQuery(s)
  PROVE  PagingInv'
<1> SUFFICES ASSUME Undisturbed'
             PROVE  /\ PagesOrdered' /\ CursorExact' /\ RequestExact'
                    /\ (status = "done" /\ req = Idle => Complete)'
  BY PagingParts
<1>1. PICK notes \in {vault[s]} \cup past[s] :
        /\ Reply(s, VaultQuery(notes, AskedLimit(req), req.offsets[s]), {})
        /\ upset' = IF notes = vault[s] THEN upset ELSE upset \cup {"stale"}
  BY DEF AnswerQuery
<1>2. notes = vault[s] /\ Undisturbed  BY <1>1 DEF Undisturbed
<1>3. QInv /\ Serving  BY DEF PInv, RInv, AnswerQuery, Serving
<1>4. req \in Request  BY <1>3, QTypes DEF Serving
<1>5. PagesOrdered /\ CursorExact /\ Exactly(req.scopes, req.offsets) /\ Windows
  BY <1>2, <1>3 DEF PInv, PagingInv, RequestExact
<1>6. s \in req.scopes  BY <1>1 DEF Reply
<1>7. req.offsets[s] \in Nat /\ req.limit \in Int
  BY <1>4, <1>5, <1>6, RequestNumbers DEF Exactly, ExactlyFrom
<1> DEFINE A == Window(vault[s], req.offsets[s], Most(req.limit))
<1>8. Reply(s, A, {})
  <2>1. AskedLimit(req) = req.limit + 1  BY <1>3 DEF AskedLimit, Serving
  <2> QED BY <1>1, <1>2, <1>7, <2>1, AnswerWindow
<1>9. A \in SUBSET Ranks
  <2>1. vault[s] \subseteq Ranks  BY <1>3, QTypes
  <2> QED BY <2>1 DEF Window
<1>10. RowsOf(req'.rows, s) = A /\ \A x : x # s => RowsOf(req'.rows, x) = RowsOf(req.rows, x)
  <2> HIDE DEF A
  <2>1. {} \in SUBSET Ranks  OBVIOUS
  <2> QED BY <1>3, <1>8, <1>9, <2>1, ReplyRows
<1>11. /\ s \notin req.asked /\ req'.limit = req.limit /\ req' \in Request
       /\ req'.scopes = req.scopes /\ req'.offsets = req.offsets
       /\ req'.asked = req.asked \cup {s}
  <2> HIDE DEF A
  <2>1. {} \in SUBSET Ranks  OBVIOUS
  <2> QED BY <1>3, <1>8, <1>9, <2>1, ReplyEffect
<1>12. UNCHANGED <<vault, allowed, cursor, pages>>  BY <1>1 DEF Reply, others
<1>13. Received' = Received  BY <1>12 DEF Received
<1>14. PagesOrdered'  BY <1>5, <1>12 DEF PagesOrdered
<1>15. CursorExact'
  BY <1>5, <1>12, <1>13 DEF CursorExact, Exactly, ExactlyFrom, Base, ToShow
<1>16. Exactly(req.scopes, req.offsets)'
  BY <1>5, <1>11, <1>12, <1>13 DEF Exactly, ExactlyFrom, Base, ToShow
<1>17. Windows'
  <2>1. \A x \in req.asked : RowsOf(req'.rows, x) = RowsOf(req.rows, x)  BY <1>10, <1>11
  <2> QED BY <1>5, <1>10, <1>11, <1>12, <2>1 DEF Windows
<1>18. req' # Idle  BY <1>11, NilAssumption
<1> QED BY <1>14, <1>15, <1>16, <1>17, <1>18 DEF RequestExact

\* An answer to a search leaves the listing, of which there is none, alone.
LEMMA PAnswerSearch ==
  ASSUME PInv, NEW s \in Scopes, AnswerSearch(s)
  PROVE  PagingInv'
<1> SUFFICES ASSUME Undisturbed'
             PROVE  /\ PagesOrdered' /\ CursorExact' /\ RequestExact'
                    /\ (status = "done" /\ req = Idle => Complete)'
  BY PagingParts
<1>1. QInv /\ req.kind # "query" /\ req # Idle /\ Undisturbed
  BY DEF PInv, RInv, AnswerSearch, Undisturbed
<1>2. PICK rows \in SUBSET Ranks, hits \in SUBSET Ranks : Reply(s, rows, hits)
  BY <1>1, AnswerReplies
<1>3. req'.kind = req.kind /\ req' # Idle  BY <1>1, <1>2, ReplyEffect, NilAssumption
<1>4. UNCHANGED <<vault, allowed, cursor, pages>>  BY <1>2 DEF Reply, others
<1>5. Received' = Received  BY <1>4 DEF Received
<1>6. PagesOrdered /\ CursorExact  BY <1>1 DEF PInv, PagingInv
<1>7. PagesOrdered'  BY <1>4, <1>6 DEF PagesOrdered
<1>8. CursorExact'
  BY <1>4, <1>5, <1>6 DEF CursorExact, Exactly, ExactlyFrom, Base, ToShow
<1> QED BY <1>1, <1>3, <1>7, <1>8 DEF RequestExact, Serving

\* The merge of a search gives the only page.
LEMMA PMerge ==
  ASSUME PInv, MergeSearch
  PROVE  PagingInv'
<1> SUFFICES ASSUME Undisturbed'
             PROVE  /\ PagesOrdered' /\ CursorExact' /\ RequestExact'
                    /\ (status = "done" /\ req = Idle => Complete)'
  BY PagingParts
<1>1. /\ req # Idle /\ req.kind # "query" /\ status = "open" /\ req' = req
      /\ cursor' = cursor
  BY DEF MergeSearch, Answered
<1>2. cursor = NoCursor  BY <1>1 DEF PInv, RInv, QInv, ReqShape
<1>3. \E g : pages' = <<g>>  BY DEF MergeSearch
<1>4. PagesOrdered'
  <2>1. \A i, j \in DOMAIN pages' : ~(i < j)  BY <1>3
  <2> QED BY <2>1 DEF PagesOrdered
<1> QED BY <1>1, <1>2, <1>4 DEF CursorExact, RequestExact, Serving

\* The theorem about whole listings is about page sizes that a vault can answer with
\* the row more that a listing asks for: with a page as large as MaxPage it is false.
LimitsBelowMax == \A limit \in Limits : limit < MaxPage

\* The page goes on where the listing stood: what is received then is what the new
\* offsets say, it comes before the rest, and it is everything when the rows fitted.
Continues(r, rows, page, new) ==
  LET got == Received \cup page
      all == ToShow(r.scopes, Base(r.offsets))
  IN /\ got = {b \in all : RankIn(b[2], vault[b[1]]) < new[b[1]]}
     /\ \A a \in got, b \in all \ got : a[2] <= b[2]
     /\ \A a \in Received, b \in page : a[2] <= b[2]
     /\ Cardinality(rows) <= r.limit => got = all

\* The merge of an undisturbed listing takes the first rows of what is left, and says
\* that nothing is left only when it has taken all.
LEMMA Merged ==
  ASSUME LimitsBelowMax, vault \in [Scopes -> SUBSET Ranks],
         NEW r \in Request, r.limit \in Nat, r.limit < MaxPage,
         NEW rows \in SUBSET Row, rows \subseteq r.scopes \X Ranks,
         \A s \in r.scopes : RowsOf(rows, s) = Window(vault[s], r.offsets[s], Most(r.limit)),
         NEW page \in TopRows(rows, r.limit),
         NEW new, \A s \in r.scopes : new[s] = r.offsets[s] + Cardinality(RowsOf(page, s)),
         Exactly(r.scopes, r.offsets)
  PROVE  Continues(r, rows, page, new)
<1> DEFINE W(s) == Window(vault[s], r.offsets[s], Most(r.limit))
           T(s) == RowsOf(page, s)
           got == Received \cup page
           from == Base(r.offsets)
           all == ToShow(r.scopes, from)
<1>1. r.scopes \in SUBSET Scopes  BY DEF Request
<1>2. Most(r.limit) = r.limit + 1  BY MostType
<1>3. /\ page \in SUBSET rows /\ Cardinality(page) \in Nat /\ Cardinality(page) <= r.limit
      /\ Cardinality(rows) <= r.limit => page = rows
      /\ \A a \in page, b \in rows \ page : a[2] <= b[2]
  <2> DEFINE l == r.limit
  <2>1. l \in Nat /\ page \in TopRows(rows, l)  OBVIOUS
  <2> HIDE DEF l
  <2>2. /\ page \in SUBSET rows /\ Cardinality(page) \in Nat /\ Cardinality(page) <= l
        /\ Cardinality(rows) <= l => page = rows
        /\ Cardinality(rows) >= l => Cardinality(page) = l
        /\ \A a \in page, b \in rows \ page : a[2] <= b[2]
    BY <2>1, TopRowsFacts
  <2> QED BY <2>2 DEF l
<1>a. /\ \A s \in r.scopes : /\ r.offsets[s] \in Nat /\ from[s] \in Nat
                             /\ from[s] <= r.offsets[s]
      /\ Received = {x \in all : RankIn(x[2], vault[x[1]]) < r.offsets[x[1]]}
      /\ \A a \in Received, b \in all \ Received : a[2] <= b[2]
  BY DEF Exactly, ExactlyFrom
<1> HIDE DEF from
<1>4. ASSUME NEW s \in r.scopes
      PROVE  /\ vault[s] \in SUBSET Nat /\ IsFiniteSet(vault[s])
             /\ r.offsets[s] \in Nat /\ Most(r.limit) \in Nat
             /\ T(s) \in SUBSET W(s) /\ \A a \in T(s), b \in W(s) \ T(s) : a <= b
  <2>1. s \in Scopes  BY <1>1
  <2>2. vault[s] \in SUBSET Ranks  BY <2>1
  <2>3. vault[s] \in SUBSET Nat /\ IsFiniteSet(vault[s])  BY <2>2, NotesFinite
  <2>4. RowsOf(rows, s) = W(s)  OBVIOUS
  <2>5. T(s) \in SUBSET W(s)  BY <1>3, <2>4 DEF RowsOf
  <2>6. ASSUME NEW a \in T(s), NEW b \in W(s), b \notin T(s) PROVE a <= b
    <3>1. <<s, a>> \in page /\ <<s, b>> \in rows \ page  BY <2>4, <2>6 DEF RowsOf
    <3> QED BY <1>3, <3>1
  <2>7. Most(r.limit) \in Nat  BY <1>2
  <2>8. r.offsets[s] \in Nat  BY <1>a
  <2> QED BY <2>3, <2>5, <2>6, <2>7, <2>8
<1>b. \A b \in all : b \in Row /\ b[1] \in r.scopes /\ b[2] \in vault[b[1]]  BY DEF ToShow
<1>5. ASSUME NEW b \in all
      PROVE  /\ b \in Received <=> RankIn(b[2], vault[b[1]]) < r.offsets[b[1]]
             /\ b \in page <=> b[2] \in T(b[1])
             /\ b \in rows <=> b[2] \in W(b[1])
             /\ b \in got <=> RankIn(b[2], vault[b[1]]) < new[b[1]]
  <2>0. b \in Row /\ b[1] \in r.scopes /\ b[2] \in vault[b[1]]  BY <1>b
  <2>1. b \in Received <=> RankIn(b[2], vault[b[1]]) < r.offsets[b[1]]
    BY <1>a
  <2>2. b = <<b[1], b[2]>> /\ b[2] \in Ranks  BY <2>0 DEF Row
  <2>3. b \in page <=> b[2] \in T(b[1])  BY <2>2 DEF RowsOf
  <2>4. b \in rows <=> b[2] \in W(b[1])
    <3>1. RowsOf(rows, b[1]) = W(b[1])  BY <2>0
    <3> QED BY <2>2, <3>1 DEF RowsOf
  <2>5. RankIn(b[2], vault[b[1]]) < r.offsets[b[1]] + Cardinality(T(b[1]))
          <=> RankIn(b[2], vault[b[1]]) < r.offsets[b[1]] \/ b[2] \in T(b[1])
    BY <1>4, <2>0, NextRank
  <2> QED BY <2>0, <2>1, <2>3, <2>4, <2>5
<1>6. ASSUME NEW b \in got PROVE b \in all
  <2>1. CASE b \in Received  BY <1>a, <2>1
  <2>2. CASE b \in page
    <3>1. b \in Row /\ b \in rows /\ b = <<b[1], b[2]>> /\ b[1] \in r.scopes /\ b[2] \in Ranks
      BY <1>3, <2>2 DEF Row
    <3>2. b[2] \in W(b[1])  BY <3>1 DEF RowsOf
    <3>3. b[2] \in vault[b[1]] /\ RankIn(b[2], vault[b[1]]) >= r.offsets[b[1]]
      BY <3>2 DEF Window
    <3>4. /\ RankIn(b[2], vault[b[1]]) \in Nat /\ r.offsets[b[1]] \in Nat
          /\ from[b[1]] \in Nat /\ from[b[1]] <= r.offsets[b[1]]
      BY <1>a, <3>1, RankNumbers
    <3>5. RankIn(b[2], vault[b[1]]) >= from[b[1]]  BY <3>3, <3>4
    <3> QED BY <3>1, <3>3, <3>5 DEF ToShow
  <2> QED BY <2>1, <2>2
<1> HIDE DEF W, T, all
<1>7. got = {b \in all : RankIn(b[2], vault[b[1]]) < new[b[1]]}
  BY <1>5, <1>6
<1>8. ASSUME NEW a \in got, NEW b \in all, b \notin got
      PROVE  a[2] <= b[2]
  <2>0. b \in Row /\ b[1] \in r.scopes /\ b[2] \in vault[b[1]]  BY <1>b
  <2>1. b \notin Received /\ b \notin page  BY <1>8
  <2>2. CASE a \in Received  BY <1>a, <2>1, <2>2
  <2>3. CASE a \in page /\ b \in rows  BY <1>3, <2>1, <2>3
  <2>4. CASE a \in page /\ b \notin rows
    <3> DEFINE s == b[1]
    <3>1. ~(RankIn(b[2], vault[s]) < r.offsets[s]) /\ b[2] \notin W(s)
      BY <1>5, <2>1, <2>4
    <3>2. Cardinality(W(s)) = Most(r.limit) /\ \A c \in W(s) : c < b[2]
      BY <1>4, <2>0, <3>1, AfterWindow DEF W
    <3>3. Cardinality(T(s)) <= Cardinality(page) /\ Cardinality(T(s)) \in Nat
      <4>1. page \in SUBSET Row /\ s \in Scopes  BY <1>1, <1>3, <2>0
      <4>2. Cardinality(T(s)) = Cardinality({x \in page : x[1] = s}) /\ Cardinality(T(s)) \in Nat
        BY <4>1, RowsCount DEF T
      <4>3. IsFiniteSet(page)  BY <4>1, RowsFinite
      <4>4. Cardinality({x \in page : x[1] = s}) <= Cardinality(page)  BY <4>3, FS_Subset
      <4> QED BY <4>2, <4>4
    <3>4. T(s) # W(s)  BY <1>2, <1>3, <3>2, <3>3
    <3>5. PICK c \in W(s) : c \notin T(s)  BY <1>4, <2>0, <3>4
    <3>6. <<s, c>> \in rows \ page
      <4>1. RowsOf(rows, s) = W(s)  BY <2>0 DEF W
      <4> QED BY <3>5, <4>1 DEF RowsOf, T
    <3>7. a[2] <= c /\ c < b[2]  BY <1>3, <2>4, <3>2, <3>5, <3>6
    <3>8. a[2] \in Nat /\ c \in Nat /\ b[2] \in Nat
      <4>1. a \in Row /\ <<s, c>> \in Row  BY <1>3, <2>4, <3>6
      <4>2. \A x \in Row : x[2] \in Nat  BY QueryAssumption DEF Row
      <4>3. <<s, c>>[2] \in Nat  BY <4>1, <4>2
      <4> QED BY <2>0, <4>1, <4>2, <4>3
    <3> QED BY <3>7, <3>8
  <2> QED BY <2>2, <2>3, <2>4
<1>9. ASSUME NEW a \in Received, NEW b \in page PROVE a[2] <= b[2]
  <2>0. b \in all  BY <1>6
  <2>1. b \in Row /\ b[1] \in r.scopes /\ b[2] \in vault[b[1]]  BY <1>b, <2>0
  <2>2. b[2] \in W(b[1])  BY <1>3, <1>5, <2>0
  <2>3. ~(RankIn(b[2], vault[b[1]]) < r.offsets[b[1]])
    <3>1. RankIn(b[2], vault[b[1]]) >= r.offsets[b[1]]  BY <2>2 DEF W, Window
    <3>2. RankIn(b[2], vault[b[1]]) \in Nat  BY <2>1, RankNumbers
    <3>3. r.offsets[b[1]] \in Nat  BY <1>4, <2>1
    <3> QED BY <3>1, <3>2, <3>3
  <2>4. b \notin Received  BY <1>5, <2>0, <2>3
  <2> QED BY <1>a, <2>0, <2>4
<1>10. ASSUME Cardinality(rows) <= r.limit, NEW b \in all
       PROVE  b \in got
  <2> DEFINE s == b[1]
  <2>0. b \in Row /\ b[1] \in r.scopes /\ b[2] \in vault[b[1]]  BY <1>b
  <2>1. page = rows  BY <1>3, <1>10
  <2>2. SUFFICES ASSUME b \notin rows, b \notin Received PROVE FALSE  BY <2>1
  <2>3. ~(RankIn(b[2], vault[s]) < r.offsets[s]) /\ b[2] \notin W(s)
    BY <1>5, <2>2
  <2>4. Cardinality(W(s)) = Most(r.limit)
    BY <1>4, <2>0, <2>3, AfterWindow DEF W
  <2>5. RowsOf(rows, s) = W(s)  BY <2>0 DEF W
  <2>6. Cardinality(W(s)) = Cardinality({x \in rows : x[1] = s})
    <3>1. s \in Scopes  BY <1>1, <2>0
    <3> QED BY <2>5, <3>1, RowsCount
  <2>7. Cardinality({x \in rows : x[1] = s}) <= Cardinality(rows) /\ Cardinality(rows) \in Nat
    BY RowsFinite, FS_Subset
  <2> QED BY <1>2, <1>10, <2>4, <2>6, <2>7
<1> QED BY <1>6, <1>7, <1>8, <1>9, <1>10 DEF Continues, all, from

\* A cursor to where the listing stands.
LEMMA CursorFrom ==
  ASSUME UNCHANGED <<vault, allowed, pages>>, NEW scopes, NEW offsets,
         Exactly(scopes, offsets),
         cursor'.data.scopes = scopes, cursor'.data.offsets = offsets
  PROVE  CursorExact'
<1>1. Received' = Received  BY DEF Received
<1> QED BY <1>1 DEF CursorExact, Exactly, ExactlyFrom, Base, ToShow

\* A cursor to where the listing stands after a page more.
LEMMA CursorAfter ==
  ASSUME UNCHANGED <<vault, allowed>>, NEW scopes, NEW from, NEW offsets,
         cursor'.data.scopes = scopes, cursor'.data.offsets = offsets,
         pages' # <<>>, pages'[1].from = from, scopes \subseteq allowed,
         \A i \in DOMAIN pages' : pages'[i].attempted = scopes,
         \A s \in scopes : offsets[s] \in Nat /\ from[s] \in Nat /\ from[s] <= offsets[s],
         Received' = {r \in ToShow(scopes, from) : RankIn(r[2], vault[r[1]]) < offsets[r[1]]},
         \A a \in Received', b \in ToShow(scopes, from) \ Received' : a[2] <= b[2]
  PROVE  CursorExact'
<1>1. \A x : (Base(x))' = from  BY DEF Base
<1>2. ToShow(scopes, from)' = ToShow(scopes, from)  BY DEF ToShow
<1> QED BY <1>1, <1>2 DEF CursorExact, Exactly, ExactlyFrom, Base

\* The page of an undisturbed listing continues it, and the last page completes it.
LEMMA PCollect ==
  ASSUME LimitsBelowMax, PInv, Collect
  PROVE  PagingInv'
<1> SUFFICES ASSUME Undisturbed'
             PROVE  /\ PagesOrdered' /\ CursorExact' /\ RequestExact'
                    /\ (status = "done" /\ req = Idle => Complete)'
  BY PagingParts
<1>1. /\ req' = Idle /\ UNCHANGED <<vault, allowed>> /\ req.asked = req.scopes
      /\ upset \subseteq upset' /\ (Visible # req.rows => "hidden" \in upset')
      /\ status' = IF HasMore THEN "open" ELSE "done"
  BY DEF Collect, Answered, others
<1>2. Undisturbed /\ Visible = req.rows /\ QInv
  BY <1>1 DEF PInv, RInv, Undisturbed
<1>3. PICK page : Collected(page)  BY <1>2, CollectEffect
<1> DEFINE new == Advance(req.offsets, req.scopes, page)
           got == Received \cup page
           from == Base(req.offsets)
           all == ToShow(req.scopes, from)
<1>4. /\ Serving /\ req \in Request /\ page \in SUBSET req.rows /\ req.limit \in Nat
      /\ page \in TopRows(req.rows, req.limit)
      /\ IF HasMore /\ req.limit = 0
         THEN pages' = pages ELSE pages' = Append(pages, PageOf(page))
      /\ PageOf(page) \in Page
      /\ HasMore => /\ cursor' # NoCursor /\ cursor'.data.scopes = req.scopes
                    /\ cursor'.data.offsets = new
      /\ ~HasMore => cursor' = NoCursor
  BY <1>2, <1>3, NilAssumption DEF Collected, NextPayload
<1>5. /\ PageOf(page).rows = page /\ PageOf(page).attempted = req.scopes
      /\ PageOf(page).from = req.offsets
  BY DEF PageOf
<1>6. PagesOrdered /\ Exactly(req.scopes, req.offsets) /\ Windows
  BY <1>2, <1>4 DEF PInv, PagingInv, RequestExact
<1>7. vault \in [Scopes -> SUBSET Ranks] /\ pages \in Seq(Page)  BY <1>2, QTypes
<1>8. \A s \in req.scopes : /\ new[s] = req.offsets[s] + Cardinality(RowsOf(page, s))
                            /\ Cardinality(RowsOf(page, s)) \in Nat
  <2>1. page \in SUBSET Row /\ req.scopes \in SUBSET Scopes  BY <1>4 DEF Request
  <2>2. \A s \in req.scopes : Cardinality(RowsOf(page, s)) \in Nat  BY <2>1, RowsCount
  <2> QED BY <1>2, <1>4, <2>2, AdvanceFacts
<1>a. req.limit < MaxPage
  <2>1. req.limit \in Limits  BY <1>2, <1>4 DEF Serving, QInv, ReqShape
  <2> QED BY <2>1 DEF LimitsBelowMax
<1>9. /\ got = {b \in all : RankIn(b[2], vault[b[1]]) < new[b[1]]}
      /\ \A a \in got, b \in all \ got : a[2] <= b[2]
      /\ \A a \in Received, b \in page : a[2] <= b[2]
      /\ Cardinality(req.rows) <= req.limit => got = all
  <2>1. req.rows \in SUBSET Row /\ req.rows \subseteq req.scopes \X Ranks
    BY <1>1, <1>2, <1>4 DEF Request, QInv, ReqShape, Serving
  <2>2. \A s \in req.scopes : RowsOf(req.rows, s) = Window(vault[s], req.offsets[s], Most(req.limit))
    BY <1>1, <1>6 DEF Windows
  <2>3. \A s \in req.scopes : new[s] = req.offsets[s] + Cardinality(RowsOf(page, s))
    BY <1>8
  <2> HIDE DEF new
  <2>4. Continues(req, req.rows, page, new)
    BY <1>4, <1>6, <1>7, <1>a, <2>1, <2>2, <2>3, Merged
  <2> QED BY <2>4 DEF Continues
<1>10. \A s \in req.scopes : /\ req.offsets[s] \in Nat /\ from[s] \in Nat
                             /\ from[s] <= req.offsets[s]
  BY <1>6 DEF Exactly, ExactlyFrom
<1> HIDE DEF new
<1>11. \A s \in req.scopes : new[s] \in Nat /\ from[s] \in Nat /\ from[s] <= new[s]
  <2> SUFFICES ASSUME NEW s \in req.scopes PROVE new[s] \in Nat /\ from[s] <= new[s]
    BY <1>10
  <2> DEFINE o == req.offsets[s]
             c == Cardinality(RowsOf(page, s))
             f == from[s]
  <2>1. new[s] = o + c /\ o \in Nat /\ c \in Nat /\ f \in Nat /\ f <= o  BY <1>8, <1>10
  <2> HIDE DEF o, c, f
  <2>2. o + c \in Nat /\ f <= o + c  BY <2>1
  <2> QED BY <2>1, <2>2 DEF f
<1>12. Received' = got  BY <1>2, <1>3, CollectedRows
<1>13. /\ DOMAIN pages = 1..Len(pages) /\ Len(pages) \in Nat
       /\ req.scopes \subseteq allowed
       /\ \A i \in DOMAIN pages : pages[i].attempted = req.scopes
  BY <1>6, <1>7 DEF Exactly, ExactlyFrom
<1>14. CASE HasMore /\ req.limit = 0
  <2>1. pages' = pages /\ status' = "open" /\ Received' = Received
    BY <1>1, <1>4, <1>14 DEF Received
  <2>2. PagesOrdered'  BY <1>6, <2>1 DEF PagesOrdered
  <2>3. Received = got  BY <1>12, <2>1
  <2>4. Exactly(req.scopes, new)
    <3>1. CASE pages = <<>>  BY <1>7, <1>11, <1>13, <3>1, ExactlyBegins
    <3>2. CASE pages # <<>>
      <4>1. Base(new) = from  BY <3>2 DEF Base
      <4> HIDE DEF from, got
      <4> QED BY <1>9, <1>11, <1>13, <2>3, <4>1 DEF Exactly, ExactlyFrom
    <3> QED BY <3>1, <3>2
  <2>5. cursor'.data.scopes = req.scopes /\ cursor'.data.offsets = new  BY <1>4, <1>14
  <2>6. CursorExact'  BY <1>1, <2>1, <2>4, <2>5, CursorFrom
  <2> QED BY <1>1, <2>1, <2>2, <2>6 DEF RequestExact, Serving
<1>15. CASE ~(HasMore /\ req.limit = 0)
  <2> DEFINE scopes == req.scopes
  <2>1. pages' = Append(pages, PageOf(page))  BY <1>4, <1>15
  <2>2. /\ \A i \in DOMAIN pages' : (i \in DOMAIN pages /\ pages'[i] = pages[i])
                                    \/ (i = Len(pages) + 1 /\ pages'[i] = PageOf(page))
        /\ DOMAIN pages' = 1..(Len(pages) + 1) /\ pages' # <<>>
    BY <1>7, <2>1
  <2>3. \A i \in DOMAIN pages' : pages'[i].attempted = scopes
    BY <1>5, <1>13, <2>2
  <2>4. pages'[1].from = from
    <3>1. CASE pages = <<>>
      <4>1. pages'[1] = PageOf(page)  BY <2>1, <3>1
      <4> QED BY <1>5, <3>1, <4>1 DEF Base
    <3>2. CASE pages # <<>>
      <4>1. 1 \in DOMAIN pages /\ pages'[1] = pages[1]  BY <1>7, <2>1, <3>2
      <4> QED BY <3>2, <4>1 DEF Base
    <3> QED BY <3>1, <3>2
  <2>5. PagesOrdered'
    <3> SUFFICES ASSUME NEW i \in DOMAIN pages', NEW j \in DOMAIN pages', i < j,
                        NEW a \in pages'[i].rows, NEW b \in pages'[j].rows
                 PROVE  a[2] <= b[2]
      BY DEF PagesOrdered
    <3>1. i \in DOMAIN pages /\ pages'[i] = pages[i]
      <4>1. i # Len(pages) + 1  BY <1>13, <2>2
      <4> QED BY <2>2, <4>1
    <3>2. CASE j \in DOMAIN pages /\ pages'[j] = pages[j]
      BY <1>6, <3>1, <3>2 DEF PagesOrdered
    <3>3. CASE pages'[j] = PageOf(page)
      <4>1. a \in Received  BY <3>1 DEF Received
      <4>2. b \in page  BY <1>5, <3>3
      <4> QED BY <1>9, <4>1, <4>2
    <3> QED BY <2>2, <3>2, <3>3
  <2>6. CursorExact'
    <3>1. CASE cursor' = NoCursor  BY <3>1 DEF CursorExact
    <3>2. CASE cursor' # NoCursor
      <4>1. cursor'.data.scopes = scopes /\ cursor'.data.offsets = new  BY <1>4, <3>2
      <4>2. scopes \subseteq allowed  BY <1>13
      <4>3. /\ \A s \in scopes : new[s] \in Nat /\ from[s] \in Nat /\ from[s] <= new[s]
            /\ Received' = {b \in all : RankIn(b[2], vault[b[1]]) < new[b[1]]}
            /\ \A a \in Received', b \in all \ Received' : a[2] <= b[2]
        BY <1>9, <1>11, <1>12
      <4>4. all = ToShow(scopes, from)  OBVIOUS
      <4> HIDE DEF from, all, got, scopes
      <4> QED BY <1>1, <2>2, <2>3, <2>4, <4>1, <4>2, <4>3, <4>4, CursorAfter
    <3> QED BY <3>1, <3>2
  <2>7. ASSUME status' = "done" PROVE Complete'
    <3>1. ~HasMore  BY <1>1, <2>7
    <3>2. Cardinality(req.rows) <= req.limit
      <4>1. req.rows \in SUBSET Row  BY <1>4 DEF Request
      <4>2. Cardinality(req.rows) \in Nat  BY <4>1, RowsFinite
      <4> QED BY <1>2, <1>4, <3>1, <4>2 DEF HasMore
    <3>3. pages'[1].attempted = scopes
      <4>1. 1 \in DOMAIN pages'  BY <1>13, <2>2
      <4> QED BY <2>3, <4>1
    <3>4. Received' = all  BY <1>9, <1>12, <3>2
    <3> QED BY <1>1, <2>4, <3>3, <3>4 DEF Complete, ToShow
  <2> QED BY <1>1, <2>5, <2>6, <2>7 DEF RequestExact, Serving
<1> QED BY <1>14, <1>15

\* Every step of a listing that nothing disturbs keeps it exact.
LEMMA PInvStep ==
  ASSUME LimitsBelowMax, PInv, [Next]_vars
  PROVE  PInv'
<1> SUFFICES PagingInv'  BY RInvStep DEF PInv
<1>0. QInv  BY DEF PInv, RInv
<1>a. vault \in [Scopes -> SUBSET Ranks] /\ allowed \subseteq Scopes  BY <1>0, QTypes
<1>b. ~Undisturbed' => PagingInv'  BY DEF PagingInv
<1>c. \A f : EffectiveScopes(allowed, f) \subseteq allowed  BY DEF EffectiveScopes
<1>1. ASSUME NEW limit \in Limits, NEW f \in Filters, NEW start \in Starts,
             StartQuery(limit, f, start)
      PROVE  PagingInv'
  <2>1. /\ req = Idle /\ status = "open" /\ pages = <<>> /\ cursor = NoCursor
        /\ UNCHANGED <<vault, allowed, store, cursor, pages>>
    BY <1>1 DEF StartQuery, others
  <2>2. CASE start > MaxListOffset
    <3>1. req' = req /\ status' = "error" /\ upset' = upset  BY <1>1, <2>2 DEF StartQuery
    <3> QED BY <2>1, <3>1, PRest
  <2>3. CASE ~(start > MaxListOffset)
    <3> DEFINE scopes == EffectiveScopes(allowed, f)
               offsets == [s \in Scopes |-> start]
    <3>1. /\ req' = NewRequest("query", limit, scopes, offsets) /\ status' = "open"
          /\ start < 0 => "negative" \in upset'
      BY <1>1, <2>1, <2>3 DEF StartQuery
    <3>2. start \in Int  BY QueryAssumption
    <3>3. "query" \in Kinds /\ offsets \in Offsets  BY <3>2 DEF Kinds, Offsets
    <3>4. scopes \in SUBSET allowed /\ scopes \in SUBSET Scopes  BY <1>a, <1>c
    <3>5. ASSUME Undisturbed' PROVE Exactly(scopes, offsets)
      <4>1. ~(start < 0)  BY <3>1, <3>5 DEF Undisturbed
      <4>2. \A s \in scopes : offsets[s] \in Nat  BY <3>2, <3>4, <4>1
      <4> HIDE DEF scopes, offsets
      <4> QED BY <1>a, <2>1, <3>4, <4>2, ExactlyBegins
    <3>6. PagesOrdered /\ CursorExact  BY <2>1 DEF PagesOrdered, CursorExact
    <3> HIDE DEF scopes, offsets
    <3>7. req' # Idle  BY <1>0, <3>1, <3>3, <3>4, NewRequestType
    <3> QED BY <2>1, <3>1, <3>5, <3>6, <3>7, PStart
  <2> QED BY <2>2, <2>3
<1>2. ASSUME NEW k \in Kinds \ {"query"}, NEW limit \in Limits, NEW f \in Filters,
             StartSearch(k, limit, f)
      PROVE  PagingInv'
  <2> DEFINE l == IF k = "search" THEN limit ELSE PageLimit(limit)
             scopes == EffectiveScopes(allowed, f)
             offsets == [s \in Scopes |-> 0]
  <2>1. /\ pages = <<>> /\ cursor = NoCursor /\ req' = NewRequest(k, l, scopes, offsets)
        /\ status' = "open" /\ UNCHANGED <<vault, allowed, cursor, pages>>
    BY <1>2 DEF StartSearch, others
  <2>2. l \in Limits \cup {DefaultLimit}  BY DEF PageLimit
  <2>3. scopes \in SUBSET Scopes /\ offsets \in Offsets  BY <1>a, <1>c DEF Offsets
  <2>4. PagesOrdered /\ CursorExact  BY <2>1 DEF PagesOrdered, CursorExact
  <2> HIDE DEF l, scopes, offsets
  <2>5. req' # Idle  BY <1>0, <2>1, <2>2, <2>3, NewRequestType
  <2> QED BY <2>1, <2>4, <2>5, PStart
<1>3. ASSUME NEW limit \in Limits, NextQuery(limit) PROVE PagingInv'
  <2>1. /\ req = Idle /\ cursor # NoCursor /\ status = "open"
        /\ UNCHANGED <<vault, allowed, cursor, pages, upset>>
    BY <1>3 DEF NextQuery, others
  <2>2. CASE req' = req /\ status' = "error"  BY <2>1, <2>2, PRest
  <2>3. ASSUME NEW q \in DecodeCursor(cursor), status' = status,
               req' = NewRequest("query", limit, StickyScopes(q), q.offsets)
        PROVE  PagingInv'
    <3>1. q = cursor.data /\ q \in Payload  BY <1>0, <2>1, Decoded
    <3>2. q.offsets \in Offsets /\ StickyScopes(q) \in SUBSET Scopes /\ "query" \in Kinds
      BY <1>a, <3>1 DEF Payload, StickyScopes, Kinds
    <3>3. req' # Idle  BY <1>0, <2>3, <3>2, NewRequestType
    <3>4. Undisturbed' => PagesOrdered /\ CursorExact
      BY <2>1 DEF PInv, PagingInv, Undisturbed
    <3>5. ASSUME Undisturbed' PROVE Exactly(StickyScopes(q), q.offsets)
      <4>1. Exactly(q.scopes, q.offsets)  BY <2>1, <3>1, <3>4, <3>5 DEF CursorExact
      <4>2. StickyScopes(q) = q.scopes  BY <4>1 DEF StickyScopes, Exactly, ExactlyFrom
      <4> QED BY <4>1, <4>2
    <3> QED BY <2>1, <2>3, <3>3, <3>4, <3>5, PStart
  <2> QED BY <1>3, <2>2, <2>3 DEF NextQuery
<1>4. ASSUME NEW s \in Scopes, AnswerQuery(s) PROVE PagingInv'  BY <1>4, PAnswer
<1>5. ASSUME NEW s \in Scopes, AnswerSearch(s) PROVE PagingInv'  BY <1>5, PAnswerSearch
<1>6. CASE Collect  BY <1>6, PCollect
<1>7. CASE Panic \/ Unavailable  BY <1>7, PRest DEF Panic, Unavailable, others
<1>8. CASE MergeSearch  BY <1>8, PMerge
<1>9. ASSUME NEW s \in Scopes, NEW why, Failure(s, why) PROVE PagingInv'
  <2>1. "failed" \in upset'  BY <1>9 DEF Failure
  <2> QED BY <1>b, <2>1 DEF Undisturbed
<1>10. ASSUME NEW s \in Scopes, Refused(s) PROVE PagingInv'  BY <1>9, <1>10 DEF Refused
<1>11. ASSUME NEW s \in Scopes, NEW why, Fail(s, why) PROVE PagingInv'
  BY <1>9, <1>11 DEF Fail
<1>12. ASSUME NEW s \in Scopes, NEW p \in Ranks, OtherCreate(s, p) PROVE PagingInv'
  <2>1. "created" \in upset'  BY <1>12 DEF OtherCreate
  <2> QED BY <1>b, <2>1 DEF Undisturbed
<1>13. ASSUME NEW s \in Scopes, NEW p \in Ranks, NEW q \in Ranks, OtherUpdate(s, p, q)
       PROVE  PagingInv'
  <2>1. "updated" \in upset'  BY <1>13 DEF OtherUpdate
  <2> QED BY <1>b, <2>1 DEF Undisturbed
<1>14. ASSUME NEW s \in Scopes, NEW p \in Ranks, OtherDelete(s, p) PROVE PagingInv'
  <2>1. "removed" \in upset'  BY <1>14 DEF OtherDelete
  <2> QED BY <1>b, <2>1 DEF Undisturbed
<1>15. ASSUME NEW s \in Scopes, Revoke(s) PROVE PagingInv'
  <2>1. "revoked" \in upset'  BY <1>15 DEF Revoke
  <2> QED BY <1>b, <2>1 DEF Undisturbed
<1>16. ASSUME NEW h \in Handle, ExpireHandle(h) PROVE PagingInv'
  BY <1>16, PRest DEF ExpireHandle, others
<1>17. CASE Restart
  <2>1. /\ UNCHANGED <<vault, allowed, cursor, pages, upset>> /\ req' = Idle
        /\ status' = IF req = Idle THEN status ELSE "error"
    BY <1>17 DEF Restart
  <2>2. status = "open"  BY <1>17 DEF Restart, Meddle
  <2> QED BY <2>1, <2>2, PRest
<1>18. CASE UNCHANGED vars  BY <1>18, PRest DEF vars, others
<1> QED BY <1>1, <1>2, <1>3, <1>4, <1>5, <1>6, <1>7, <1>8, <1>10, <1>11, <1>12, <1>13, <1>14,
           <1>15, <1>16, <1>17, <1>18 DEF Next, Serve, Others

\* A listing that nothing disturbed and that ended shows every note of the scopes it
\* attempted, from the start offset of each on, once, in order, as long as a vault can
\* answer the row more that a listing asks for: the offsets per scope neither skip a
\* row at a page boundary nor end the listing early, whatever page sizes the client
\* mixes, zero among them (the merge of Query, its cut and newOffsets).
THEOREM PagingIsExact ==
  ASSUME LimitsBelowMax
  PROVE  Spec => []PagingExact
<1>1. Init => PInv
  <2>1. Init => PagingInv
    <3> SUFFICES ASSUME Init PROVE PagingInv  OBVIOUS
    <3>1. /\ cursor = NoCursor /\ req = Idle /\ pages = <<>> /\ status = "open"
      BY DEF Init
    <3> QED BY <3>1 DEF PagingInv, PagesOrdered, CursorExact, RequestExact, Serving
  <2> QED BY <2>1, RInvInit DEF PInv
<1>2. PInv /\ [Next]_vars => PInv'  BY PInvStep
<1>3. PInv => PagingExact
  <2> SUFFICES ASSUME PInv, status = "done", req = Idle, Undisturbed
               PROVE  /\ RepeatFree /\ PagesOrdered
                      /\ Received = {r \in Listed :
                           /\ r[1] \in pages[1].attempted
                           /\ RankIn(r[2], vault[r[1]]) >= pages[1].from[r[1]]}
    BY DEF PagingExact, PagesOrdered, Undisturbed
  <2>1. Clean  BY DEF Clean, Undisturbed
  <2>2. RepeatFree  BY <2>1, ApartRepeatFree DEF PInv, RInv, RepeatInv
  <2>3. PagesOrdered /\ Complete  BY DEF PInv, PagingInv
  <2> QED BY <2>2, <2>3 DEF Complete, ToShow, Listed
<1> QED BY <1>1, <1>2, <1>3, PTL DEF Spec

-----------------------------------------------------------------------------
(* Only what is allowed                                                    *)

\* A request asks scopes its caller could read when it was made.
Confined == req # Idle => req.scopes \subseteq req.allowed

AInv == QInv /\ Confined /\ OnlyAllowed

\* A page made of rows of the request shows only what was allowed.
LEMMA PageConfined ==
  ASSUME AInv, req # Idle, NEW found \in SUBSET req.rows
  PROVE  \A r \in PageOf(found).rows : r[1] \in PageOf(found).allowed
<1>1. /\ req.rows \subseteq req.asked \X Ranks /\ req.asked \subseteq req.scopes
      /\ req.scopes \subseteq req.allowed
  BY DEF AInv, Confined, QInv, ReqShape
<1> QED BY <1>1 DEF PageOf

\* The merge of a listing adds a page, that of a search is the only page.
LEMMA AMerge ==
  ASSUME AInv, Collect \/ MergeSearch
  PROVE  Confined' /\ OnlyAllowed'
<1>1. CASE Collect
  <2>1. req # Idle /\ req' = Idle  BY <1>1 DEF Collect, Answered
  <2>2. PICK page : Collected(page)  BY <1>1, CollectEffect DEF AInv
  <2>3. page \in SUBSET req.rows  BY <2>2 DEF Collected
  <2>4. \A r \in PageOf(page).rows : r[1] \in PageOf(page).allowed  BY <2>1, <2>3, PageConfined
  <2>5. pages \in Seq(Page)  BY QTypes DEF AInv
  <2>6. \A i \in DOMAIN pages' : pages'[i] = PageOf(page)
                                \/ (i \in DOMAIN pages /\ pages'[i] = pages[i])
    <3>1. pages' = pages \/ pages' = Append(pages, PageOf(page))  BY <2>2 DEF Collected
    <3> QED BY <2>5, <3>1
  <2>7. OnlyAllowed'
    <3> SUFFICES ASSUME NEW i \in DOMAIN pages', NEW r \in pages'[i].rows
                 PROVE  r[1] \in pages'[i].allowed
      BY DEF OnlyAllowed
    <3>1. CASE pages'[i] = PageOf(page)  BY <3>1, <2>4
    <3>2. CASE i \in DOMAIN pages /\ pages'[i] = pages[i]  BY <3>2 DEF AInv, OnlyAllowed
    <3> QED BY <2>6, <3>1, <3>2
  <2> QED BY <2>1, <2>7 DEF Confined
<1>2. CASE MergeSearch
  <2>1. req # Idle /\ req' = req  BY <1>2 DEF MergeSearch, Answered
  <2>2. PICK found \in IF req.kind = "backlinks" THEN {AllBacklinks(req)} ELSE BestMatches(req) :
          pages' = <<PageOf(found)>>
    BY <1>2 DEF MergeSearch
  <2>3. found \in SUBSET req.rows  BY DEF AllBacklinks, BestMatches, TopRows
  <2>4. \A r \in PageOf(found).rows : r[1] \in PageOf(found).allowed  BY <2>1, <2>3, PageConfined
  <2>5. OnlyAllowed'  BY <2>2, <2>4 DEF OnlyAllowed
  <2> QED BY <2>1, <2>5 DEF AInv, Confined
<1> QED BY <1>1, <1>2

\* A step that answers nothing keeps what was answered; its request is a new one of
\* allowed scopes, or asks what it asked.
LEMMA ARest ==
  ASSUME AInv, UNCHANGED pages,
         \/ req' = Idle
         \/ req'.scopes \subseteq req'.allowed
         \/ req # Idle /\ req'.scopes = req.scopes /\ req'.allowed = req.allowed
  PROVE  Confined' /\ OnlyAllowed'
BY DEF AInv, Confined, OnlyAllowed

\* Every step keeps to the scopes that are allowed.
LEMMA AInvStep == AInv /\ [Next]_vars => AInv'
<1> SUFFICES ASSUME AInv, [Next]_vars PROVE Confined' /\ OnlyAllowed'
  BY QInvStep DEF AInv
<1>0. QInv  BY DEF AInv
<1>1. ASSUME UNCHANGED pages, NEW kind, NEW limit, NEW offsets, NEW scopes \in SUBSET allowed,
             req' = NewRequest(kind, limit, scopes, offsets)
      PROVE  Confined' /\ OnlyAllowed'
  <2>1. req'.scopes \subseteq req'.allowed  BY <1>1 DEF NewRequest
  <2> QED BY <1>1, <2>1, ARest
<1>2. ASSUME UNCHANGED pages, req' \in {req, Idle} PROVE Confined' /\ OnlyAllowed'
  BY <1>2, ARest
<1>3. ASSUME NEW limit \in Limits, NEW f \in Filters, NEW start \in Starts,
             StartQuery(limit, f, start)
      PROVE  Confined' /\ OnlyAllowed'
  <2>1. UNCHANGED pages  BY <1>3 DEF StartQuery
  <2>2. CASE req' = req  BY <1>2, <2>1, <2>2
  <2>3. CASE req' = NewRequest("query", limit, EffectiveScopes(allowed, f),
                               [s \in Scopes |-> start])
    BY <1>1, <2>1, <2>3 DEF EffectiveScopes
  <2> QED BY <1>3, <2>2, <2>3 DEF StartQuery
<1>4. ASSUME NEW k, NEW limit \in Limits, NEW f \in Filters, StartSearch(k, limit, f)
      PROVE  Confined' /\ OnlyAllowed'
  BY <1>1, <1>4 DEF StartSearch, EffectiveScopes
<1>5. ASSUME NEW limit \in Limits, NextQuery(limit) PROVE Confined' /\ OnlyAllowed'
  <2>1. UNCHANGED pages  BY <1>5 DEF NextQuery
  <2>2. CASE req' = req  BY <1>2, <2>1, <2>2
  <2>3. ASSUME NEW p, req' = NewRequest("query", limit, StickyScopes(p), p.offsets)
        PROVE  Confined' /\ OnlyAllowed'
    BY <1>1, <2>1, <2>3 DEF StickyScopes
  <2> QED BY <1>5, <2>2, <2>3 DEF NextQuery
<1>6. ASSUME NEW s \in Scopes, AnswerQuery(s) \/ AnswerSearch(s)
      PROVE  Confined' /\ OnlyAllowed'
  <2>1. PICK rows \in SUBSET Ranks, hits \in SUBSET Ranks : Reply(s, rows, hits)
    BY <1>0, <1>6, AnswerReplies
  <2>2. req # Idle /\ UNCHANGED pages  BY <2>1 DEF Reply
  <2>3. req'.scopes = req.scopes /\ req'.allowed = req.allowed  BY <1>0, <2>1, ReplyEffect
  <2> QED BY <2>2, <2>3, ARest
<1>7. CASE Collect \/ MergeSearch  BY <1>7, AMerge
<1>8. CASE Panic \/ Unavailable  BY <1>2, <1>8 DEF Panic, Unavailable
<1>9. ASSUME NEW s \in Scopes, NEW why \in Outcome, Failure(s, why)
      PROVE  Confined' /\ OnlyAllowed'
  <2>1. req # Idle /\ UNCHANGED pages  BY <1>9 DEF Failure
  <2>2. req'.scopes = req.scopes /\ req'.allowed = req.allowed  BY <1>0, <1>9, FailureEffect
  <2> QED BY <2>1, <2>2, ARest
<1>10. ASSUME NEW s \in Scopes, Refused(s) PROVE Confined' /\ OnlyAllowed'
  BY <1>9, <1>10 DEF Refused, Outcome
<1>11. ASSUME NEW s \in Scopes, NEW why \in Outcome, Fail(s, why) PROVE Confined' /\ OnlyAllowed'
  BY <1>9, <1>11 DEF Fail
<1>12. ASSUME NEW s \in Scopes, NEW notes, Change(s, notes) PROVE Confined' /\ OnlyAllowed'
  BY <1>2, <1>12 DEF Change
<1>13. ASSUME NEW s \in Scopes, NEW p \in Ranks, NEW q \in Ranks,
              OtherCreate(s, p) \/ OtherUpdate(s, p, q) \/ OtherDelete(s, p)
       PROVE  Confined' /\ OnlyAllowed'
  BY <1>12, <1>13 DEF OtherCreate, OtherUpdate, OtherDelete
<1>14. ASSUME NEW s \in Scopes, Revoke(s) PROVE Confined' /\ OnlyAllowed'
  BY <1>2, <1>14 DEF Revoke
<1>15. ASSUME NEW h \in Handle, ExpireHandle(h) PROVE Confined' /\ OnlyAllowed'
  BY <1>2, <1>15 DEF ExpireHandle
<1>16. CASE Restart  BY <1>2, <1>16 DEF Restart
<1>17. CASE UNCHANGED vars  BY <1>2, <1>17 DEF vars
<1> QED BY <1>3, <1>4, <1>5, <1>6, <1>7, <1>8, <1>10, <1>11, <1>12, <1>13, <1>14, <1>15, <1>16, <1>17
        DEF Next, Serve, Others

\* The rows of an answer belong to scopes the caller was allowed to read when the
\* request was made, whatever scopes its cursor was issued for and whichever were
\* revoked, restarted or failed since (resolveScopesAndOffsets).
THEOREM AnswersConfined == Spec => []OnlyAllowed
<1>1. Init => AInv
  <2>1. Init => Confined  BY DEF Init, Confined
  <2>2. Init => OnlyAllowed
    <3> SUFFICES ASSUME Init PROVE OnlyAllowed  OBVIOUS
    <3>1. pages = <<>>  BY DEF Init
    <3> QED BY <3>1 DEF OnlyAllowed
  <2> QED BY <2>1, <2>2, QInvInit DEF AInv
<1>2. AInv => OnlyAllowed  BY DEF AInv
<1> QED BY <1>1, <1>2, AInvStep, PTL DEF Spec

=============================================================================
