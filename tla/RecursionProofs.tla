--------------------------- MODULE RecursionProofs --------------------------
(***************************************************************************)
(* Induction and recursion: functions defined by recursion on a rank, and  *)
(* sums over finite sets (what MapThenSumSet of FiniteSetsExt computes for *)
(* values given by a function v).  The inductions are over sets of natural *)
(* numbers, by way of their least elements.                                *)
(***************************************************************************)
EXTENDS Integers, FiniteSets, SetSums, FiniteSetTheorems, WellFoundedInduction, TLAPS

LEMMA Least ==
  ASSUME NEW S \in SUBSET Nat, S # {} PROVE \E m \in S : \A n \in S : m <= n
  <1>1. PICK m \in S : \A n \in S : <<n, m>> \notin OpToRel(<, Nat)
    BY Zenon, WFMin, NatLessThanWellFounded
  <1>2. \A n \in S : ~(n < m)
    BY <1>1, Zenon DEF OpToRel
  <1>3. QED BY <1>2

LEMMA NatSetInduction ==
  ASSUME NEW S \in SUBSET Nat, 0 \in S, \A n \in S : n + 1 \in S PROVE S = Nat
  <1>1. SUFFICES ASSUME Nat \ S # {} PROVE FALSE
    OBVIOUS
  <1>2. PICK m \in Nat \ S : \A n \in Nat \ S : m <= n
    BY <1>1, Least
  <1>3. m - 1 \in Nat /\ m - 1 \in S
    BY <1>2
  <1>4. QED BY <1>2, <1>3

(* Counting up to n.                                                       *)
LEMMA UpTo ==
  ASSUME NEW n \in Nat, NEW P, 0 \in P, \A k \in P : k \in 0..(n - 1) => k + 1 \in P
  PROVE  0..n \subseteq P
  <1> DEFINE Q == {k \in Nat : k <= n => k \in P}
  <1>1. 0 \in Q  OBVIOUS
  <1>2. ASSUME NEW k \in Q PROVE k + 1 \in Q
    BY <1>2
  <1>3. Q \in SUBSET Nat  OBVIOUS
  <1> HIDE DEF Q
  <1>4. Q = Nat  BY <1>1, <1>2, <1>3, NatSetInduction
  <1>5. \A k \in 0..n : k \in Nat /\ k <= n  OBVIOUS
  <1> QED BY <1>4, <1>5 DEF Q

(* Induction on a rank.                                                    *)
LEMMA RankInduction ==
  ASSUME NEW D, NEW rank \in [D -> Nat], NEW P,
         \A x \in D : (\A y \in D : rank[y] < rank[x] => y \in P) => x \in P
  PROVE  D \subseteq P
  <1> DEFINE Q == {m \in Nat : \A x \in D : rank[x] < m => x \in P}
  <1>1. 0 \in Q  OBVIOUS
  <1>2. ASSUME NEW m \in Q PROVE m + 1 \in Q
    <2>1. SUFFICES ASSUME NEW x \in D, rank[x] < m + 1 PROVE x \in P
      BY <1>2
    <2>2. \A y \in D : rank[y] < rank[x] => y \in P  BY <1>2, <2>1
    <2> QED BY <2>2
  <1>3. Q = Nat
    <2>1. Q \in SUBSET Nat  OBVIOUS
    <2> HIDE DEF Q
    <2> QED BY <1>1, <1>2, <2>1, NatSetInduction
  <1>4. ASSUME NEW x \in D PROVE x \in P
    <2>1. rank[x] + 1 \in Q /\ rank[x] < rank[x] + 1  BY <1>3
    <2> QED BY <2>1
  <1> QED BY <1>4

(* A recursive function exists when each value depends on values of lower  *)
(* rank only: H[x][g] is the value at x if g gives the values below.       *)
Ranked(D, S, rank, H) ==
  /\ S # {} /\ rank \in [D -> Nat]
  /\ \A x \in D : \A g \in [D -> S] : H[x][g] \in S
  /\ \A x \in D : \A g, h \in [D -> S] :
        (\A y \in D : rank[y] < rank[x] => g[y] = h[y]) => H[x][g] = H[x][h]
Solves(D, S, H, f) == f \in [D -> S] /\ \A x \in D : f[x] = H[x][f]

(* A function defined by recursion on a rank exists.                       *)
LEMMA RankRecursion ==
  ASSUME NEW D, NEW S, NEW rank, NEW H, Ranked(D, S, rank, H)
  PROVE  \E f : Solves(D, S, H, f)
  <1>r. /\ S # {} /\ rank \in [D -> Nat]
        /\ \A x \in D : \A g \in [D -> S] : H[x][g] \in S
        /\ \A x \in D : \A g, h \in [D -> S] :
              (\A y \in D : rank[y] < rank[x] => g[y] = h[y]) => H[x][g] = H[x][h]
    BY DEF Ranked
  <1> DEFINE Good(g, m) == g \in [D -> S] /\ \A x \in D : rank[x] < m => g[x] = H[x][g]
             Have == {m \in Nat : \E g : Good(g, m)}
             Same == {m \in Nat : \A g, h : Good(g, m) /\ Good(h, m) =>
                                      \A x \in D : rank[x] < m => g[x] = h[x]}
  <1>1. Have = Nat
    <2>1. 0 \in Have
      <3>1. PICK s \in S : TRUE  BY <1>r
      <3>2. Good([x \in D |-> s], 0)  BY <1>r
      <3> QED BY <3>2
    <2>2. ASSUME NEW m \in Have PROVE m + 1 \in Have
      <3>1. PICK g : Good(g, m)  BY <2>2
      <3> DEFINE h == [x \in D |-> H[x][g]]
      <3>2. h \in [D -> S]  BY <1>r, <3>1
      <3>3. \A y \in D : rank[y] < m => g[y] = h[y]  BY <3>1
      <3>4. ASSUME NEW x \in D, rank[x] < m + 1 PROVE h[x] = H[x][h]
        <4>1. \A y \in D : rank[y] < rank[x] => g[y] = h[y]  BY <1>r, <2>2, <3>3, <3>4
        <4>2. H[x][g] = H[x][h]  BY <1>r, <3>1, <3>2, <4>1
        <4> QED BY <4>2
      <3>5. Good(h, m + 1) /\ m + 1 \in Nat  BY <2>2, <3>2, <3>4
      <3> HIDE DEF Good, h
      <3> QED BY <3>5
    <2> QED BY <2>1, <2>2, NatSetInduction
  <1>2. Same = Nat
    <2>1. 0 \in Same  BY <1>r
    <2>2. ASSUME NEW m \in Same PROVE m + 1 \in Same
      <3>1. SUFFICES ASSUME NEW g, NEW h, Good(g, m + 1), Good(h, m + 1),
                            NEW x \in D, rank[x] < m + 1
                     PROVE  g[x] = h[x]
        BY <2>2
      <3>2. Good(g, m) /\ Good(h, m)  BY <1>r, <2>2, <3>1
      <3>3. \A y \in D : rank[y] < m => g[y] = h[y]  BY <2>2, <3>2
      <3>4. \A y \in D : rank[y] < rank[x] => g[y] = h[y]  BY <1>r, <2>2, <3>1, <3>3
      <3>5. H[x][g] = H[x][h]  BY <1>r, <3>1, <3>4
      <3> QED BY <3>1, <3>5
    <2> QED BY <2>1, <2>2, NatSetInduction
  <1> DEFINE G(m) == CHOOSE g : Good(g, m)
             f == [x \in D |-> G(rank[x] + 1)[x]]
  <1>3. \A m \in Nat : Good(G(m), m)  BY <1>1, Zenon
  <1> HIDE DEF G
  <1>4. ASSUME NEW m \in Nat, NEW x \in D, rank[x] < m PROVE f[x] = G(m)[x]
    <2>1. rank[x] + 1 \in Nat  BY <1>r
    <2>2. Good(G(m), rank[x] + 1)  BY <1>r, <1>3, <1>4
    <2>3. Good(G(rank[x] + 1), rank[x] + 1)  BY <1>3, <2>1
    <2>4. G(rank[x] + 1)[x] = G(m)[x]  BY <1>r, <1>2, <2>1, <2>2, <2>3
    <2> QED BY <2>4
  <1>5. f \in [D -> S]
    <2>1. \A x \in D : rank[x] + 1 \in Nat  BY <1>r
    <2> QED BY <1>3, <2>1
  <1>6. ASSUME NEW x \in D PROVE f[x] = H[x][f]
    <2> DEFINE g == G(rank[x] + 1)
    <2>1. rank[x] + 1 \in Nat  BY <1>r
    <2>2. Good(g, rank[x] + 1)  BY <1>3, <2>1
    <2>3. g[x] = H[x][g]  BY <1>r, <2>2
    <2>4. \A y \in D : rank[y] < rank[x] => f[y] = g[y]  BY <1>r, <1>4, <2>1
    <2>5. H[x][f] = H[x][g]  BY <1>r, <1>5, <2>2, <2>4
    <2>6. f[x] = g[x]  BY <1>r, <1>4, <2>1
    <2> QED BY <2>3, <2>5, <2>6
  <1> QED BY <1>5, <1>6 DEF Solves

-----------------------------------------------------------------------------
(* Induction over the subsets of a finite set.                             *)
LEMMA SubsetInduction ==
  ASSUME NEW S, IsFiniteSet(S), NEW P \in SUBSET (SUBSET S), {} \in P,
         \A T \in P : \A x \in S \ T : T \cup {x} \in P
  PROVE  P = SUBSET S
  <1> DEFINE N == { n \in Nat : \A T \in SUBSET S : Cardinality(T) = n => T \in P }
  <1>1. \A T \in SUBSET S : IsFiniteSet(T) /\ Cardinality(T) \in Nat
    BY FS_Subset, FS_CardinalityType
  <1>2. 0 \in N
    BY <1>1, FS_EmptySet
  <1>3. ASSUME NEW n \in N PROVE n + 1 \in N
    <2>1. n \in Nat /\ n + 1 \in Nat  OBVIOUS
    <2>2. SUFFICES ASSUME NEW T \in SUBSET S, Cardinality(T) = n + 1 PROVE T \in P
      BY <2>1
    <2>3. T # {}
      <3>1. Cardinality({}) = 0  BY FS_EmptySet
      <3>2. QED BY <2>1, <2>2, <3>1
    <2>4. PICK x \in T : TRUE  BY <2>3
    <2>5. Cardinality(T \ {x}) = n
      <3>1. IsFiniteSet(T) BY <1>1
      <3>2. Cardinality(T \ {x}) = Cardinality(T) - 1  BY <3>1, FS_RemoveElement
      <3>3. QED BY <2>1, <2>2, <3>2
    <2>6. T \ {x} \in P  BY <2>5, <1>3
    <2>7. T = (T \ {x}) \cup {x} /\ x \in S \ (T \ {x})
      OBVIOUS
    <2>8. QED BY <2>6, <2>7
  <1> HIDE DEF N
  <1>4. N = Nat
    <2>1. N \in SUBSET Nat  BY DEF N
    <2>2. QED BY <1>2, <1>3, <2>1, NatSetInduction
  <1>5. QED BY <1>1, <1>4 DEF N

-----------------------------------------------------------------------------
Pick(s) == CHOOSE x \in s : TRUE

(* The recursion that MapThenSumSet solves.                                *)
SumsUp(g, S, v) ==
  g = [s \in SUBSET S |-> IF s = {} THEN 0 ELSE v[Pick(s)] + g[s \ {Pick(s)}]]

Small(S, n) == { s \in SUBSET S : Cardinality(s) <= n }
SumsUpTo(g, S, v, n) ==
  g = [s \in Small(S, n) |-> IF s = {} THEN 0 ELSE v[Pick(s)] + g[s \ {Pick(s)}]]

LEMMA Picked == ASSUME NEW s, s # {} PROVE Pick(s) \in s
  BY DEF Pick

LEMMA SumsUpExists ==
  ASSUME NEW S, IsFiniteSet(S), NEW v PROVE \E g : SumsUp(g, S, v)
  <1> DEFINE N == { n \in Nat : \E g : SumsUpTo(g, S, v, n) }
  <1>1. \A T \in SUBSET S : IsFiniteSet(T) /\ Cardinality(T) \in Nat
                            /\ (T = {} <=> Cardinality(T) = 0)
    BY FS_Subset, FS_CardinalityType, FS_EmptySet
  <1>2. 0 \in N
    <2>1. \A s \in Small(S, 0) : s = {}  BY <1>1 DEF Small
    <2>2. SumsUpTo([s \in Small(S, 0) |-> 0], S, v, 0)
      BY <2>1 DEF SumsUpTo
    <2>3. QED BY <2>2
  <1>3. ASSUME NEW n \in N PROVE n + 1 \in N
    <2>1. n \in Nat /\ n + 1 \in Nat  OBVIOUS
    <2>2. PICK g : SumsUpTo(g, S, v, n)  OBVIOUS
    <2> DEFINE h == [s \in Small(S, n + 1) |->
                       IF s = {} THEN 0 ELSE v[Pick(s)] + g[s \ {Pick(s)}]]
    <2>3. \A s \in Small(S, n + 1) : s # {} => s \ {Pick(s)} \in Small(S, n)
      <3>1. TAKE s \in Small(S, n + 1)
      <3>2. HAVE s # {}
      <3>3. Cardinality(s \ {Pick(s)}) = Cardinality(s) - 1
        BY <1>1, <3>2, Picked, FS_RemoveElement DEF Small
      <3>4. QED BY <1>1, <2>1, <3>3 DEF Small
    <2>4. Small(S, n) \subseteq Small(S, n + 1)
      BY <1>1, <2>1 DEF Small
    <2>5. \A s \in Small(S, n) : h[s] = g[s]
      BY <2>2, <2>4 DEF SumsUpTo
    <2>6. SumsUpTo(h, S, v, n + 1)
      <3>1. \A s \in Small(S, n + 1) : s # {} => h[s \ {Pick(s)}] = g[s \ {Pick(s)}]
        BY <2>3, <2>5
      <3>2. h = [s \in Small(S, n + 1) |-> IF s = {} THEN 0 ELSE v[Pick(s)] + h[s \ {Pick(s)}]]
        BY <3>1
      <3>3. QED BY <3>2 DEF SumsUpTo
    <2>7. QED BY <2>1, <2>6
  <1> HIDE DEF N
  <1>4. N = Nat
    <2>1. N \in SUBSET Nat  BY DEF N
    <2>2. QED BY <1>2, <1>3, <2>1, NatSetInduction
  <1>5. PICK g : SumsUpTo(g, S, v, Cardinality(S))
    BY <1>1, <1>4 DEF N
  <1>6. Small(S, Cardinality(S)) = SUBSET S
    BY FS_Subset DEF Small
  <1>7. SumsUp(g, S, v)
    BY <1>5, <1>6 DEF SumsUp, SumsUpTo
  <1>8. QED BY <1>7

LEMMA SumsUpUnique ==
  ASSUME NEW S, IsFiniteSet(S), NEW T, IsFiniteSet(T), NEW v, NEW w, NEW g, NEW h,
         SumsUp(g, S, v), SumsUp(h, T, w), \A x \in S \cap T : v[x] = w[x]
  PROVE  \A U \in SUBSET (S \cap T) : g[U] = h[U]
  <1> DEFINE N == { n \in Nat : \A U \in SUBSET (S \cap T) : Cardinality(U) = n => g[U] = h[U] }
  <1>1. \A U \in SUBSET (S \cap T) : /\ IsFiniteSet(U) /\ Cardinality(U) \in Nat
                                     /\ (U = {} <=> Cardinality(U) = 0)
    BY FS_Subset, FS_CardinalityType, FS_EmptySet
  <1>2. \A U \in SUBSET (S \cap T) :
          /\ g[U] = IF U = {} THEN 0 ELSE v[Pick(U)] + g[U \ {Pick(U)}]
          /\ h[U] = IF U = {} THEN 0 ELSE w[Pick(U)] + h[U \ {Pick(U)}]
    BY DEF SumsUp
  <1>3. 0 \in N
    BY <1>1, <1>2
  <1>4. ASSUME NEW n \in N PROVE n + 1 \in N
    <2>1. n \in Nat /\ n + 1 \in Nat  OBVIOUS
    <2>2. SUFFICES ASSUME NEW U \in SUBSET (S \cap T), Cardinality(U) = n + 1 PROVE g[U] = h[U]
      BY <2>1
    <2>3. U # {}  BY <1>1, <2>1, <2>2
    <2>4. Pick(U) \in U  BY <2>3, Picked
    <2>5. Cardinality(U \ {Pick(U)}) = Cardinality(U) - 1
      BY <1>1, <2>4, FS_RemoveElement
    <2>6. Cardinality(U \ {Pick(U)}) = n  BY <2>1, <2>2, <2>5
    <2>7. g[U \ {Pick(U)}] = h[U \ {Pick(U)}]
      BY <2>6
    <2>8. QED BY <1>2, <2>3, <2>4, <2>7
  <1> HIDE DEF N
  <1>5. N = Nat
    <2>1. N \in SUBSET Nat  BY DEF N
    <2>2. QED BY <1>3, <1>4, <2>1, NatSetInduction
  <1>6. QED BY <1>1, <1>5 DEF N

LEMMA SumIs ==
  ASSUME NEW S, IsFiniteSet(S), NEW v
  PROVE  \E g : SumsUp(g, S, v) /\ Sum(v, S) = g[S]
  <1> DEFINE g == CHOOSE f : SumsUp(f, S, v)
  <1>1. SumsUp(g, S, v)
    BY SumsUpExists, Zenon
  <1>2. Sum(v, S) = g[S]
    BY Zenon DEF Sum, MapThenSumSet, MapThenFoldSet, SumsUp, Pick
  <1> HIDE DEF g
  <1>3. QED BY <1>1, <1>2

LEMMA SumAgrees ==
  ASSUME NEW S, IsFiniteSet(S), NEW T \in SUBSET S, NEW v, NEW g, SumsUp(g, S, v)
  PROVE  Sum(v, T) = g[T]
  <1>1. IsFiniteSet(T)  BY FS_Subset
  <1>2. PICK h : SumsUp(h, T, v) /\ Sum(v, T) = h[T]
    BY <1>1, SumIs
  <1>3. \A U \in SUBSET (T \cap S) : h[U] = g[U]
    BY <1>1, <1>2, SumsUpUnique
  <1>4. QED BY <1>2, <1>3

(* The sum depends on the values of the elements only.                     *)
LEMMA SumSame ==
  ASSUME NEW S, IsFiniteSet(S), NEW v, NEW w, \A x \in S : v[x] = w[x]
  PROVE  Sum(v, S) = Sum(w, S)
  <1>1. PICK g : SumsUp(g, S, v) /\ Sum(v, S) = g[S]
    BY SumIs
  <1>2. PICK h : SumsUp(h, S, w) /\ Sum(w, S) = h[S]
    BY SumIs
  <1>3. \A U \in SUBSET (S \cap S) : g[U] = h[U]
    BY <1>1, <1>2, SumsUpUnique
  <1>4. QED BY <1>1, <1>2, <1>3

LEMMA SumEmpty == ASSUME NEW v PROVE Sum(v, {}) = 0
  <1>1. PICK g : SumsUp(g, {}, v) /\ Sum(v, {}) = g[{}]
    BY SumIs, FS_EmptySet
  <1>2. QED BY <1>1 DEF SumsUp

(* One step of the recursion.                                              *)
LEMMA SumPick ==
  ASSUME NEW S, IsFiniteSet(S), S # {}, NEW v
  PROVE  Sum(v, S) = v[Pick(S)] + Sum(v, S \ {Pick(S)})
  <1>1. PICK g : SumsUp(g, S, v) /\ Sum(v, S) = g[S]
    BY SumIs
  <1>2. g[S] = v[Pick(S)] + g[S \ {Pick(S)}]
    BY <1>1 DEF SumsUp
  <1>3. QED BY <1>1, <1>2, SumAgrees

LEMMA SumType ==
  ASSUME NEW S, IsFiniteSet(S), NEW v, \A x \in S : v[x] \in Int
  PROVE  Sum(v, S) \in Int
  <1> DEFINE N == { n \in Nat : \A U \in SUBSET S : Cardinality(U) = n => Sum(v, U) \in Int }
  <1>1. \A U \in SUBSET S : /\ IsFiniteSet(U) /\ Cardinality(U) \in Nat
                            /\ (U = {} <=> Cardinality(U) = 0)
    BY FS_Subset, FS_CardinalityType, FS_EmptySet
  <1>2. 0 \in N
    <2>1. SUFFICES ASSUME NEW U \in SUBSET S, Cardinality(U) = 0 PROVE Sum(v, U) \in Int
      OBVIOUS
    <2>2. U = {}  BY <1>1, <2>1
    <2>3. QED BY <2>2, SumEmpty
  <1>3. ASSUME NEW n \in N PROVE n + 1 \in N
    <2>1. n \in Nat /\ n + 1 \in Nat  OBVIOUS
    <2>2. SUFFICES ASSUME NEW U \in SUBSET S, Cardinality(U) = n + 1 PROVE Sum(v, U) \in Int
      BY <2>1
    <2>3. U # {}  BY <1>1, <2>1, <2>2
    <2>4. Pick(U) \in U  BY <2>3, Picked
    <2>5. Cardinality(U \ {Pick(U)}) = Cardinality(U) - 1
      BY <1>1, <2>4, FS_RemoveElement
    <2>6. Cardinality(U \ {Pick(U)}) = n  BY <2>1, <2>2, <2>5
    <2>7. Sum(v, U \ {Pick(U)}) \in Int
      BY <2>6
    <2>8. Sum(v, U) = v[Pick(U)] + Sum(v, U \ {Pick(U)})
      BY <1>1, <2>3, SumPick
    <2>9. QED BY <2>4, <2>7, <2>8
  <1> HIDE DEF N
  <1>4. N = Nat
    <2>1. N \in SUBSET Nat  BY DEF N
    <2>2. QED BY <1>2, <1>3, <2>1, NatSetInduction
  <1>5. QED BY <1>1, <1>4 DEF N

(* Any element may be taken out first.                                     *)
LEMMA SumTake ==
  ASSUME NEW S, IsFiniteSet(S), NEW v, \A x \in S : v[x] \in Int
  PROVE  \A x \in S : Sum(v, S) = v[x] + Sum(v, S \ {x})
  <1> DEFINE N == { n \in Nat : \A U \in SUBSET S : Cardinality(U) = n =>
                       \A x \in U : Sum(v, U) = v[x] + Sum(v, U \ {x}) }
  <1>1. \A U \in SUBSET S : /\ IsFiniteSet(U) /\ Cardinality(U) \in Nat
                            /\ (U = {} <=> Cardinality(U) = 0)
    BY FS_Subset, FS_CardinalityType, FS_EmptySet
  <1>2. 0 \in N
    BY <1>1
  <1>3. ASSUME NEW n \in N PROVE n + 1 \in N
    <2>1. n \in Nat /\ n + 1 \in Nat  OBVIOUS
    <2>2. SUFFICES ASSUME NEW U \in SUBSET S, Cardinality(U) = n + 1, NEW x \in U
                   PROVE  Sum(v, U) = v[x] + Sum(v, U \ {x})
      BY <2>1
    <2> DEFINE p == Pick(U)
    <2>4. p \in U  BY Picked
    <2>3. IsFiniteSet(U) /\ U # {}  BY <1>1
    <2>5. Sum(v, U) = v[p] + Sum(v, U \ {p})
      BY <2>3, SumPick
    <2>6. Cardinality(U \ {p}) = Cardinality(U) - 1 /\ Cardinality(U \ {x}) = Cardinality(U) - 1
      BY <2>3, <2>4, FS_RemoveElement
    <2> HIDE DEF p
    <2>7. CASE x = p
      BY <2>5, <2>7
    <2>8. CASE x # p
      <3>1. Cardinality(U \ {p}) = n /\ Cardinality(U \ {x}) = n  BY <2>1, <2>2, <2>6
      <3>2. Sum(v, U \ {p}) = v[x] + Sum(v, (U \ {p}) \ {x})
        BY <2>8, <3>1
      <3>3. Sum(v, U \ {x}) = v[p] + Sum(v, (U \ {x}) \ {p})
        BY <2>4, <2>8, <3>1
      <3>4. (U \ {p}) \ {x} = (U \ {x}) \ {p}  OBVIOUS
      <3>5. v[x] \in Int /\ v[p] \in Int  BY <2>4
      <3>6. Sum(v, (U \ {p}) \ {x}) \in Int
        <4>1. IsFiniteSet((U \ {p}) \ {x})  BY <2>3, FS_RemoveElement
        <4>2. QED BY <4>1, SumType
      <3>7. Sum(v, U \ {x}) = v[p] + Sum(v, (U \ {p}) \ {x})
        BY <3>3, <3>4, Zenon
      <3>8. \A a, b, c \in Int : a + (b + c) = b + (a + c)
        OBVIOUS
      <3>9. Sum(v, U) = v[p] + (v[x] + Sum(v, (U \ {p}) \ {x}))
        BY <2>5, <3>2, Zenon
      <3>10. Sum(v, U) = v[x] + (v[p] + Sum(v, (U \ {p}) \ {x}))
        BY <3>5, <3>6, <3>8, <3>9, Zenon
      <3>11. QED BY <3>7, <3>10, Zenon
    <2>9. QED BY <2>7, <2>8
  <1> HIDE DEF N
  <1>4. N = Nat
    <2>1. N \in SUBSET Nat  BY DEF N
    <2>2. QED BY <1>2, <1>3, <2>1, NatSetInduction
  <1>5. QED BY <1>1, <1>4 DEF N

LEMMA SumAdd ==
  ASSUME NEW S, IsFiniteSet(S), NEW v, NEW x, x \notin S, \A y \in S \cup {x} : v[y] \in Int
  PROVE  Sum(v, S \cup {x}) = Sum(v, S) + v[x]
  <1>1. IsFiniteSet(S \cup {x})  BY FS_AddElement
  <1>2. Sum(v, S \cup {x}) = v[x] + Sum(v, (S \cup {x}) \ {x})
    BY <1>1, SumTake
  <1>3. (S \cup {x}) \ {x} = S  OBVIOUS
  <1>4. Sum(v, S \cup {x}) = v[x] + Sum(v, S)  BY <1>2, <1>3, Zenon
  <1>5. Sum(v, S) \in Int /\ v[x] \in Int  BY SumType
  <1>6. \A a, b \in Int : a + b = b + a  OBVIOUS
  <1>7. QED BY <1>4, <1>5, <1>6, Zenon

LEMMA SumDisjoint ==
  ASSUME NEW S, IsFiniteSet(S), NEW T, IsFiniteSet(T), S \cap T = {}, NEW v,
         \A x \in S \cup T : v[x] \in Int
  PROVE  Sum(v, S \cup T) = Sum(v, S) + Sum(v, T)
  <1> DEFINE P == { U \in SUBSET T : Sum(v, S \cup U) = Sum(v, S) + Sum(v, U) }
  <1>1. {} \in P
    <2>1. Sum(v, S) \in Int  BY SumType
    <2>2. S \cup {} = S  OBVIOUS
    <2>3. QED BY <2>1, <2>2, SumEmpty
  <1>2. ASSUME NEW U \in P, NEW x \in T \ U PROVE U \cup {x} \in P
    <2>1. IsFiniteSet(U) /\ IsFiniteSet(S \cup U)  BY FS_Subset, FS_Union
    <2> DEFINE W == S \cup U
    <2>a. /\ x \notin U /\ \A y \in U \cup {x} : v[y] \in Int
          /\ x \notin W /\ \A y \in W \cup {x} : v[y] \in Int
      OBVIOUS
    <2>b. IsFiniteSet(U) /\ IsFiniteSet(W)  BY <2>1
    <2> HIDE DEF W
    <2>c. Sum(v, U \cup {x}) = Sum(v, U) + v[x]  BY <2>a, <2>b, SumAdd
    <2>d. Sum(v, W \cup {x}) = Sum(v, W) + v[x]  BY <2>a, <2>b, SumAdd
    <2>2. Sum(v, U \cup {x}) = Sum(v, U) + v[x]  BY <2>c
    <2>3. Sum(v, (S \cup U) \cup {x}) = Sum(v, S \cup U) + v[x]  BY <2>d DEF W
    <2>4. Sum(v, U) \in Int /\ Sum(v, S) \in Int /\ v[x] \in Int  BY <2>1, SumType
    <2>5. (S \cup U) \cup {x} = S \cup (U \cup {x})  OBVIOUS
    <2>6. Sum(v, S \cup (U \cup {x})) = (Sum(v, S) + Sum(v, U)) + v[x]
      BY <2>3, <2>5, Zenon
    <2>7. \A a, b, c \in Int : (a + b) + c = a + (b + c)  OBVIOUS
    <2>8. Sum(v, S \cup (U \cup {x})) = Sum(v, S) + Sum(v, U \cup {x})
      <3>1. (Sum(v, S) + Sum(v, U)) + v[x] = Sum(v, S) + (Sum(v, U) + v[x])
        BY <2>4, <2>7, Zenon
      <3>2. QED BY <2>2, <2>6, <3>1, Zenon
    <2>9. U \cup {x} \in SUBSET T  OBVIOUS
    <2>10. QED BY <2>8, <2>9, Zenon
  <1>3. P = SUBSET T
    <2> HIDE DEF P
    <2>1. P \in SUBSET (SUBSET T)  BY DEF P
    <2>2. QED BY <1>1, <1>2, <2>1, SubsetInduction
  <1>4. QED BY <1>3

LEMMA SumNat ==
  ASSUME NEW S, IsFiniteSet(S), NEW v, \A x \in S : v[x] \in Nat
  PROVE  Sum(v, S) \in Nat
  <1> DEFINE P == { U \in SUBSET S : Sum(v, U) \in Nat }
  <1>1. {} \in P
    BY SumEmpty
  <1>2. ASSUME NEW U \in P, NEW x \in S \ U PROVE U \cup {x} \in P
    <2>1. IsFiniteSet(U)  BY FS_Subset
    <2>2. \A y \in U \cup {x} : v[y] \in Int
      OBVIOUS
    <2>3. Sum(v, U \cup {x}) = Sum(v, U) + v[x]
      BY <2>1, <2>2, SumAdd
    <2>4. QED BY <2>3
  <1>3. P = SUBSET S
    <2> HIDE DEF P
    <2>1. P \in SUBSET (SUBSET S)  BY DEF P
    <2>2. QED BY <1>1, <1>2, <2>1, SubsetInduction
  <1>4. QED BY <1>3

LEMMA SumSubset ==
  ASSUME NEW S, IsFiniteSet(S), NEW T \in SUBSET S, NEW v, \A x \in S : v[x] \in Nat
  PROVE  Sum(v, T) \in Nat /\ Sum(v, S) \in Nat /\ Sum(v, T) <= Sum(v, S)
  <1>1. IsFiniteSet(T) /\ IsFiniteSet(S \ T)  BY FS_Subset
  <1>2. Sum(v, T \cup (S \ T)) = Sum(v, T) + Sum(v, S \ T)
    BY <1>1, SumDisjoint
  <1>3. T \cup (S \ T) = S  OBVIOUS
  <1>4. Sum(v, T) \in Nat /\ Sum(v, S \ T) \in Nat  BY <1>1, SumNat
  <1>5. Sum(v, S) = Sum(v, T) + Sum(v, S \ T)  BY <1>2, <1>3, Zenon
  <1>6. \A a, b \in Nat : a + b \in Nat /\ a <= a + b  OBVIOUS
  <1>7. QED BY <1>4, <1>5, <1>6, Zenon

LEMMA SumLeq ==
  ASSUME NEW S, IsFiniteSet(S), NEW v, NEW w,
         \A x \in S : v[x] \in Int /\ w[x] \in Int /\ v[x] <= w[x]
  PROVE  Sum(v, S) <= Sum(w, S)
  <1> DEFINE P == { U \in SUBSET S : Sum(v, U) <= Sum(w, U) }
  <1>1. {} \in P
    BY SumEmpty
  <1>2. ASSUME NEW U \in P, NEW x \in S \ U PROVE U \cup {x} \in P
    <2>1. IsFiniteSet(U)  BY FS_Subset
    <2>2. Sum(v, U \cup {x}) = Sum(v, U) + v[x] /\ Sum(w, U \cup {x}) = Sum(w, U) + w[x]
      BY <2>1, SumAdd
    <2>3. Sum(v, U) \in Int /\ Sum(w, U) \in Int
      BY <2>1, SumType
    <2>4. QED BY <2>2, <2>3
  <1>3. P = SUBSET S
    <2> HIDE DEF P
    <2>1. P \in SUBSET (SUBSET S)  BY DEF P
    <2>2. QED BY <1>1, <1>2, <2>1, SubsetInduction
  <1>4. QED BY <1>3
=============================================================================
