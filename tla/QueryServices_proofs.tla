--------------------------- MODULE QueryServices_proofs ---------------------------
(***************************************************************************)
(* Proofs about QueryServices, for any number of rows, owners, values, page*)
(* sizes and commits.                                                      *)
(***************************************************************************)
EXTENDS QueryServices, FiniteSetTheorems, WellFoundedInduction, TLAPS

-----------------------------------------------------------------------------
(* Sums.  SumFunctionOnSet is defined by recursion; its laws are proved by *)
(* induction over the number of amounts.                                   *)

(* Induction over the natural numbers, with a set for the predicate.       *)
LEMMA NatSetInduction ==
  ASSUME NEW T, 0 \in T, \A n \in Nat : n \in T => n + 1 \in T
  PROVE  Nat \subseteq T
<1> SUFFICES ASSUME NEW m \in Nat, m \notin T PROVE FALSE
  OBVIOUS
<1> DEFINE Out == {n \in Nat : n \notin T}
           R == {p \in Nat \X Nat : p[1] < p[2]}
<1>1. IsWellFoundedOn(R, Nat)
  BY NatLessThanWellFounded DEF OpToRel
<1>2. \E x \in Out : \A y \in Out : ~ (<<y, x>> \in R)
  <2>1. Out \subseteq Nat /\ Out # {}
    OBVIOUS
  <2> HIDE DEF Out, R
  <2> QED
    BY <1>1, <2>1, WFMin
<1>3. PICK x \in Out : \A y \in Out : ~ (<<y, x>> \in R)
  BY <1>2
<1>4. x # 0 /\ x - 1 \in Nat /\ x - 1 \in Out
  <2>1. x \in Nat /\ x # 0
    OBVIOUS
  <2>2. x - 1 \in Nat /\ (x - 1) + 1 = x
    BY <2>1
  <2> QED
    BY <2>1, <2>2
<1>5. <<x - 1, x>> \in R
  BY <1>4
<1> QED
  BY <1>3, <1>4, <1>5

Pick(s) == CHOOSE r \in s : TRUE

(* The recursive definition of a sum, on the sets of U only.               *)
SumOn(g, U, f) ==
  g = [s \in U |-> IF s = {} THEN 0 ELSE f[Pick(s)] + g[s \ {Pick(s)}]]

PartialSums(g, S, f) == SumOn(g, SUBSET S, f)

UpTo(S, n) == {s \in SUBSET S : Cardinality(s) <= n}

LEMMA PickRemoved ==
  ASSUME NEW S, IsFiniteSet(S), NEW s \in SUBSET S, s # {}
  PROVE  /\ Pick(s) \in s /\ s \ {Pick(s)} \in SUBSET S
         /\ Cardinality(s) \in Nat \ {0}
         /\ Cardinality(s \ {Pick(s)}) = Cardinality(s) - 1
<1>1. Pick(s) \in s
  BY DEF Pick
<1>2. IsFiniteSet(s)
  BY FS_Subset
<1> QED
  BY <1>1, <1>2, FS_CardinalityType, FS_EmptySet, FS_RemoveElement

(* A finite set has a sum: its partial sums are built from smaller ones.   *)
LEMMA SumExists ==
  ASSUME NEW S, IsFiniteSet(S), NEW f
  PROVE  \E h : SumOn(h, SUBSET S, f)
<1> DEFINE T == {n \in Nat : \E h : SumOn(h, UpTo(S, n), f)}
<1>0. \A s \in SUBSET S : IsFiniteSet(s) /\ Cardinality(s) \in Nat
                          /\ Cardinality(s) <= Cardinality(S)
                          /\ (Cardinality(s) = 0 <=> s = {})
  BY FS_Subset, FS_CardinalityType, FS_EmptySet
<1>1. 0 \in T
  <2> DEFINE h == [s \in UpTo(S, 0) |-> 0]
  <2>1. \A s \in UpTo(S, 0) : s = {}
    BY <1>0 DEF UpTo
  <2>2. SumOn(h, UpTo(S, 0), f)
    BY <2>1 DEF SumOn
  <2> HIDE DEF h
  <2> QED
    BY <2>2
<1>2. ASSUME NEW n \in Nat, n \in T PROVE n + 1 \in T
  <2>1. PICK g : SumOn(g, UpTo(S, n), f)
    BY <1>2
  <2> DEFINE h == [s \in UpTo(S, n + 1) |->
                     IF s = {} THEN 0 ELSE f[Pick(s)] + g[s \ {Pick(s)}]]
  <2>2. ASSUME NEW s \in UpTo(S, n + 1), s # {}
        PROVE  s \ {Pick(s)} \in UpTo(S, n)
    BY <1>0, <2>2, PickRemoved DEF UpTo
  <2>3. UpTo(S, n) \subseteq UpTo(S, n + 1)
    BY <1>0 DEF UpTo
  <2>4. \A s \in UpTo(S, n) : h[s] = g[s]
    BY <2>1, <2>3 DEF SumOn
  <2>5. SumOn(h, UpTo(S, n + 1), f)
    BY <2>2, <2>4 DEF SumOn
  <2> HIDE DEF h
  <2> QED
    BY <2>5
<1>3. Cardinality(S) \in T
  <2>1. Cardinality(S) \in Nat
    BY FS_CardinalityType
  <2> HIDE DEF T
  <2> QED
    BY <1>1, <1>2, <2>1, NatSetInduction
<1>4. UpTo(S, Cardinality(S)) = SUBSET S
  BY <1>0 DEF UpTo
<1> QED
  BY <1>3, <1>4

LEMMA SumUnfold ==
  ASSUME NEW S, IsFiniteSet(S), NEW f
  PROVE  \E g : PartialSums(g, S, f) /\ SumFunctionOnSet(f, S) = g[S]
<1>1. PICK h : PartialSums(h, S, f)
  BY SumExists DEF PartialSums
<1> QED
  BY <1>1, Zenon DEF PartialSums, SumOn, Pick, SumFunctionOnSet, FoldFunctionOnSet, MapThenFoldSet

(* Two sums over sets that include s, of amounts that agree on it, agree.  *)
LEMMA SumsAgree ==
  ASSUME NEW S, IsFiniteSet(S), NEW f, NEW g, PartialSums(g, S, f),
         NEW R, IsFiniteSet(R), NEW e, NEW h, PartialSums(h, R, e)
  PROVE  \A s : (\A r \in s : r \in S /\ r \in R /\ e[r] = f[r]) => g[s] = h[s]
<1> SUFFICES ASSUME NEW s, \A r \in s : r \in S /\ r \in R /\ e[r] = f[r]
             PROVE  g[s] = h[s]
  OBVIOUS
<1> DEFINE T == {n \in Nat : \A u \in SUBSET s : Cardinality(u) = n => g[u] = h[u]}
<1>0. \A u \in SUBSET s : u \in SUBSET S /\ u \in SUBSET R /\ IsFiniteSet(u)
                          /\ Cardinality(u) \in Nat /\ (Cardinality(u) = 0 <=> u = {})
  BY FS_Subset, FS_CardinalityType, FS_EmptySet
<1>1. 0 \in T
  BY <1>0 DEF PartialSums, SumOn
<1>2. ASSUME NEW n \in Nat, n \in T PROVE n + 1 \in T
  <2> SUFFICES ASSUME NEW u \in SUBSET s, Cardinality(u) = n + 1 PROVE g[u] = h[u]
    OBVIOUS
  <2>1. u # {} /\ Pick(u) \in u /\ u \ {Pick(u)} \in SUBSET s
        /\ Cardinality(u \ {Pick(u)}) = n
    BY <1>0, PickRemoved
  <2>2. g[u] = f[Pick(u)] + g[u \ {Pick(u)}]
    BY <1>0, <2>1 DEF PartialSums, SumOn
  <2>3. h[u] = e[Pick(u)] + h[u \ {Pick(u)}]
    BY <1>0, <2>1 DEF PartialSums, SumOn
  <2> QED
    BY <1>2, <2>1, <2>2, <2>3
<1>3. Cardinality(s) \in T
  <2> HIDE DEF T
  <2> QED
    BY <1>0, <1>1, <1>2, NatSetInduction
<1> QED
  BY <1>3

LEMMA SumStep ==
  ASSUME NEW S, IsFiniteSet(S), NEW f
  PROVE  SumFunctionOnSet(f, S) =
           IF S = {} THEN 0
           ELSE f[Pick(S)] + SumFunctionOnSet(f, S \ {Pick(S)})
<1>1. PICK g : PartialSums(g, S, f) /\ SumFunctionOnSet(f, S) = g[S]
  BY SumUnfold
<1>2. CASE S = {}
  BY <1>1, <1>2 DEF PartialSums, SumOn
<1>3. ASSUME S # {}, NEW R, R = S \ {Pick(S)}
      PROVE  SumFunctionOnSet(f, S) = f[Pick(S)] + SumFunctionOnSet(f, R)
  <2>1. IsFiniteSet(R)
    BY <1>3, FS_Subset
  <2>2. PICK h : PartialSums(h, R, f) /\ SumFunctionOnSet(f, R) = h[R]
    BY <2>1, SumUnfold
  <2>3. \A s : (\A r \in s : r \in S /\ r \in R /\ f[r] = f[r]) => g[s] = h[s]
    BY <1>1, <2>1, <2>2, SumsAgree
  <2>4. g[R] = h[R]
    BY <1>3, <2>3
  <2>5. g[S] = f[Pick(S)] + g[R]
    BY <1>1, <1>3 DEF PartialSums, SumOn
  <2> QED
    BY <1>1, <2>2, <2>4, <2>5
<1> QED
  BY <1>2, <1>3

(* The sum of natural numbers is one; it depends on the amounts only.      *)
LEMMA SumIsNat ==
  ASSUME NEW S, IsFiniteSet(S), NEW f, \A r \in S : f[r] \in Nat
  PROVE  SumFunctionOnSet(f, S) \in Nat
<1> DEFINE T == {n \in Nat : \A s \in SUBSET S : Cardinality(s) = n =>
                                  SumFunctionOnSet(f, s) \in Nat}
<1>0. \A s \in SUBSET S : IsFiniteSet(s) /\ Cardinality(s) \in Nat
                          /\ (Cardinality(s) = 0 <=> s = {})
  BY FS_Subset, FS_CardinalityType, FS_EmptySet
<1>1. 0 \in T
  BY <1>0, SumStep
<1>2. ASSUME NEW n \in Nat, n \in T PROVE n + 1 \in T
  <2> SUFFICES ASSUME NEW s \in SUBSET S, Cardinality(s) = n + 1
               PROVE  SumFunctionOnSet(f, s) \in Nat
    OBVIOUS
  <2>1. s # {} /\ Pick(s) \in s /\ s \ {Pick(s)} \in SUBSET S
        /\ Cardinality(s \ {Pick(s)}) = n
    BY <1>0, PickRemoved
  <2>2. SumFunctionOnSet(f, s) = f[Pick(s)] + SumFunctionOnSet(f, s \ {Pick(s)})
    BY <1>0, <2>1, SumStep
  <2> QED
    BY <1>2, <2>1, <2>2
<1>3. Cardinality(S) \in T
  <2> HIDE DEF T
  <2> QED
    BY <1>0, <1>1, <1>2, NatSetInduction
<1> QED
  BY <1>3

LEMMA SumOfSame ==
  ASSUME NEW S, IsFiniteSet(S), NEW f, NEW e, \A r \in S : e[r] = f[r]
  PROVE  SumFunctionOnSet(e, S) = SumFunctionOnSet(f, S)
<1>1. PICK g : PartialSums(g, S, f) /\ SumFunctionOnSet(f, S) = g[S]
  BY SumUnfold
<1>2. PICK h : PartialSums(h, S, e) /\ SumFunctionOnSet(e, S) = h[S]
  BY SumUnfold
<1>3. \A s : (\A r \in s : r \in S /\ r \in S /\ e[r] = f[r]) => g[s] = h[s]
  BY <1>1, <1>2, SumsAgree
<1> QED
  BY <1>1, <1>2, <1>3

(* Any element may be added last.                                          *)
LEMMA SumRemove ==
  ASSUME NEW S, IsFiniteSet(S), NEW f, \A r \in S : f[r] \in Nat, NEW x \in S
  PROVE  SumFunctionOnSet(f, S) = f[x] + SumFunctionOnSet(f, S \ {x})
<1> DEFINE T == {n \in Nat : \A s \in SUBSET S : Cardinality(s) = n => \A y \in s :
                    SumFunctionOnSet(f, s) = f[y] + SumFunctionOnSet(f, s \ {y})}
<1>0. \A s \in SUBSET S : IsFiniteSet(s) /\ Cardinality(s) \in Nat
                          /\ (Cardinality(s) = 0 <=> s = {})
                          /\ SumFunctionOnSet(f, s) \in Nat
  BY FS_Subset, FS_CardinalityType, FS_EmptySet, SumIsNat
<1>1. 0 \in T
  BY <1>0
<1>2. ASSUME NEW n \in Nat, n \in T PROVE n + 1 \in T
  <2> SUFFICES ASSUME NEW s \in SUBSET S, Cardinality(s) = n + 1, NEW y \in s
               PROVE  SumFunctionOnSet(f, s) = f[y] + SumFunctionOnSet(f, s \ {y})
    OBVIOUS
  <2> DEFINE z == Pick(s)
  <2>1. /\ z \in s /\ s \ {z} \in SUBSET S /\ s \ {y} \in SUBSET S
        /\ s \ {y, z} \in SUBSET S
        /\ Cardinality(s \ {z}) = n /\ Cardinality(s \ {y}) = n
    <3>1. z \in s /\ Cardinality(s \ {z}) = n
      BY <1>0, PickRemoved
    <3>2. Cardinality(s \ {y}) = n
      BY <1>0, FS_RemoveElement
    <3> QED
      BY <3>1, <3>2
  <2>2. SumFunctionOnSet(f, s) = f[z] + SumFunctionOnSet(f, s \ {z})
    BY <1>0, <2>1, SumStep
  <2>3. CASE y = z
    BY <2>2, <2>3
  <2>4. CASE y # z
    <3>1. SumFunctionOnSet(f, s \ {z}) = f[y] + SumFunctionOnSet(f, (s \ {z}) \ {y})
      BY <1>2, <2>1, <2>4
    <3>2. SumFunctionOnSet(f, s \ {y}) = f[z] + SumFunctionOnSet(f, (s \ {y}) \ {z})
      BY <1>2, <2>1, <2>4
    <3>3. (s \ {z}) \ {y} = s \ {y, z} /\ (s \ {y}) \ {z} = s \ {y, z}
      OBVIOUS
    <3>4. f[y] \in Nat /\ f[z] \in Nat /\ SumFunctionOnSet(f, s \ {y, z}) \in Nat
      BY <1>0, <2>1
    <3> HIDE DEF z
    <3> QED
      BY <2>2, <3>1, <3>2, <3>3, <3>4
  <2> QED
    BY <2>3, <2>4
<1>3. Cardinality(S) \in T
  <2> HIDE DEF T
  <2> QED
    BY <1>0, <1>1, <1>2, NatSetInduction
<1> QED
  BY <1>3

(* A sum over more natural numbers is no smaller.                          *)
LEMMA SumMonotonic ==
  ASSUME NEW S, IsFiniteSet(S), NEW f, \A r \in S : f[r] \in Nat, NEW R \in SUBSET S
  PROVE  SumFunctionOnSet(f, R) <= SumFunctionOnSet(f, S)
<1> DEFINE T == {n \in Nat : \A s, t \in SUBSET S : Cardinality(s) = n /\ t \subseteq s =>
                    SumFunctionOnSet(f, t) <= SumFunctionOnSet(f, s)}
<1>0. \A s \in SUBSET S : IsFiniteSet(s) /\ Cardinality(s) \in Nat
                          /\ (Cardinality(s) = 0 <=> s = {})
                          /\ SumFunctionOnSet(f, s) \in Nat
  BY FS_Subset, FS_CardinalityType, FS_EmptySet, SumIsNat
<1>1. 0 \in T
  BY <1>0
<1>2. ASSUME NEW n \in Nat, n \in T PROVE n + 1 \in T
  <2> SUFFICES ASSUME NEW s \in SUBSET S, NEW t \in SUBSET s, Cardinality(s) = n + 1
               PROVE  SumFunctionOnSet(f, t) <= SumFunctionOnSet(f, s)
    OBVIOUS
  <2>1. PICK x \in s : TRUE
    BY <1>0
  <2>0. Cardinality(s \ {x}) = n
    BY <1>0, <2>1, FS_RemoveElement
  <2>2. s \ {x} \in SUBSET S /\ t \ {x} \in SUBSET S /\ t \ {x} \subseteq s \ {x}
    BY <2>1
  <2>3. SumFunctionOnSet(f, t \ {x}) <= SumFunctionOnSet(f, s \ {x})
    BY <1>2, <2>0, <2>2
  <2>4. SumFunctionOnSet(f, s) = f[x] + SumFunctionOnSet(f, s \ {x})
    BY <1>0, <2>1, SumRemove
  <2>5. x \in t => SumFunctionOnSet(f, t) = f[x] + SumFunctionOnSet(f, t \ {x})
    BY <1>0, <2>1, SumRemove
  <2>6. x \notin t => t \ {x} = t
    OBVIOUS
  <2>7. f[x] \in Nat /\ SumFunctionOnSet(f, t \ {x}) \in Nat /\ SumFunctionOnSet(f, s \ {x}) \in Nat
    BY <1>0, <2>1, <2>2
  <2> QED
    BY <2>3, <2>4, <2>5, <2>6, <2>7
<1>3. Cardinality(S) \in T
  <2> HIDE DEF T
  <2> QED
    BY <1>0, <1>1, <1>2, NatSetInduction
<1> QED
  BY <1>3

-----------------------------------------------------------------------------
(* Pages.                                                                  *)

USE NullsAssumption, ValueAssumption, ColumnsAssumption, LimitAssumption

(* Math.ceil(total / limit) pages: there is another page exactly if rows   *)
(* are left.                                                               *)
LEMMA PagesCeil ==
  ASSUME NEW t \in Nat, NEW l \in Nat \ {0}, NEW p \in Nat \ {0}
  PROVE  p < (t + l - 1) \div l <=> p * l < t
<1> DEFINE q == (t + l - 1) \div l
<1>1. q \in Int /\ q * l <= t + l - 1 /\ t + l - 1 < (q + 1) * l
  OBVIOUS
<1> HIDE DEF q
<1>2. ASSUME p < q PROVE p * l < t
  <2>1. (p + 1) * l <= q * l
    BY <1>1, <1>2
  <2>2. (p + 1) * l = p * l + l /\ p * l \in Int /\ q * l \in Int
    BY <1>1
  <2> QED
    BY <1>1, <2>1, <2>2
<1>3. ASSUME ~ (p < q) PROVE ~ (p * l < t)
  <2>1. q * l <= p * l
    BY <1>1, <1>3
  <2>2. (q + 1) * l = q * l + l /\ p * l \in Int /\ q * l \in Int
    BY <1>1
  <2> QED
    BY <1>1, <2>1, <2>2
<1> QED
  BY <1>2, <1>3 DEF q

LEMMA PageTimesLimit ==
  ASSUME NEW l \in Nat \ {0}, NEW p \in Nat \ {0}
  PROVE  /\ (p - 1) * l \in Nat /\ p * l \in Nat
         /\ p * l = (p - 1) * l + l
         /\ p <= p * l
         /\ p = 1 => (p - 1) * l = 0
<1>1. p * l = (p - 1) * l + l
  OBVIOUS
<1>2. (p - 1) * l \in Nat /\ p * l \in Nat
  OBVIOUS
<1>3. p <= p * l
  OBVIOUS
<1>4. p = 1 => (p - 1) * l = 0
  OBVIOUS
<1> QED
  BY <1>1, <1>2, <1>3, <1>4

-----------------------------------------------------------------------------
(* Orders.                                                                 *)

LEMMA FoundRows ==
  ASSUME NEW tab, NEW a
  PROVE  /\ Found(tab, a) \subseteq Row /\ IsFiniteSet(Found(tab, a))
         /\ Cardinality(Found(tab, a)) \in Nat
         /\ Cardinality(Found(tab, a)) <= Cardinality(Row) /\ Cardinality(Row) \in Nat
<1>1. Found(tab, a) \in SUBSET Row
  BY DEF Found
<1> QED
  BY <1>1, RowAssumption, FS_Subset, FS_CardinalityType

LEMMA FromOneTo ==
  ASSUME NEW n \in Nat
  PROVE  IsFiniteSet(1 .. n) /\ Cardinality(1 .. n) = n
<1>1. 1 \in Int /\ n \in Int /\ (IF 1 > n THEN 0 ELSE n - 1 + 1) = n
  OBVIOUS
<1> QED
  BY <1>1, FS_Interval

(* SetToSeqs lists every element once.                                     *)
LEMMA OrdersOf ==
  ASSUME NEW S, IsFiniteSet(S), NEW seq \in SetToSeqs(S)
  PROVE  /\ Cardinality(S) \in Nat
         /\ seq \in [1 .. Cardinality(S) -> S] /\ seq \in Seq(S)
         /\ Len(seq) = Cardinality(S)
         /\ \A i, j \in 1 .. Cardinality(S) : seq[i] = seq[j] => i = j
         /\ \A r \in S : \E i \in 1 .. Cardinality(S) : seq[i] = r
<1>1. Cardinality(S) \in Nat
  BY FS_CardinalityType
<1>2. /\ seq \in [1 .. Cardinality(S) -> S]
      /\ \A i, j \in 1 .. Cardinality(S) : seq[i] = seq[j] => i = j
  BY DEF SetToSeqs
<1>3. seq \in Injection(1 .. Cardinality(S), S)
  BY <1>2 DEF Injection, IsInjective
<1>4. Cardinality(1 .. Cardinality(S)) = Cardinality(S)
  BY <1>1, FromOneTo
<1>5. seq \in Surjection(1 .. Cardinality(S), S)
  BY <1>3, <1>4, FS_Injection
<1>6. \A r \in S : \E i \in 1 .. Cardinality(S) : seq[i] = r
  BY <1>5 DEF Surjection
<1>7. seq \in Seq(S) /\ Len(seq) = Cardinality(S)
  BY <1>1, <1>2
<1> QED
  BY <1>1, <1>2, <1>6, <1>7

(* The rows that a listing has before row r.                               *)
Ahead(tab, a, r) == {s \in Found(tab, a) : s # r /\ InOrder(tab, a, s, r)}
Place(tab, a, r) == Cardinality(Ahead(tab, a, r))

LEMMA PlaceIsNat ==
  ASSUME NEW tab, NEW a, NEW r
  PROVE  /\ IsFiniteSet(Ahead(tab, a, r)) /\ Place(tab, a, r) \in Nat
         /\ r \in Found(tab, a) => Place(tab, a, r) < Cardinality(Found(tab, a))
<1>1. Ahead(tab, a, r) \in SUBSET (Found(tab, a) \ {r})
  BY DEF Ahead
<1>2. /\ IsFiniteSet(Found(tab, a) \ {r})
      /\ r \in Found(tab, a) =>
           Cardinality(Found(tab, a) \ {r}) = Cardinality(Found(tab, a)) - 1
  BY FoundRows, FS_RemoveElement
<1>3. /\ IsFiniteSet(Ahead(tab, a, r))
      /\ Cardinality(Ahead(tab, a, r)) <= Cardinality(Found(tab, a) \ {r})
  BY <1>1, <1>2, FS_Subset
<1> QED
  BY <1>2, <1>3, FoundRows, FS_CardinalityType DEF Place

(* Without ties there is one order, in which the place of row r says where *)
(* it is.                                                                  *)
LEMMA PlaceInOrder ==
  ASSUME NEW tab \in [Row -> Value \cup {Absent}], NEW a, ~ Ties(tab, a),
         NEW seq \in Ordered(tab, a), NEW i \in 1 .. Cardinality(Found(tab, a))
  PROVE  Place(tab, a, seq[i]) = i - 1
<1> DEFINE n == Cardinality(Found(tab, a))
           B == {seq[j] : j \in 1 .. (i - 1)}
<1>1. /\ n \in Nat /\ seq \in [1 .. n -> Found(tab, a)] /\ DOMAIN seq = 1 .. n
      /\ \A j, k \in 1 .. n : seq[j] = seq[k] => j = k
      /\ \A r \in Found(tab, a) : \E k \in 1 .. n : seq[k] = r
  BY FoundRows, OrdersOf DEF Ordered
<1>2. \A j, k \in 1 .. n : j < k => InOrder(tab, a, seq[j], seq[k])
  BY <1>1 DEF Ordered
<1>3. \A r \in Found(tab, a) : tab[r] \in Nat
  BY DEF Found, Matches, Exists
<1>4. ASSUME NEW s \in Found(tab, a), s # seq[i], InOrder(tab, a, s, seq[i])
      PROVE  s \in B
  <2>1. PICK k \in 1 .. n : seq[k] = s
    BY <1>1
  <2>2. ASSUME i < k PROVE FALSE
    <3>1. InOrder(tab, a, seq[i], s)
      BY <1>2, <2>1, <2>2
    <3>2. tab[s] = tab[seq[i]]
      BY <1>1, <1>3, <1>4, <3>1 DEF InOrder
    <3> QED
      BY <1>1, <1>4, <3>2 DEF Ties
  <2>3. k \in 1 .. (i - 1)
    BY <1>1, <1>4, <2>1, <2>2
  <2> QED
    BY <2>1, <2>3
<1>5. ASSUME NEW j \in 1 .. (i - 1) PROVE seq[j] \in Ahead(tab, a, seq[i])
  <2>1. j \in 1 .. n /\ i \in 1 .. n /\ j < i /\ j # i
    BY <1>1
  <2>2. seq[j] \in Found(tab, a) /\ seq[j] # seq[i] /\ InOrder(tab, a, seq[j], seq[i])
    BY <1>1, <1>2, <2>1
  <2> QED
    BY <2>2 DEF Ahead
<1>6. Ahead(tab, a, seq[i]) = B
  BY <1>4, <1>5 DEF Ahead
<1> DEFINE f == [j \in 1 .. (i - 1) |-> seq[j]]
<1>7. f \in Bijection(1 .. (i - 1), B)
  BY <1>1 DEF Bijection, Injection, Surjection, IsInjective
<1>8. i - 1 \in Nat /\ IsFiniteSet(1 .. (i - 1)) /\ Cardinality(1 .. (i - 1)) = i - 1
  <2>1. i - 1 \in Nat
    BY <1>1
  <2> QED
    BY <2>1, FromOneTo
<1>9. ExistsBijection(1 .. (i - 1), B)
  BY <1>7 DEF ExistsBijection
<1>10. Cardinality(B) = i - 1
  <2> HIDE DEF B
  <2> QED
    BY <1>8, <1>9, FS_Bijection
<1> QED
  BY <1>6, <1>10 DEF Place

-----------------------------------------------------------------------------
(* Types, and which statements an operation comes to.                      *)

Item == [id: Row, value: Value]

Types ==
    /\ table \in [Row -> Value \cup {Absent}]
    /\ pc \in PCs /\ op \in Operations \cup {"none"}
    /\ arg \in Args /\ arg.limit \in Nat \ {0}
    /\ page \in Nat \ {0}
    /\ items \in Seq(Item)
    /\ \A i, j \in DOMAIN items : items[i].id = items[j].id => i = j
    /\ total \in Nat
    /\ extra \in Row \cup {NoRow} \cup Nat
    /\ changed \subseteq Row /\ steady \subseteq Row
    /\ seen \in [Row -> Nat] /\ disturbed \in BOOLEAN /\ commits \in 0 .. MaxCommits

AtStatement ==
    /\ pc = "idle" => op = "none"
    /\ pc = "items" => op \in Collections \cup Tables \cup Listings
    /\ pc = "total" => op \in Collections \cup Listings
    /\ pc = "default" => op = "getAddressesByUserId"
    /\ pc = "price" => op = "getCartItems"
    /\ pc = "item" => op \in ByOwner \cup ById
    /\ pc = "answer" => op \in Operations
    /\ pc = "walked" => op \in Listings
    /\ pc = "idle" \/ op \notin Listings => page = 1
    /\ pc = "idle" => total = 0 /\ extra = NoRow /\ seen = Never /\ commits = 0

PageWithinRows ==
    /\ page > 1 => page <= Cardinality(Row)
    /\ op \in Listings /\ pc = "answer" => total <= Cardinality(Row)

Typed == Types /\ AtStatement /\ PageWithinRows

LEMMA ContinueTo ==
  ASSUME AtStatement, pc \in Statements, Continue
  PROVE  /\ pc = "items" =>
              pc' = IF op \in Tables THEN "answer" ELSE "total"
         /\ pc = "total" =>
              pc' = IF op = "getAddressesByUserId" THEN "default"
                    ELSE IF op = "getCartItems" THEN "price" ELSE "answer"
         /\ pc \in {"default", "price", "item"} => pc' = "answer"
<1> USE DEF Statements, Body
<1>1. CASE pc = "item"
  <2>1. op \in ByOwner \cup ById
    BY <1>1 DEF AtStatement
  <2>2. Body[op] = <<"item">>
    BY <2>1 DEF ByOwner, ById, getDefaultAddress, getCartByUserId, getUserByEmail, isFavourited,
       getAddressById, getCartItemById, getFavouriteById, getProductById, getCategoryById,
       getUserById
  <2> QED
    BY <1>1, <2>2 DEF Continue
<1>2. CASE pc # "item"
  <2>1. op \in Collections \cup Tables \cup Listings
    BY <1>2 DEF AtStatement, Collections
  <2>2. Body[op] = IF op \in Tables THEN <<"items">>
                   ELSE IF op = "getAddressesByUserId" THEN <<"items", "total", "default">>
                   ELSE IF op = "getCartItems" THEN <<"items", "total", "price">>
                   ELSE <<"items", "total">>
    BY <2>1 DEF Collections, Tables, Listings, getAddressesByUserId, getCartItems,
       getFavouritesByUserId, listProducts, getProductsByCategory, listCategories, getAllUsers
  <2> HIDE DEF Body
  <2>3. CASE op \in Tables
    BY <1>2, <2>2, <2>3 DEF Continue, AtStatement, Tables, Collections, Listings
  <2>4. CASE op = "getAddressesByUserId"
    BY <1>2, <2>2, <2>4 DEF Continue, AtStatement, Tables, Collections, Listings
  <2>5. CASE op = "getCartItems"
    BY <1>2, <2>2, <2>5 DEF Continue, AtStatement, Tables, Collections, Listings
  <2>6. CASE op \notin Tables /\ op # "getAddressesByUserId" /\ op # "getCartItems"
    BY <1>2, <2>1, <2>2, <2>6 DEF Continue, AtStatement, Tables, Collections, Listings
  <2> QED
    BY <2>3, <2>4, <2>5, <2>6
<1> QED
  BY <1>1, <1>2

LEMMA FirstStatement ==
  ASSUME NEW o \in Operations
  PROVE  Body[o][1] = IF o \in ByOwner \cup ById THEN "item" ELSE "items"
BY DEF Operations, Body, Collections, Tables, Listings, ByOwner, ById, getDefaultAddress,
   getCartByUserId, getUserByEmail, isFavourited, getAddressById, getCartItemById,
   getFavouriteById, getProductById, getCategoryById, getUserById, getAddressesByUserId,
   getCartItems, getFavouritesByUserId, listProducts, getProductsByCategory, listCategories,
   getAllUsers

LEMMA OperationKinds ==
  /\ Operations = Collections \cup Tables \cup Listings \cup ByOwner \cup ById
  /\ "none" \notin Operations
  /\ (Listings \cup Collections \cup Tables) \cap (ByOwner \cup ById) = {}
  /\ Listings \cap (Collections \cup Tables) = {} /\ Tables \cap Collections = {}
BY DEF Operations, Body, Collections, Tables, Listings, ByOwner, ById

-----------------------------------------------------------------------------
(* What the statements that read rows put into items.                      *)

LEMMA WithValuesOf ==
  ASSUME Types, NEW n \in Nat, NEW seq \in [1 .. n -> Found(table, arg)],
         NEW its, its = WithValues(seq)
  PROVE  /\ its \in Seq(Item) /\ Len(its) = n /\ DOMAIN its = 1 .. n
         /\ \A i \in 1 .. n : its[i].id = seq[i] /\ its[i].value = table[seq[i]]
<1>1. its = [i \in 1 .. n |-> [id |-> seq[i], value |-> table[seq[i]]]]
  BY DEF WithValues
<1>2. \A i \in 1 .. n : seq[i] \in Row /\ table[seq[i]] \in Value
  BY DEF Found, Matches, Exists, Types
<1>3. its \in [1 .. n -> Item]
  BY <1>1, <1>2 DEF Item
<1>4. its \in Seq(Item) /\ Len(its) = n /\ DOMAIN its = 1 .. n
  BY <1>3
<1> QED
  BY <1>1, <1>4

(* Every row of the result, once.                                          *)
LEMMA FindAllItems ==
  ASSUME Types, FindAll
  PROVE  /\ items' \in Seq(Item) /\ Len(items') = Cardinality(Found(table, arg))
         /\ \A i, j \in DOMAIN items' : items'[i].id = items'[j].id => i = j
         /\ Ids(items)' = Found(table, arg)
         /\ \A i \in DOMAIN items' : items'[i].value = table[items'[i].id]
<1>1. PICK seq \in SetToSeqs(Found(table, arg)) : items' = WithValues(seq)
  BY DEF FindAll
<1> DEFINE n == Cardinality(Found(table, arg))
<1>2. /\ n \in Nat /\ seq \in [1 .. n -> Found(table, arg)]
      /\ \A i, j \in 1 .. n : seq[i] = seq[j] => i = j
      /\ \A r \in Found(table, arg) : \E i \in 1 .. n : seq[i] = r
  BY FoundRows, OrdersOf
<1> HIDE DEF n
<1>3. /\ items' \in Seq(Item) /\ Len(items') = n /\ DOMAIN items' = 1 .. n
      /\ \A i \in 1 .. n : items'[i].id = seq[i] /\ items'[i].value = table[seq[i]]
  BY <1>1, <1>2, WithValuesOf
<1>4. Ids(items)' = Found(table, arg)
  <2>1. Ids(items)' = {items'[i].id : i \in 1 .. n}
    BY <1>3 DEF Ids
  <2>2. \A i \in 1 .. n : items'[i].id \in Found(table, arg)
    BY <1>2, <1>3
  <2>3. \A r \in Found(table, arg) : \E i \in 1 .. n : items'[i].id = r
    BY <1>2, <1>3
  <2> QED
    BY <2>1, <2>2, <2>3
<1> QED
  BY <1>2, <1>3, <1>4 DEF n

Cut(seq, skip, l) ==
  SubSeq(seq, skip + 1, IF skip + l < Len(seq) THEN skip + l ELSE Len(seq))

(* The m rows of cut are those of seq that come after skip others; there   *)
(* are no more than l, and less only at the end of the n rows of seq.      *)
IsPage(cut, m, seq, n, skip, l) ==
  /\ m <= l /\ (m > 0 => skip + m <= n) /\ (m < l => skip + m >= n)
  /\ cut \in [1 .. m -> Row]
  /\ \A k \in 1 .. m : skip + k \in 1 .. n /\ cut[k] = seq[skip + k]

LEMMA CutOf ==
  ASSUME NEW n \in Nat, NEW seq \in [1 .. n -> Row], NEW skip \in Nat, NEW l \in Nat \ {0}
  PROVE  \E m \in Nat : IsPage(Cut(seq, skip, l), m, seq, n, skip, l)
<1> DEFINE last == IF skip + l < n THEN skip + l ELSE n
           m == IF skip < last THEN last - skip ELSE 0
           cut == Cut(seq, skip, l)
<1>1. last \in Nat /\ m \in Nat /\ last <= n
  OBVIOUS
<1>2. m <= l /\ (m > 0 => skip + m <= n) /\ (m < l => skip + m >= n)
  OBVIOUS
<1>3. cut = [k \in 1 .. ((1 + last) - (skip + 1)) |-> seq[(skip + 1 + k) - 1]]
  <2>1. seq \in Seq(Row) /\ Len(seq) = n
    OBVIOUS
  <2>2. cut = SubSeq(seq, skip + 1, last)
    BY <2>1 DEF Cut
  <2> HIDE DEF cut, last
  <2> QED
    BY <1>1, <2>1, <2>2
<1>4. 1 .. ((1 + last) - (skip + 1)) = 1 .. m
  BY <1>1
<1>5. \A k \in 1 .. m : skip + k \in 1 .. n /\ (skip + 1 + k) - 1 = skip + k
  BY <1>1
<1> HIDE DEF m, cut
<1>6. cut = [k \in 1 .. m |-> seq[skip + k]]
  BY <1>3, <1>4, <1>5
<1>7. cut \in [1 .. m -> Row] /\ \A k \in 1 .. m : skip + k \in 1 .. n /\ cut[k] = seq[skip + k]
  BY <1>5, <1>6
<1>8. IsPage(cut, m, seq, n, skip, l)
  BY <1>2, <1>7 DEF IsPage
<1> QED
  BY <1>1, <1>8 DEF cut

(* The items are the rows of a page of seq, with their values.             *)
PageItems(its, m, seq, n, skip) ==
  /\ its \in Seq(Item) /\ Len(its) = m /\ DOMAIN its = 1 .. m
  /\ m <= arg.limit /\ (m > 0 => skip + m <= n) /\ (m < arg.limit => skip + m >= n)
  /\ \A k \in 1 .. m : /\ skip + k \in 1 .. n
                       /\ its[k].id = seq[skip + k] /\ its[k].value = table[seq[skip + k]]

LEMMA FindPageItems ==
  ASSUME Types, FindPage
  PROVE  \E seq \in Ordered(table, arg), m \in Nat :
            PageItems(items', m, seq, Cardinality(Found(table, arg)), (page - 1) * arg.limit)
<1> DEFINE n == Cardinality(Found(table, arg))
           skip == (page - 1) * arg.limit
<1>1. PICK seq \in Ordered(table, arg) : items' = WithValues(Cut(seq, skip, arg.limit))
  BY DEF FindPage, Cut
<1>2. n \in Nat /\ seq \in [1 .. n -> Found(table, arg)] /\ Len(seq) = n
  BY FoundRows, OrdersOf DEF Ordered
<1>3. skip \in Nat /\ arg.limit \in Nat \ {0}
  BY PageTimesLimit DEF Types
<1> HIDE DEF n, skip
<1>4. seq \in [1 .. n -> Row]
  BY <1>2, FoundRows
<1> DEFINE cut == Cut(seq, skip, arg.limit)
<1>5. PICK m \in Nat : IsPage(cut, m, seq, n, skip, arg.limit)
  BY <1>2, <1>3, <1>4, CutOf
<1> HIDE DEF cut
<1>6. cut \in [1 .. m -> Found(table, arg)]
  BY <1>2, <1>5 DEF IsPage
<1>7. items' = WithValues(cut)
  BY <1>1 DEF cut
<1>8. /\ items' \in Seq(Item) /\ Len(items') = m /\ DOMAIN items' = 1 .. m
      /\ \A i \in 1 .. m : items'[i].id = cut[i] /\ items'[i].value = table[cut[i]]
  BY <1>6, <1>7, WithValuesOf
<1>9. PageItems(items', m, seq, n, skip)
  BY <1>5, <1>8 DEF IsPage, PageItems
<1> QED
  BY <1>9 DEF n, skip

(* The page holds distinct rows of the result.                             *)
LEMMA FindPageRows ==
  ASSUME Types, FindPage
  PROVE  /\ items' \in Seq(Item)
         /\ \A i, j \in DOMAIN items' : items'[i].id = items'[j].id => i = j
         /\ Ids(items)' \subseteq Found(table, arg)
         /\ \A i \in DOMAIN items' : items'[i].value = table[items'[i].id]
<1> DEFINE n == Cardinality(Found(table, arg))
           skip == (page - 1) * arg.limit
<1>1. PICK seq \in Ordered(table, arg), m \in Nat : PageItems(items', m, seq, n, skip)
  BY FindPageItems
<1>2. /\ n \in Nat /\ seq \in [1 .. n -> Found(table, arg)]
      /\ \A i, j \in 1 .. n : seq[i] = seq[j] => i = j
  BY FoundRows, OrdersOf DEF Ordered
<1>3. skip \in Nat
  BY PageTimesLimit DEF Types
<1> HIDE DEF n, skip
<1>4. Ids(items)' \subseteq Found(table, arg)
  BY <1>1, <1>2 DEF Ids, PageItems
<1>5. ASSUME NEW i \in 1 .. m, NEW j \in 1 .. m, items'[i].id = items'[j].id PROVE i = j
  <2>1. skip + i = skip + j
    BY <1>1, <1>2, <1>5 DEF PageItems
  <2> QED
    BY <1>3, <2>1
<1> QED
  BY <1>1, <1>4, <1>5 DEF PageItems

LEMMA FoundValues ==
  ASSUME table \in [Row -> Value \cup {Absent}]
  PROVE  \A r \in Found(table, arg) : r \in Row /\ table[r] \in Value /\ table[r] \in Nat
BY DEF Found, Matches, Exists

LEMMA IdsAreRows ==
  ASSUME Types
  PROVE  Ids(items) \subseteq Row /\ IsFiniteSet(Ids(items))
<1>1. \A i \in DOMAIN items : items[i] \in Item
  BY DEF Types
<1>2. \A i \in DOMAIN items : items[i].id \in Row
  BY <1>1 DEF Item
<1> QED
  BY <1>2, RowAssumption, FS_Subset DEF Ids

LEMMA Steps ==
  ASSUME [Next]_vars
  PROVE  \/ Start \/ CommitElsewhere \/ FindAll \/ FindPage \/ Count \/ FindDefault
         \/ TotalPrice \/ FindOne \/ Idle \/ AnswerPage \/ UNCHANGED vars
BY DEF Next, Fail, Answer, EndOfWalk

-----------------------------------------------------------------------------
(* The types are kept, and a walk asks for no page beyond the rows.        *)

LEMMA IdleTyped ==
  ASSUME Typed, Idle
  PROVE  Typed'
<1>1. NoArg \in Args /\ NoArg.limit = 1
  BY DEF NoArg, Args
<1>2. NoTable \in [Row -> Value \cup {Absent}] /\ Never \in [Row -> Nat]
  BY DEF NoTable, Never
<1>3. Types'
  <2>1. <<>> \in Seq(Item) /\ DOMAIN <<>> = {} /\ 0 \in 0 .. MaxCommits
    OBVIOUS
  <2>2. items' = <<>>
    BY DEF Idle, Forget
  <2>3. items' \in Seq(Item) /\ \A i, j \in DOMAIN items' : items'[i].id = items'[j].id => i = j
    BY <2>1, <2>2
  <2>4. table' \in [Row -> Value \cup {Absent}] /\ seen' \in [Row -> Nat] /\ arg' = NoArg
    BY <1>2 DEF Idle, Forget
  <2>5. pc' \in PCs /\ op' \in Operations \cup {"none"} /\ page' \in Nat \ {0}
    BY DEF Idle, Forget, PCs
  <2>6. arg' \in Args /\ arg'.limit \in Nat \ {0}
    BY <1>1, <2>4
  <2>7. /\ total' \in Nat /\ extra' \in Row \cup {NoRow} \cup Nat
        /\ changed' \subseteq Row /\ steady' \subseteq Row
        /\ disturbed' \in BOOLEAN /\ commits' \in 0 .. MaxCommits
    BY <2>1 DEF Idle, Forget
  <2> QED
    BY <2>3, <2>4, <2>5, <2>6, <2>7 DEF Types
<1>4. AtStatement'
  BY DEF Idle, Forget, AtStatement, Listings
<1>5. PageWithinRows'
  BY DEF Idle, Forget, PageWithinRows, Listings
<1> QED
  BY <1>3, <1>4, <1>5 DEF Typed

LEMMA StartTyped ==
  ASSUME Typed, Start
  PROVE  Typed'
<1> DEFINE Arrives(o, a, tab) ==
              /\ table' = tab
              /\ op' = o /\ arg' = a
              /\ pc' = Body[o][1]
              /\ steady' = IF o \in Listings THEN Found(tab, a) ELSE {}
              /\ disturbed' = (o \in Listings /\ Ties(tab, a))
<1>0. PICK o \in Operations :
         \E a \in ArgsOf(o), tab \in [Row -> Value \cup {Absent}] : Arrives(o, a, tab)
  BY DEF Start
<1>1. PICK a \in ArgsOf(o), tab \in [Row -> Value \cup {Absent}] : Arrives(o, a, tab)
  BY <1>0
<1>2. a \in Args /\ a.limit \in Nat \ {0}
  BY DEF ArgsOf, Args
<1>3. UNCHANGED <<page, items, total, extra, changed, seen, commits>>
  BY DEF Start, reply
<1>4. pc' = IF o \in ByOwner \cup ById THEN "item" ELSE "items"
  BY <1>1, FirstStatement
<1>5. steady' \subseteq Row /\ disturbed' \in BOOLEAN
  BY <1>1, FoundRows
<1>6. Types'
  BY <1>1, <1>2, <1>3, <1>4, <1>5 DEF Typed, Types, PCs, Statements
<1>7. AtStatement'
  BY <1>1, <1>3, <1>4, OperationKinds DEF Typed, AtStatement, Start
<1>8. PageWithinRows'
  BY <1>3, <1>4 DEF Typed, AtStatement, PageWithinRows, Start
<1> QED
  BY <1>6, <1>7, <1>8 DEF Typed

LEMMA CommitTyped ==
  ASSUME Typed, CommitElsewhere
  PROVE  Typed'
<1>1. PICK S \in SUBSET Row :
          /\ \E new \in [S -> Value \cup {Absent}] :
                table' = [r \in Row |-> IF r \in S THEN new[r] ELSE table[r]]
          /\ changed' = changed \cup S
          /\ steady' = steady \ S
          /\ disturbed' = (op \in Listings /\ (\/ disturbed
                                               \/ S \cap Found(table, arg) # {}
                                               \/ Ties(table', arg)))
  BY DEF CommitElsewhere
<1>2. table' \in [Row -> Value \cup {Absent}]
  BY <1>1 DEF Typed, Types
<1>3. disturbed' \in BOOLEAN
  BY <1>1
<1>4. commits' \in 0 .. MaxCommits
  BY DEF CommitElsewhere, Typed, Types
<1>5. Types'
  BY <1>1, <1>2, <1>3, <1>4 DEF Typed, Types, CommitElsewhere, request, reply
<1>6. AtStatement' /\ PageWithinRows'
  BY DEF Typed, AtStatement, PageWithinRows, CommitElsewhere, request, reply, Statements
<1> QED
  BY <1>5, <1>6 DEF Typed

LEMMA FindAllTyped ==
  ASSUME Typed, FindAll
  PROVE  Typed'
<1> USE DEF FindAll, request, history, Typed
<1>1. /\ items' \in Seq(Item)
      /\ \A i, j \in DOMAIN items' : items'[i].id = items'[j].id => i = j
  BY FindAllItems
<1>2. pc' = IF op \in Tables THEN "answer" ELSE "total"
  BY ContinueTo DEF Statements
<1>3. total' \in Nat
  BY FoundRows DEF Types
<1>4. Types'
  BY <1>1, <1>2, <1>3 DEF Types, PCs, Statements
<1>5. AtStatement'
  BY <1>2, OperationKinds DEF AtStatement
<1>6. PageWithinRows'
  BY OperationKinds DEF PageWithinRows
<1> QED
  BY <1>4, <1>5, <1>6

LEMMA FindPageTyped ==
  ASSUME Typed, FindPage
  PROVE  Typed'
<1> DEFINE n == Cardinality(Found(table, arg))
           skip == (page - 1) * arg.limit
<1> USE DEF request, history
<1>1. /\ items' \in Seq(Item)
      /\ \A i, j \in DOMAIN items' : items'[i].id = items'[j].id => i = j
  BY FindPageRows DEF Typed
<1>2. pc' \in {"total", "answer"}
  BY ContinueTo, OperationKinds DEF FindPage, Typed, Statements
<1>3. skip \in Nat /\ n \in Nat /\ n <= Cardinality(Row) /\ Cardinality(Row) \in Nat
  BY PageTimesLimit, FoundRows DEF Typed, Types
<1>4. PICK seq \in Ordered(table, arg), m \in Nat : PageItems(items', m, seq, n, skip)
  BY FindPageItems DEF Typed
<1>5. pc' = "answer" => total' = skip + m /\ (page = 1 \/ m > 0)
  <2>1. pc' = "answer" => total' = skip + Len(items') /\ (page = 1 \/ items' # <<>>)
    BY ContinueTo, OperationKinds DEF FindPage, Typed, Statements
  <2>2. Len(items') = m /\ (items' # <<>> => m > 0)
    BY <1>1, <1>4 DEF PageItems
  <2> QED
    BY <2>1, <2>2
<1>6. page = 1 => skip = 0
  BY PageTimesLimit DEF Typed, Types
<1>7. m > 0 => skip + m <= n
  BY <1>4 DEF PageItems
<1>8. total' \in Nat /\ (pc' = "answer" => total' <= Cardinality(Row))
  <2>1. total \in Nat /\ (pc' = "total" => total' = total)
    BY DEF Typed, Types, FindPage
  <2> HIDE DEF n, skip
  <2> QED
    BY <1>2, <1>3, <1>5, <1>6, <1>7, <2>1
<1>9. UNCHANGED <<table, op, arg, page, extra, seen, steady, disturbed, commits>> /\ changed' = {}
  BY DEF FindPage
<1>10. Types'
  BY <1>1, <1>2, <1>8, <1>9 DEF Typed, Types, PCs, Statements
<1>11. AtStatement'
  BY <1>2, <1>9, OperationKinds DEF Typed, AtStatement, FindPage
<1>12. PageWithinRows'
  BY <1>8, <1>9 DEF Typed, PageWithinRows
<1> QED
  BY <1>10, <1>11, <1>12 DEF Typed

LEMMA CountTyped ==
  ASSUME Typed, Count
  PROVE  Typed'
<1> USE DEF request, history
<1> DEFINE found == Found(table, arg)
<1>1. total' = IF op = "getCartItems" THEN SumFunctionOnSet(table, found) ELSE Cardinality(found)
  BY DEF Count
<1>2. SumFunctionOnSet(table, found) \in Nat
  BY FoundRows, FoundValues, SumIsNat DEF Typed, Types
<1>3. Cardinality(found) \in Nat /\ Cardinality(found) <= Cardinality(Row)
  BY FoundRows
<1>4. pc' = IF op = "getAddressesByUserId" THEN "default"
            ELSE IF op = "getCartItems" THEN "price" ELSE "answer"
  BY ContinueTo DEF Count, Typed, Statements
<1>5. pc = "total" /\ op \in Collections \cup Listings /\ op # "none"
  BY OperationKinds DEF Typed, AtStatement, Count
<1>6. UNCHANGED <<table, op, arg, page, items, extra, changed, seen, steady, disturbed, commits>>
  BY DEF Count
<1> HIDE DEF found
<1>7. Types'
  BY <1>1, <1>2, <1>3, <1>4, <1>6 DEF Typed, Types, PCs, Statements
<1>8. AtStatement'
  BY <1>4, <1>5, <1>6, OperationKinds DEF Typed, AtStatement
<1>9. PageWithinRows'
  BY <1>1, <1>3, <1>5, <1>6 DEF Typed, PageWithinRows, Listings
<1> QED
  BY <1>7, <1>8, <1>9 DEF Typed

LEMMA FindDefaultTyped ==
  ASSUME Typed, FindDefault
  PROVE  Typed'
<1> USE DEF FindDefault, request, history, Typed
<1>1. extra' \in Row \cup {NoRow}
  BY DEF Defaults, Found
<1>2. pc' = "answer" /\ op = "getAddressesByUserId"
  BY ContinueTo DEF Statements, AtStatement
<1>3. Types'
  BY <1>1, <1>2 DEF Types, PCs
<1>4. AtStatement' /\ PageWithinRows'
  BY <1>2, OperationKinds DEF AtStatement, PageWithinRows, Collections, Listings
<1> QED
  BY <1>3, <1>4

LEMMA TotalPriceTyped ==
  ASSUME Typed, TotalPrice
  PROVE  Typed'
<1> USE DEF TotalPrice, request, history, Typed
<1> DEFINE found == Found(table, arg)
           amount == [r \in found |-> table[r] * PriceOf[r]]
<1>1. extra' = SumFunctionOnSet(amount, found)
  BY DEF SumFunction
<1>2. \A r \in found : amount[r] \in Nat
  BY FoundValues DEF Types
<1>3. extra' \in Nat
  <2> HIDE DEF amount
  <2> QED
    BY <1>1, <1>2, FoundRows, SumIsNat
<1>4. pc' = "answer" /\ op = "getCartItems"
  BY ContinueTo DEF Statements, AtStatement
<1>5. Types'
  BY <1>3, <1>4 DEF Types, PCs
<1>6. AtStatement' /\ PageWithinRows'
  BY <1>4, OperationKinds DEF AtStatement, PageWithinRows, Collections, Listings
<1> QED
  BY <1>5, <1>6

LEMMA FindOneTyped ==
  ASSUME Typed, FindOne
  PROVE  Typed'
<1> USE DEF request, history, Typed
<1>1. /\ items' \in Seq(Item)
      /\ \A i, j \in DOMAIN items' : items'[i].id = items'[j].id => i = j
  <2>1. CASE items' = <<>>
    BY <2>1
  <2>2. ASSUME NEW r \in Row, Wanted(r), items' = WithValues(<<r>>)
        PROVE  items' \in Seq(Item) /\ DOMAIN items' = 1 .. 1
    <3>1. table[r] \in Value
      BY <2>2 DEF Wanted, Defaults, Found, Matches, Exists, Types
    <3>2. items' = <<[id |-> r, value |-> table[r]]>>
      BY <2>2 DEF WithValues
    <3> QED
      BY <3>1, <3>2 DEF Item
  <2>3. items' = <<>> \/ \E r \in Row : Wanted(r) /\ items' = WithValues(<<r>>)
    BY DEF FindOne
  <2>4. CASE items' \in Seq(Item) /\ DOMAIN items' = 1 .. 1
    BY <2>4
  <2> QED
    BY <2>1, <2>2, <2>3, <2>4
<1>2. pc' = "answer" /\ op \in ByOwner \cup ById
  BY ContinueTo DEF FindOne, Statements, AtStatement
<1>3. Types'
  BY <1>1, <1>2 DEF Types, PCs, FindOne
<1>4. AtStatement' /\ PageWithinRows'
  BY <1>2, OperationKinds DEF AtStatement, PageWithinRows, FindOne
<1> QED
  BY <1>3, <1>4

LEMMA AnswerPageTyped ==
  ASSUME Typed, AnswerPage
  PROVE  Typed'
<1>1. page < TotalPages <=> page * arg.limit < total
  BY PagesCeil DEF TotalPages, Typed, Types
<1>2. /\ op \in Listings /\ pc = "answer" /\ total <= Cardinality(Row)
      /\ page \in Nat \ {0} /\ total \in Nat
      /\ UNCHANGED <<table, op, arg, changed, steady, disturbed, commits>>
      /\ items' = <<>> /\ total' = 0 /\ extra' = NoRow
  BY DEF AnswerPage, Forget, Typed, Types, PageWithinRows
<1>3. seen' \in [Row -> Nat]
  BY DEF AnswerPage, Typed, Types
<1>4. \/ pc' = "items" /\ page' = page + 1 /\ page * arg.limit < total
      \/ pc' = "walked" /\ page' = page
  BY <1>1 DEF AnswerPage
<1>5. page' \in Nat \ {0} /\ (page' > 1 => page' <= Cardinality(Row))
  <2>1. page <= page * arg.limit /\ page * arg.limit \in Nat /\ Cardinality(Row) \in Nat
    BY PageTimesLimit, FoundRows DEF Typed, Types
  <2> QED
    BY <1>2, <1>4, <2>1 DEF Typed, PageWithinRows
<1>6. Types'
  BY <1>2, <1>3, <1>4, <1>5 DEF Typed, Types, PCs, Statements
<1>7. AtStatement'
  BY <1>2, <1>4, OperationKinds DEF Typed, AtStatement
<1>8. PageWithinRows'
  BY <1>4, <1>5 DEF PageWithinRows
<1> QED
  BY <1>6, <1>7, <1>8 DEF Typed

LEMMA TypedInit == Init => Typed
<1> SUFFICES ASSUME Init PROVE Typed
  OBVIOUS
<1>1. NoArg \in Args /\ NoArg.limit = 1
  BY DEF NoArg, Args
<1>2. NoTable \in [Row -> Value \cup {Absent}] /\ Never \in [Row -> Nat]
  BY DEF NoTable, Never
<1>3. Types
  <2>1. <<>> \in Seq(Item) /\ DOMAIN <<>> = {} /\ 0 \in 0 .. MaxCommits
    OBVIOUS
  <2>2. items = <<>>
    BY DEF Init
  <2>3. items \in Seq(Item) /\ \A i, j \in DOMAIN items : items[i].id = items[j].id => i = j
    BY <2>1, <2>2
  <2>4. table \in [Row -> Value \cup {Absent}] /\ seen \in [Row -> Nat] /\ arg = NoArg
    BY <1>2 DEF Init
  <2>5. pc \in PCs /\ op \in Operations \cup {"none"} /\ page \in Nat \ {0}
    BY DEF Init, PCs
  <2>6. arg \in Args /\ arg.limit \in Nat \ {0}
    BY <1>1, <2>4
  <2>7. /\ total \in Nat /\ extra \in Row \cup {NoRow} \cup Nat
        /\ changed \subseteq Row /\ steady \subseteq Row
        /\ disturbed \in BOOLEAN /\ commits \in 0 .. MaxCommits
    BY <2>1 DEF Init
  <2> QED
    BY <2>3, <2>4, <2>5, <2>6, <2>7 DEF Types
<1> QED
  BY <1>3 DEF Init, Typed, AtStatement, PageWithinRows, Listings

LEMMA TypedStep ==
  ASSUME Typed, [Next]_vars
  PROVE  Typed'
<1>1. CASE UNCHANGED vars
  <2>1. UNCHANGED <<table, pc, op, arg, page, items, total, extra, changed, seen, steady,
                    disturbed, commits>>
    BY <1>1 DEF vars, request, reply, history
  <2> QED
    BY <2>1 DEF Typed, Types, AtStatement, PageWithinRows
<1> QED
  BY <1>1, Steps, IdleTyped, StartTyped, CommitTyped, FindAllTyped, FindPageTyped, CountTyped,
     FindDefaultTyped, TotalPriceTyped, FindOneTyped, AnswerPageTyped

LEMMA TypedAlways == Spec => []Typed
BY TypedInit, TypedStep, PTL DEF Spec

(* Every variable keeps its type, and a walk asks for no more pages than   *)
(* there can be rows: the totals that it goes by count rows.               *)
THEOREM TypeCorrect == Spec => []TypeOK
<1>1. Typed => TypeOK
  <2> SUFFICES ASSUME Typed PROVE TypeOK
    OBVIOUS
  <2>1. Ids(items) \subseteq Row
    BY IdsAreRows DEF Typed
  <2>2. page \in 1 .. 1 + Cardinality(Row)
    <3>1. page \in Nat \ {0} /\ (page > 1 => page <= Cardinality(Row)) /\ Cardinality(Row) \in Nat
      BY FoundRows DEF Typed, Types, PageWithinRows
    <3> QED
      BY <3>1
  <2> QED
    BY <2>1, <2>2 DEF Typed, Types, PageWithinRows, TypeOK
<1> QED
  BY <1>1, TypedAlways, PTL

-----------------------------------------------------------------------------
(* The walk through the pages of a listing.  A row that is in the result   *)
(* all the time has a place in the order, which only moves back while rows *)
(* are inserted; up to there, the client has met it, or has it in the page *)
(* it is about to receive.                                                 *)

Met(r) ==
    LET place == Place(table, arg, r)
    IN /\ pc = "items" => seen[r] >= 1 \/ place >= (page - 1) * arg.limit
       /\ pc = "total" => seen[r] >= 1 \/ r \in Ids(items) \/ place >= page * arg.limit
       /\ pc = "answer" => \/ seen[r] >= 1 \/ r \in Ids(items)
                           \/ place >= page * arg.limit /\ total > page * arg.limit
       /\ pc = "walked" => seen[r] >= 1

(* As long as no command commits, the place says exactly when.             *)
MetOnce(r) ==
    LET place == Place(table, arg, r)
    IN /\ pc \in {"items", "total", "answer"} =>
             seen[r] = IF place < (page - 1) * arg.limit THEN 1 ELSE 0
       /\ pc \in {"total", "answer"} =>
             (r \in Ids(items) <=> (page - 1) * arg.limit <= place /\ place < page * arg.limit)
       /\ pc = "walked" => seen[r] = 1

Walk == op \in Listings /\ ~ disturbed =>
    /\ ~ Ties(table, arg)
    /\ steady \subseteq Found(table, arg)
    /\ \A r \in steady : Met(r) /\ (commits = 0 => MetOnce(r))

LEMMA PageHolds ==
  ASSUME Types, FindPage, ~ Ties(table, arg), NEW r \in Found(table, arg)
  PROVE  /\ r \in Ids(items') <=> /\ (page - 1) * arg.limit <= Place(table, arg, r)
                                  /\ Place(table, arg, r) < page * arg.limit
         /\ Len(items') < arg.limit => Place(table, arg, r) < page * arg.limit
<1> DEFINE n == Cardinality(Found(table, arg))
           skip == (page - 1) * arg.limit
           place == Place(table, arg, r)
<1>1. PICK seq \in Ordered(table, arg), m \in Nat : PageItems(items', m, seq, n, skip)
  BY FindPageItems
<1>2. /\ n \in Nat /\ \A i, j \in 1 .. n : seq[i] = seq[j] => i = j
      /\ \E i \in 1 .. n : seq[i] = r
  BY FoundRows, OrdersOf DEF Ordered
<1>3. PICK i \in 1 .. n : seq[i] = r
  BY <1>2
<1>4. place = i - 1
  <2>1. table \in [Row -> Value \cup {Absent}]
    BY DEF Types
  <2>2. Place(table, arg, seq[i]) = i - 1
    BY <2>1, PlaceInOrder
  <2> QED
    BY <1>3, <2>2
<1>5. skip \in Nat /\ arg.limit \in Nat \ {0} /\ page * arg.limit = skip + arg.limit
  BY PageTimesLimit DEF Types
<1> HIDE DEF n, skip, place
<1>6. /\ m <= arg.limit /\ (m < arg.limit => skip + m >= n) /\ Len(items') = m
      /\ DOMAIN items' = 1 .. m
      /\ \A k \in 1 .. m : skip + k \in 1 .. n /\ items'[k].id = seq[skip + k]
  BY <1>1 DEF PageItems
<1>7. ASSUME r \in Ids(items') PROVE skip <= place /\ place < skip + arg.limit
  <2>1. PICK k \in 1 .. m : items'[k].id = r
    BY <1>6, <1>7 DEF Ids
  <2>2. skip + k = i
    BY <1>2, <1>3, <1>6, <2>1
  <2> QED
    BY <1>4, <1>5, <1>6, <2>2
<1>8. ASSUME skip <= place, place < skip + arg.limit PROVE r \in Ids(items')
  <2>1. i - skip \in 1 .. m
    BY <1>2, <1>4, <1>5, <1>6, <1>8
  <2>2. items'[i - skip].id = seq[skip + (i - skip)] /\ skip + (i - skip) = i
    BY <1>5, <1>6, <2>1
  <2> QED
    BY <1>3, <1>6, <2>1, <2>2 DEF Ids
<1>9. Len(items') < arg.limit => place < skip + arg.limit
  BY <1>2, <1>4, <1>5, <1>6
<1> QED
  BY <1>5, <1>7, <1>8, <1>9 DEF skip, place

LEMMA PlaceMovesBack ==
  ASSUME NEW tab, NEW new, NEW a, Found(tab, a) \subseteq Found(new, a),
         \A s \in Found(tab, a) : new[s] = tab[s], NEW r \in Found(tab, a)
  PROVE  Place(tab, a, r) <= Place(new, a, r)
<1>1. Ahead(tab, a, r) \in SUBSET Ahead(new, a, r)
  BY DEF Ahead, InOrder
<1> QED
  BY <1>1, PlaceIsNat, FS_Subset DEF Place

LEMMA StartWalk ==
  ASSUME Typed, Start
  PROVE  Walk'
<1> SUFFICES ASSUME op' \in Listings, ~ disturbed'
             PROVE  /\ ~ Ties(table, arg)'
                    /\ steady' \subseteq Found(table, arg)'
                    /\ \A r \in steady' : Met(r)' /\ MetOnce(r)'
  BY DEF Walk
<1>1. /\ ~ Ties(table, arg)' /\ steady' = Found(table, arg)'
      /\ pc' = "items" /\ page' = 1 /\ seen' = Never
  BY FirstStatement, OperationKinds DEF Start, Typed, AtStatement
<1>2. arg'.limit \in Nat \ {0}
  BY StartTyped DEF Typed, Types
<1>3. ASSUME NEW r \in steady' PROVE Met(r)' /\ MetOnce(r)'
  <2>1. (page' - 1) * arg'.limit = 0
    BY <1>1, <1>2, PageTimesLimit
  <2>2. Place(table', arg', r) \in Nat
    BY PlaceIsNat
  <2>3. seen'[r] = 0
    BY <1>1, FoundRows DEF Never
  <2> QED
    BY <1>1, <2>1, <2>2, <2>3 DEF Met, MetOnce
<1> QED
  BY <1>1, <1>3

LEMMA CommitWalk ==
  ASSUME Typed, Walk, CommitElsewhere
  PROVE  Walk'
<1> SUFFICES ASSUME op' \in Listings, ~ disturbed'
             PROVE  /\ ~ Ties(table, arg)'
                    /\ steady' \subseteq Found(table, arg)'
                    /\ \A r \in steady' : Met(r)' /\ commits' # 0
  BY DEF Walk
<1>1. PICK S \in SUBSET Row :
          /\ \E new \in [S -> Value \cup {Absent}] :
                table' = [r \in Row |-> IF r \in S THEN new[r] ELSE table[r]]
          /\ steady' = steady \ S
          /\ disturbed' = (op \in Listings /\ (\/ disturbed
                                               \/ S \cap Found(table, arg) # {}
                                               \/ Ties(table', arg)))
  BY DEF CommitElsewhere
<1>2. UNCHANGED <<pc, op, arg, page, items, total, extra, seen>> /\ commits' = commits + 1
  BY DEF CommitElsewhere, request, reply
<1>3. ~ disturbed /\ S \cap Found(table, arg) = {} /\ ~ Ties(table', arg)
  BY <1>1, <1>2
<1>4. \A r \in Found(table, arg) : r \in Row /\ table'[r] = table[r]
  BY <1>1, <1>3, FoundRows
<1>5. Found(table, arg) \subseteq Found(table', arg)
  BY <1>4 DEF Found, Matches, Exists
<1>6. steady \subseteq Found(table, arg) /\ \A r \in steady : Met(r)
  BY <1>2, <1>3 DEF Walk
<1>7. ASSUME NEW r \in steady' PROVE Met(r)'
  <2>1. r \in steady /\ r \in Found(table, arg)
    BY <1>1, <1>6
  <2>2. Place(table, arg, r) <= Place(table', arg, r)
    BY <1>4, <1>5, <2>1, PlaceMovesBack
  <2>3. Place(table, arg, r) \in Nat /\ Place(table', arg, r) \in Nat
    BY PlaceIsNat
  <2>4. (page - 1) * arg.limit \in Nat /\ page * arg.limit \in Nat
    BY PageTimesLimit DEF Typed, Types
  <2>5. Ids(items)' = Ids(items)
    BY <1>2
  <2> QED
    BY <1>2, <1>6, <2>1, <2>2, <2>3, <2>4, <2>5 DEF Met
<1>8. commits' # 0
  BY <1>2 DEF Typed, Types
<1> QED
  BY <1>1, <1>2, <1>3, <1>5, <1>6, <1>7, <1>8

LEMMA FindPageWalk ==
  ASSUME Typed, Walk, FindPage
  PROVE  Walk'
<1> SUFFICES ASSUME ~ disturbed, NEW r \in steady
             PROVE  Met(r)' /\ (commits = 0 => MetOnce(r)')
  BY DEF Walk, FindPage, request, history
<1>1. /\ UNCHANGED <<table, op, arg, page, seen, commits>>
      /\ pc = "items" /\ op \in Listings
      /\ pc' = "total" \/ (pc' = "answer" /\ Len(items') < arg.limit)
  BY ContinueTo, OperationKinds DEF FindPage, request, history, Typed, Statements
<1>2. ~ Ties(table, arg) /\ r \in Found(table, arg) /\ Met(r) /\ (commits = 0 => MetOnce(r))
  BY <1>1 DEF Walk
<1> DEFINE place == Place(table, arg, r)
<1>3. /\ r \in Ids(items') <=> (page - 1) * arg.limit <= place /\ place < page * arg.limit
      /\ Len(items') < arg.limit => place < page * arg.limit
  BY <1>2, PageHolds DEF Typed
<1>4. /\ place \in Nat /\ (page - 1) * arg.limit \in Nat /\ page * arg.limit \in Nat
      /\ seen[r] \in Nat
  BY <1>2, PlaceIsNat, PageTimesLimit, FoundRows DEF Typed, Types
<1>5. place' = place /\ Ids(items)' = Ids(items')
  BY <1>1
<1>6. Met(r)'
  BY <1>1, <1>2, <1>3, <1>4, <1>5 DEF Met
<1>7. commits = 0 => MetOnce(r)'
  BY <1>1, <1>2, <1>3, <1>4, <1>5 DEF MetOnce
<1> QED
  BY <1>6, <1>7

LEMMA CountWalk ==
  ASSUME Typed, Walk, Count
  PROVE  Walk'
<1> SUFFICES ASSUME ~ disturbed, op \in Listings, NEW r \in steady
             PROVE  Met(r)' /\ (commits = 0 => MetOnce(r)')
  BY DEF Walk, Count, request, history
<1>1. /\ UNCHANGED <<table, op, arg, page, items, seen, commits>>
      /\ pc = "total" /\ pc' = "answer" /\ total' = Cardinality(Found(table, arg))
  BY ContinueTo, OperationKinds DEF Count, request, history, Typed, Statements, Collections
<1>2. r \in Found(table, arg) /\ Met(r) /\ (commits = 0 => MetOnce(r))
  BY <1>1 DEF Walk
<1>3. /\ Place(table, arg, r) \in Nat /\ Cardinality(Found(table, arg)) \in Nat
      /\ Place(table, arg, r) < Cardinality(Found(table, arg))
      /\ page * arg.limit \in Nat
  BY <1>2, PlaceIsNat, FoundRows, PageTimesLimit DEF Typed, Types
<1>4. Ids(items)' = Ids(items) /\ Place(table, arg, r)' = Place(table, arg, r)
  BY <1>1
<1>5. Met(r)'
  BY <1>1, <1>2, <1>3, <1>4 DEF Met
<1>6. commits = 0 => MetOnce(r)'
  BY <1>1, <1>2, <1>4 DEF MetOnce
<1> QED
  BY <1>5, <1>6

LEMMA AnswerPageWalk ==
  ASSUME Typed, Walk, AnswerPage
  PROVE  Walk'
<1> SUFFICES ASSUME ~ disturbed, NEW r \in steady
             PROVE  Met(r)' /\ (commits = 0 => MetOnce(r)')
  BY DEF Walk, AnswerPage
<1>1. /\ UNCHANGED <<table, op, arg, commits>> /\ pc = "answer" /\ op \in Listings
      /\ seen' = [s \in Row |-> seen[s] + IF s \in Ids(items) THEN 1 ELSE 0]
      /\ \/ pc' = "items" /\ page' = page + 1 /\ page < TotalPages
         \/ pc' = "walked" /\ page' = page /\ ~ (page < TotalPages)
  BY DEF AnswerPage
<1>2. r \in Found(table, arg) /\ Met(r) /\ (commits = 0 => MetOnce(r))
  BY <1>1 DEF Walk
<1>3. page < TotalPages <=> page * arg.limit < total
  BY PagesCeil DEF TotalPages, Typed, Types
<1> DEFINE place == Place(table, arg, r)
<1>4. /\ place \in Nat /\ (page - 1) * arg.limit \in Nat /\ page * arg.limit \in Nat
      /\ (page - 1) * arg.limit <= page * arg.limit
      /\ page \in Nat /\ total \in Nat /\ (page + 1) - 1 = page
  <2>1. page \in Nat \ {0} /\ arg.limit \in Nat \ {0} /\ total \in Nat /\ place \in Nat
    BY PlaceIsNat DEF Typed, Types
  <2>2. /\ (page - 1) * arg.limit \in Nat /\ page * arg.limit \in Nat
        /\ page * arg.limit = (page - 1) * arg.limit + arg.limit
    BY <2>1, PageTimesLimit
  <2> QED
    BY <2>1, <2>2
<1>5. seen[r] \in Nat /\ seen'[r] = seen[r] + IF r \in Ids(items) THEN 1 ELSE 0
  BY <1>1, <1>2, FoundRows DEF Typed, Types
<1>6. place' = place
  BY <1>1
<1> HIDE DEF place
<1>7. Met(r)'
  <2>1. seen'[r] >= 1 \/ (place >= page * arg.limit /\ total > page * arg.limit)
    BY <1>1, <1>2, <1>4, <1>5 DEF Met, place
  <2>2. pc' = "items" => seen'[r] >= 1 \/ place' >= (page' - 1) * arg'.limit
    BY <1>1, <1>4, <1>6, <2>1
  <2>3. pc' = "walked" => seen'[r] >= 1
    BY <1>1, <1>3, <1>4, <2>1
  <2> QED
    BY <1>1, <2>2, <2>3 DEF Met, place
<1>8. ASSUME commits = 0 PROVE MetOnce(r)'
  <2>1. seen'[r] = IF place < page * arg.limit THEN 1 ELSE 0
    BY <1>1, <1>2, <1>4, <1>5, <1>8 DEF MetOnce, place
  <2>2. ASSUME pc' = "walked" PROVE place < page * arg.limit
    <3>1. ~ (total > page * arg.limit)
      BY <1>1, <1>3, <1>4, <2>2
    <3>2. seen[r] >= 1 \/ r \in Ids(items)
      BY <1>1, <1>2, <3>1 DEF Met
    <3> QED
      BY <1>1, <1>2, <1>4, <1>8, <3>2 DEF MetOnce, place
  <2> QED
    BY <1>1, <1>4, <1>6, <2>1, <2>2 DEF MetOnce, place
<1> QED
  BY <1>7, <1>8

LEMMA WalkStep ==
  ASSUME Typed, Walk, [Next]_vars
  PROVE  Walk'
<1>1. CASE Idle
  BY <1>1 DEF Idle, Walk, Listings
<1>2. CASE FindAll \/ FindDefault \/ TotalPrice \/ FindOne
  <2>1. op' = op /\ op \notin Listings
    BY <1>2, OperationKinds DEF FindAll, FindDefault, TotalPrice, FindOne, request, Typed,
       AtStatement, Listings
  <2> QED
    BY <2>1 DEF Walk
<1>3. CASE UNCHANGED vars
  BY <1>3 DEF vars, request, reply, history, Walk, Met, MetOnce
<1> QED
  BY <1>1, <1>2, <1>3, Steps, StartWalk, CommitWalk, FindPageWalk, CountWalk, AnswerPageWalk

(* A client that asks for page after page meets every row that was in the  *)
(* result all the time, and exactly once if nothing was committed.         *)
THEOREM WalkCompleteHolds == Spec => []WalkComplete
<1>1. Init => Walk
  BY DEF Init, Walk, Listings
<1>2. Typed /\ Walk => WalkComplete
  BY DEF Typed, AtStatement, Walk, Met, MetOnce, WalkComplete
<1> QED
  BY <1>1, <1>2, TypedAlways, WalkStep, PTL DEF Spec

-----------------------------------------------------------------------------
(* The parts of one answer.  What a later statement finds differs from the *)
(* items by rows that were changed in between, and by no others.           *)

Fresh == pc \in {"total", "default", "price"} =>
    /\ \A r \in Kept : r \in Found(table, arg) /\ Amount(r) = table[r]
    /\ op \in Collections => Found(table, arg) \ Kept \subseteq changed

CountExplained ==
    /\ op \in {"getAddressesByUserId", "getFavouritesByUserId"} /\ pc \in {"default", "answer"} =>
          /\ total - Len(items) <= Cardinality(changed)
          /\ Len(items) - total <= Cardinality(changed)
    /\ op \in Listings /\ pc = "answer" => Cardinality(Kept) <= total

DefaultExplained == op = "getAddressesByUserId" /\ pc = "answer" =>
    IF extra = NoRow THEN \A r \in Kept : Amount(r) # Default
    ELSE extra \in changed \/ (extra \in Kept /\ Amount(extra) = Default)

CartExplained == op = "getCartItems" =>
    /\ pc \in {"price", "answer"} =>
          /\ SumFunction([r \in Kept |-> Amount(r)]) <= total
          /\ changed = {} => total = SumFunction([r \in Kept |-> Amount(r)])
    /\ pc = "answer" => SumFunction([r \in Kept |-> Amount(r) * PriceOf[r]]) <= extra

Explained == Fresh /\ CountExplained /\ DefaultExplained /\ CartExplained

(* There are as many items as there are rows among them.                   *)
LEMMA ItemsCount ==
  ASSUME NEW its \in Seq(Item), \A i, j \in DOMAIN its : its[i].id = its[j].id => i = j
  PROVE  /\ IsFiniteSet(Ids(its)) /\ Cardinality(Ids(its)) = Len(its)
         /\ Len(its) \in Nat
<1> DEFINE f == [i \in 1 .. Len(its) |-> its[i].id]
<1>1. Len(its) \in Nat /\ DOMAIN its = 1 .. Len(its)
  OBVIOUS
<1>2. f \in Bijection(1 .. Len(its), Ids(its))
  BY <1>1 DEF Bijection, Injection, Surjection, IsInjective, Ids
<1>3. ExistsBijection(1 .. Len(its), Ids(its))
  BY <1>2 DEF ExistsBijection
<1> QED
  BY <1>1, <1>3, FromOneTo, FS_Bijection

LEMMA KeptRows ==
  ASSUME Types
  PROVE  /\ Kept \subseteq Row /\ IsFiniteSet(Kept) /\ Cardinality(Kept) \in Nat
         /\ IsFiniteSet(changed) /\ Cardinality(changed) \in Nat
<1>1. Kept \in SUBSET Row /\ changed \in SUBSET Row
  BY IdsAreRows DEF Kept, Types
<1> QED
  BY <1>1, RowAssumption, FS_Subset, FS_CardinalityType

LEMMA AmountIsNat ==
  ASSUME Types
  PROVE  \A r \in Kept : Amount(r) \in Nat
<1> SUFFICES ASSUME NEW r \in Kept PROVE Amount(r) \in Nat
  OBVIOUS
<1> DEFINE k == CHOOSE i \in DOMAIN items : items[i].id = r
<1>1. k \in DOMAIN items
  BY DEF Kept, Ids
<1>2. items[k] \in Item
  BY <1>1 DEF Types
<1> QED
  BY <1>2 DEF Amount, Item

(* When items are read they say what the table holds.                      *)
LEMMA ReadAmounts ==
  ASSUME \A i \in DOMAIN items' : items'[i].value = table[items'[i].id], NEW r \in Ids(items)'
  PROVE  Amount(r)' = table[r]
<1> DEFINE k == CHOOSE i \in DOMAIN items' : items'[i].id = r
<1>1. k \in DOMAIN items' /\ items'[k].id = r
  BY DEF Ids
<1>2. Amount(r)' = items'[k].value
  BY DEF Amount
<1> QED
  BY <1>1, <1>2

(* A sum over some of the rows, with the same amounts, is no larger.       *)
LEMMA SumOfPart ==
  ASSUME NEW S, IsFiniteSet(S), NEW f, \A r \in S : f[r] \in Nat,
         NEW R, R \subseteq S, NEW g, \A r \in R : g[r] = f[r]
  PROVE  /\ SumFunctionOnSet(g, R) <= SumFunctionOnSet(f, S)
         /\ R = S => SumFunctionOnSet(g, R) = SumFunctionOnSet(f, S)
<1>1. IsFiniteSet(R)
  BY FS_Subset
<1>2. SumFunctionOnSet(g, R) = SumFunctionOnSet(f, R)
  BY <1>1, SumOfSame
<1>3. SumFunctionOnSet(f, R) <= SumFunctionOnSet(f, S)
  BY SumMonotonic
<1> QED
  BY <1>2, <1>3

Amounts == [r \in Kept |-> Amount(r)]
Prices == [r \in Kept |-> Amount(r) * PriceOf[r]]

LEMMA CommitExplained ==
  ASSUME Typed, Explained, CommitElsewhere
  PROVE  Explained'
<1>1. PICK S \in SUBSET Row :
          /\ Cardinality(S) \in {1, 2}
          /\ \E new \in [S -> Value \cup {Absent}] :
                table' = [r \in Row |-> IF r \in S THEN new[r] ELSE table[r]]
          /\ changed' = changed \cup S
  BY DEF CommitElsewhere
<1>2. UNCHANGED <<pc, op, arg, page, items, total, extra, seen>>
      /\ (pc = "answer" => op \in Listings)
  BY DEF CommitElsewhere, request, reply, Statements
<1>3. S # {}
  BY <1>1, FS_EmptySet
<1>4. \A r \in Row \ S : table'[r] = table[r]
  BY <1>1
<1>5. Kept' = Kept \ S /\ \A r : Amount(r)' = Amount(r)
  BY <1>1, <1>2 DEF Kept, Amount
<1>6. Typed'
  BY CommitTyped
<1>7. \A r \in Row \ S : r \in Found(table', arg) <=> r \in Found(table, arg)
  BY <1>4 DEF Found, Matches, Exists
<1>8. Kept \subseteq Row /\ Found(table', arg) \subseteq Row
  BY KeptRows, FoundRows DEF Typed
<1>9. Fresh'
  BY <1>1, <1>2, <1>4, <1>5, <1>7, <1>8 DEF Explained, Fresh
<1>10. CountExplained'
  <2>1. /\ Cardinality(changed) \in Nat /\ Cardinality(changed') \in Nat
        /\ Cardinality(changed) <= Cardinality(changed')
        /\ Cardinality(Kept) \in Nat /\ Cardinality(Kept') \in Nat
        /\ Cardinality(Kept') <= Cardinality(Kept)
    <3>1. changed' \in SUBSET Row /\ changed \in SUBSET changed' /\ Kept' \in SUBSET Kept
      BY <1>1, <1>5 DEF Typed, Types
    <3>2. IsFiniteSet(changed') /\ IsFiniteSet(Kept)
      BY <3>1, KeptRows, RowAssumption, FS_Subset DEF Typed
    <3> QED
      BY <3>1, <3>2, FS_Subset, FS_CardinalityType
  <2>2. total \in Nat /\ Len(items) \in Nat
    BY DEF Typed, Types
  <2> QED
    BY <1>2, <2>1, <2>2 DEF Explained, CountExplained
<1>11. DefaultExplained'
  BY <1>2 DEF DefaultExplained, Listings
<1>12. CartExplained'
  <2> SUFFICES ASSUME op = "getCartItems", pc = "price"
               PROVE  SumFunction([r \in Kept |-> Amount(r)])' <= total
    BY <1>1, <1>2, <1>3 DEF CartExplained, Listings
  <2>1. Amounts' = [r \in Kept' |-> Amount(r)]
    BY <1>5 DEF Amounts
  <2>2. SumFunctionOnSet(Amounts', Kept') <= SumFunctionOnSet(Amounts, Kept)
    <3>1. IsFiniteSet(Kept) /\ Kept' \subseteq Kept
      BY <1>5, KeptRows DEF Typed
    <3>2. \A r \in Kept : Amounts[r] \in Nat
      BY AmountIsNat DEF Typed, Amounts
    <3>3. \A r \in Kept' : Amounts'[r] = Amounts[r]
      BY <2>1, <3>1 DEF Amounts
    <3> QED
      BY <3>1, <3>2, <3>3, SumOfPart
  <2>3. SumFunctionOnSet(Amounts, Kept) <= total
    BY DEF Explained, CartExplained, SumFunction, Amounts
  <2>4. SumFunctionOnSet(Amounts, Kept) \in Nat /\ SumFunctionOnSet(Amounts', Kept') \in Nat
    <3>1. \A r \in Kept : Amounts[r] \in Nat
      BY AmountIsNat DEF Typed, Amounts
    <3>2. \A r \in Kept' : Amounts'[r] \in Nat
      BY <1>5, <2>1, AmountIsNat DEF Typed
    <3>3. IsFiniteSet(Kept) /\ IsFiniteSet(Kept')
      BY <1>5, KeptRows, FS_Subset DEF Typed
    <3> QED
      BY <3>1, <3>2, <3>3, SumIsNat
  <2>5. SumFunctionOnSet(Amounts', Kept') <= total
    BY <2>2, <2>3, <2>4 DEF Typed, Types
  <2> QED
    BY <2>5 DEF SumFunction, Amounts
<1> QED
  BY <1>9, <1>10, <1>11, <1>12 DEF Explained

LEMMA FindAllExplained ==
  ASSUME Typed, Explained, FindAll
  PROVE  Explained'
<1>1. /\ pc' = IF op \in Tables THEN "answer" ELSE "total"
      /\ UNCHANGED <<table, op, arg>> /\ changed' = {}
      /\ op \in Collections \cup Tables
  BY ContinueTo DEF FindAll, request, Typed, Statements
<1>2. /\ Ids(items)' = Found(table, arg)
      /\ \A i \in DOMAIN items' : items'[i].value = table[items'[i].id]
  BY FindAllItems DEF Typed
<1>3. Kept' = Found(table, arg)
  BY <1>1, <1>2 DEF Kept
<1>4. \A r \in Kept' : Amount(r)' = table[r]
  BY <1>2, <1>3, ReadAmounts
<1>5. Fresh'
  BY <1>1, <1>3, <1>4 DEF Fresh
<1>6. CountExplained' /\ DefaultExplained' /\ CartExplained'
  BY <1>1, OperationKinds DEF CountExplained, DefaultExplained, CartExplained, Collections
<1> QED
  BY <1>5, <1>6 DEF Explained

LEMMA FindPageExplained ==
  ASSUME Typed, Explained, FindPage
  PROVE  Explained'
<1>1. /\ UNCHANGED <<table, op, arg>> /\ changed' = {}
      /\ op \in Listings /\ op \notin Collections
      /\ \/ pc' = "total"
         \/ pc' = "answer" /\ total' = (page - 1) * arg.limit + Len(items')
  BY ContinueTo, OperationKinds DEF FindPage, request, Typed, Statements
<1>2. /\ items' \in Seq(Item)
      /\ \A i, j \in DOMAIN items' : items'[i].id = items'[j].id => i = j
      /\ Ids(items)' \subseteq Found(table, arg)
      /\ \A i \in DOMAIN items' : items'[i].value = table[items'[i].id]
  BY FindPageRows DEF Typed
<1>3. Kept' = Ids(items)' /\ Ids(items)' = Ids(items')
  BY <1>1 DEF Kept
<1>4. \A r \in Kept' : Amount(r)' = table[r]
  BY <1>2, <1>3, ReadAmounts
<1>5. Fresh'
  BY <1>1, <1>2, <1>3, <1>4 DEF Fresh
<1>6. CountExplained'
  <2>1. Cardinality(Kept') = Len(items') /\ Len(items') \in Nat
    BY <1>2, <1>3, ItemsCount
  <2>2. (page - 1) * arg.limit \in Nat
    BY PageTimesLimit DEF Typed, Types
  <2>3. op' \notin {"getAddressesByUserId", "getFavouritesByUserId"}
    BY <1>1 DEF Listings
  <2>4. pc' = "answer" => Cardinality(Kept') <= total'
    BY <1>1, <2>1, <2>2
  <2> QED
    BY <2>3, <2>4 DEF CountExplained
<1>7. DefaultExplained' /\ CartExplained'
  BY <1>1 DEF DefaultExplained, CartExplained, Listings
<1> QED
  BY <1>5, <1>6, <1>7 DEF Explained

LEMMA CountStepExplained ==
  ASSUME Typed, Explained, Count
  PROVE  Explained'
<1> DEFINE found == Found(table, arg)
<1>1. /\ UNCHANGED <<table, op, arg, items, extra, changed>> /\ pc = "total"
      /\ pc' = IF op = "getAddressesByUserId" THEN "default"
               ELSE IF op = "getCartItems" THEN "price" ELSE "answer"
      /\ total' = IF op = "getCartItems" THEN SumFunctionOnSet(table, found)
                  ELSE Cardinality(found)
  BY ContinueTo DEF Count, request, Typed, Statements
<1>2. Kept' = Kept /\ \A r : Amount(r)' = Amount(r)
  BY <1>1 DEF Kept, Amount
<1>3. /\ Kept \subseteq found /\ \A r \in Kept : Amount(r) = table[r]
      /\ op \in Collections => found \ Kept \subseteq changed
  BY <1>1 DEF Explained, Fresh
<1>4. /\ IsFiniteSet(found) /\ Cardinality(found) \in Nat
      /\ IsFiniteSet(Kept) /\ Cardinality(Kept) \in Nat
      /\ IsFiniteSet(changed) /\ Cardinality(changed) \in Nat
  BY FoundRows, KeptRows DEF Typed
<1> HIDE DEF found
<1>5. Fresh'
  BY <1>1, <1>2, <1>3 DEF Fresh, found
<1>6. CountExplained'
  <2>1. /\ IsFiniteSet(Ids(items)) /\ Cardinality(Ids(items)) = Len(items) /\ Len(items) \in Nat
    BY ItemsCount DEF Typed, Types
  <2>2. op \in Collections => Cardinality(found) <= Cardinality(Kept) + Cardinality(changed)
    <3>1. found \ Kept \subseteq changed => Cardinality(found \ Kept) <= Cardinality(changed)
      BY <1>4, FS_Subset
    <3>2. Cardinality(found \ Kept) = Cardinality(found) - Cardinality(found \cap Kept)
      BY <1>4, FS_Difference
    <3>3. found \cap Kept = Kept
      BY <1>3
    <3>4. op \in Collections => Cardinality(found) - Cardinality(Kept) <= Cardinality(changed)
      BY <1>3, <3>1, <3>2, <3>3
    <3> QED
      BY <1>4, <3>4
  <2>3. Len(items) <= Cardinality(Kept) + Cardinality(changed)
    <3>1. Cardinality(Kept) = Cardinality(Ids(items)) - Cardinality(Ids(items) \cap changed)
      BY <2>1, FS_Difference DEF Kept
    <3>2. /\ Cardinality(Ids(items) \cap changed) <= Cardinality(changed)
          /\ Cardinality(Ids(items) \cap changed) \in Nat
      BY <1>4, <2>1, FS_Intersection, FS_CardinalityType
    <3> QED
      BY <1>4, <2>1, <3>1, <3>2
  <2>4. Cardinality(Kept) <= Cardinality(found) /\ Cardinality(Kept) <= Len(items)
    BY <1>3, <1>4, <2>1, FS_Subset DEF Kept
  <2>5. op \in {"getAddressesByUserId", "getFavouritesByUserId"} =>
           op \in Collections /\ op # "getCartItems"
    BY DEF Collections
  <2>6. op \in Listings => op # "getCartItems"
    BY DEF Listings
  <2> QED
    BY <1>1, <1>2, <1>4, <2>1, <2>2, <2>3, <2>4, <2>5, <2>6 DEF CountExplained
<1>7. DefaultExplained'
  BY <1>1 DEF DefaultExplained
<1>8. CartExplained'
  <2> SUFFICES ASSUME op = "getCartItems"
               PROVE  /\ SumFunction([r \in Kept |-> Amount(r)]) <= total'
                      /\ changed = {} => total' = SumFunction([r \in Kept |-> Amount(r)])
    BY <1>1, <1>2 DEF CartExplained
  <2>1. SumFunction([r \in Kept |-> Amount(r)]) = SumFunctionOnSet(Amounts, Kept)
    BY DEF SumFunction, Amounts
  <2>2. \A r \in found : table[r] \in Nat
    BY FoundValues DEF Typed, Types, found
  <2>3. \A r \in Kept : Amounts[r] = table[r]
    BY <1>3 DEF Amounts
  <2>4. /\ SumFunctionOnSet(Amounts, Kept) <= SumFunctionOnSet(table, found)
        /\ Kept = found => SumFunctionOnSet(Amounts, Kept) = SumFunctionOnSet(table, found)
    BY <1>3, <1>4, <2>2, <2>3, SumOfPart
  <2>5. changed = {} => Kept = found
    BY <1>3 DEF Collections
  <2> QED
    BY <1>1, <2>1, <2>4, <2>5
<1> QED
  BY <1>5, <1>6, <1>7, <1>8 DEF Explained

LEMMA FindDefaultExplained ==
  ASSUME Typed, Explained, FindDefault
  PROVE  Explained'
<1>1. /\ UNCHANGED <<table, op, arg, items, total, changed>> /\ pc = "default" /\ pc' = "answer"
      /\ op = "getAddressesByUserId"
      /\ IF Defaults(table, arg) = {} THEN extra' = NoRow ELSE extra' \in Defaults(table, arg)
  BY ContinueTo DEF FindDefault, request, Typed, Statements, AtStatement
<1>2. Kept' = Kept /\ \A r : Amount(r)' = Amount(r)
  BY <1>1 DEF Kept, Amount
<1>3. /\ \A r \in Kept : r \in Found(table, arg) /\ Amount(r) = table[r]
      /\ Found(table, arg) \ Kept \subseteq changed
  BY <1>1 DEF Explained, Fresh, Collections
<1>4. Fresh' /\ CartExplained'
  BY <1>1 DEF Fresh, CartExplained
<1>5. CountExplained'
  BY <1>1 DEF Explained, CountExplained, Listings
<1>6. DefaultExplained'
  <2>1. CASE Defaults(table, arg) = {}
    BY <1>1, <1>2, <1>3, <2>1 DEF DefaultExplained, Defaults
  <2>2. CASE Defaults(table, arg) # {}
    <3>1. extra' \in Found(table, arg) /\ table[extra'] = Default
      BY <1>1, <2>2 DEF Defaults
    <3>2. extra' # NoRow
      BY <3>1, FoundRows
    <3>3. extra' \in changed \/ (extra' \in Kept /\ Amount(extra') = Default)
      BY <1>3, <3>1
    <3>4. Amount(extra)' = Amount(extra')
      BY <1>1 DEF Amount
    <3> QED
      BY <1>1, <1>2, <3>2, <3>3, <3>4 DEF DefaultExplained
  <2> QED
    BY <2>1, <2>2
<1> QED
  BY <1>4, <1>5, <1>6 DEF Explained

LEMMA TotalPriceExplained ==
  ASSUME Typed, Explained, TotalPrice
  PROVE  Explained'
<1> DEFINE found == Found(table, arg)
           price == [r \in found |-> table[r] * PriceOf[r]]
<1>1. /\ UNCHANGED <<table, op, arg, items, total, changed>> /\ pc = "price" /\ pc' = "answer"
      /\ op = "getCartItems"
      /\ extra' = SumFunctionOnSet(price, found)
  BY ContinueTo DEF TotalPrice, request, Typed, Statements, AtStatement, SumFunction
<1>2. Kept' = Kept /\ \A r : Amount(r)' = Amount(r)
  BY <1>1 DEF Kept, Amount
<1>3. Kept \subseteq found /\ \A r \in Kept : Amount(r) = table[r]
  BY <1>1 DEF Explained, Fresh
<1>4. Fresh' /\ CountExplained' /\ DefaultExplained'
  BY <1>1 DEF Fresh, CountExplained, DefaultExplained, Listings
<1>5. SumFunctionOnSet(Prices, Kept) <= extra'
  <2>1. \A r \in found : price[r] \in Nat
    BY FoundValues DEF Typed, Types
  <2>2. \A r \in Kept : Prices[r] = price[r]
    BY <1>3 DEF Prices
  <2>3. IsFiniteSet(found)
    BY FoundRows
  <2> HIDE DEF found, price
  <2> QED
    BY <1>1, <1>3, <2>1, <2>2, <2>3, SumOfPart
<1>6. SumFunction([r \in Kept |-> Amount(r) * PriceOf[r]]) <= extra'
  BY <1>5 DEF SumFunction, Prices
<1>7. CartExplained'
  <2>1. [r \in Kept |-> Amount(r)]' = [r \in Kept |-> Amount(r)]
    BY <1>2
  <2>2. [r \in Kept |-> Amount(r) * PriceOf[r]]' = [r \in Kept |-> Amount(r) * PriceOf[r]]
    BY <1>2
  <2> QED
    BY <1>1, <1>6, <2>1, <2>2 DEF Explained, CartExplained
<1> QED
  BY <1>4, <1>7 DEF Explained

LEMMA OtherExplained ==
  ASSUME Typed, Explained, Start \/ FindOne \/ Idle \/ AnswerPage
  PROVE  Explained'
<1>1. \/ pc' \in {"items", "item", "idle", "walked"}
      \/ pc' = "answer" /\ op' \in ByOwner \cup ById
  <2>1. CASE Start
    BY <2>1, FirstStatement DEF Start
  <2>2. CASE FindOne
    BY <2>2, ContinueTo DEF FindOne, request, Typed, Statements, AtStatement
  <2>3. CASE Idle \/ AnswerPage
    BY <2>3 DEF Idle, AnswerPage
  <2> QED
    BY <2>1, <2>2, <2>3
<1>2. op' \in ByOwner \cup ById =>
         op' \notin {"getAddressesByUserId", "getFavouritesByUserId", "getCartItems"} \cup Listings
  BY OperationKinds DEF Collections
<1> QED
  BY <1>1, <1>2 DEF Explained, Fresh, CountExplained, DefaultExplained, CartExplained

LEMMA ExplainedStep ==
  ASSUME Typed, Explained, [Next]_vars
  PROVE  Explained'
<1>1. CASE UNCHANGED vars
  <2>1. UNCHANGED <<table, pc, op, arg, page, items, total, extra, changed>>
    BY <1>1 DEF vars, request, reply
  <2> QED
    BY <2>1 DEF Explained, Fresh, CountExplained, DefaultExplained, CartExplained, Kept, Amount
<1> QED
  BY <1>1, Steps, CommitExplained, FindAllExplained, FindPageExplained, CountStepExplained,
     FindDefaultExplained, TotalPriceExplained, OtherExplained

(* Where the parts of an answer disagree, it is about rows that a command  *)
(* changed after the first of them was read.                               *)
THEOREM ExplainedByCommitsHolds == Spec => []ExplainedByCommits
<1>1. Init => Explained
  BY DEF Init, Explained, Fresh, CountExplained, DefaultExplained, CartExplained
<1>2. Explained => ExplainedByCommits
  <2> SUFFICES ASSUME Explained, pc = "answer" PROVE ExplainedByCommits
    BY DEF ExplainedByCommits
  <2>1. CASE op \in {"getAddressesByUserId", "getFavouritesByUserId"}
    BY <2>1 DEF ExplainedByCommits, Explained, CountExplained, DefaultExplained, Listings
  <2>2. CASE op \in Listings
    BY <2>2 DEF ExplainedByCommits, Explained, CountExplained, Listings
  <2>3. CASE op = "getCartItems"
    BY <2>3 DEF ExplainedByCommits, Explained, CartExplained, Listings
  <2>4. CASE /\ op \notin {"getAddressesByUserId", "getFavouritesByUserId", "getCartItems"}
             /\ op \notin Listings
    BY <2>4 DEF ExplainedByCommits
  <2> QED
    BY <2>1, <2>2, <2>3, <2>4
<1> QED
  BY <1>1, <1>2, TypedAlways, ExplainedStep, PTL DEF Spec

==============================================================================
