----------------------------- MODULE ListProofs -----------------------------
(***************************************************************************)
(* Proofs about lists that change while somebody goes through them, for    *)
(* every number of clients, broadcasts and messages.                       *)
(*                                                                         *)
(* Ordering: sorted() and list.remove, by counting what comes before an    *)
(* element: the counts are different and are all the numbers below the     *)
(* size of the set.                                                        *)
(*                                                                         *)
(* IntelBroadcast: a walk by index misses one client at most for each that *)
(* leaves the list.  What it has passed over is counted in the places up   *)
(* to its index; a removal lets as many others come into these places at   *)
(* most as it takes out.                                                   *)
(*                                                                         *)
(* Messages: the order of the pages is made of what never changes of a     *)
(* message, its time and the place of its id in the dictionary, which is   *)
(* the number of the first message of that id.  So it makes sense also for *)
(* messages that are not in the store, and the client has seen of all that *)
(* may be there none behind its cursor, and those before it that stayed.   *)
(***************************************************************************)
EXTENDS IntelBroadcast, Messages, FiniteSetTheorems, SequenceTheorems, TLAPS

-----------------------------------------------------------------------------
(* Ordering.                                                               *)

\* R is a strict total order on S.
Orders(R, S) ==
  /\ \A i \in S : <<i, i>> \notin R
  /\ \A i, j, k \in S : <<i, j>> \in R /\ <<j, k>> \in R => <<i, k>> \in R
  /\ \A i, j \in S : i = j \/ <<i, j>> \in R \/ <<j, i>> \in R

\* How many elements come before one.
Rank(S, R) == [ i \in S |-> Cardinality(Before(S, R, i)) ]

\* Elements of a finite set have different numbers of elements before them, and
\* these are the numbers below the size of the set.
LEMMA RanksAreAll ==
  ASSUME NEW S, IsFiniteSet(S), NEW R, Orders(R, S)
  PROVE  /\ Cardinality(S) \in Nat
         /\ Rank(S, R) \in [ S -> 0 .. Cardinality(S) - 1 ]
         /\ \A i, j \in S : <<i, j>> \in R <=> Rank(S, R)[i] < Rank(S, R)[j]
         /\ \A i, j \in S : Rank(S, R)[i] = Rank(S, R)[j] => i = j
         /\ \A k \in 0 .. Cardinality(S) - 1 : \E i \in S : Rank(S, R)[i] = k
<1> DEFINE n == Cardinality(S)
           B(i) == Before(S, R, i)
           rank == Rank(S, R)
<1>1. n \in Nat
  BY FS_CardinalityType
<1>2. ASSUME NEW i \in S
      PROVE  IsFiniteSet(B(i)) /\ Cardinality(B(i)) \in 0 .. n - 1
  <2>1. B(i) \in SUBSET S /\ B(i) # S
    BY DEF Before, Orders
  <2>2. IsFiniteSet(B(i)) /\ Cardinality(B(i)) <= n /\ Cardinality(B(i)) # n
    BY <2>1, FS_Subset
  <2>3. Cardinality(B(i)) \in Nat
    BY <2>2, FS_CardinalityType
  <2>4. QED
    BY <2>2, <2>3, <1>1
<1>3. ASSUME NEW i \in S, NEW j \in S, <<i, j>> \in R
      PROVE  Cardinality(B(i)) < Cardinality(B(j))
  <2>1. B(i) \in SUBSET B(j) /\ B(i) # B(j)
    BY <1>3 DEF Before, Orders
  <2>2. /\ IsFiniteSet(B(j))
        /\ Cardinality(B(i)) \in 0 .. n - 1 /\ Cardinality(B(j)) \in 0 .. n - 1
    BY <1>2
  <2>3. Cardinality(B(i)) <= Cardinality(B(j)) /\ Cardinality(B(i)) # Cardinality(B(j))
    BY <2>1, <2>2, FS_Subset
  <2>4. QED
    BY <2>2, <2>3, <1>1
<1>4. rank \in [ S -> 0 .. n - 1 ] /\ \A i \in S : rank[i] = Cardinality(B(i)) /\ rank[i] \in Nat
  BY <1>1, <1>2 DEF Rank
<1> HIDE DEF n, rank, B
<1>5. \A i, j \in S : <<i, j>> \in R => rank[i] < rank[j]
  BY <1>3, <1>4
<1>6. \A i, j \in S : ~ (rank[i] < rank[j] /\ rank[j] < rank[i]) /\ ~ (rank[i] < rank[i])
  BY <1>4
<1>7. \A i, j \in S : <<i, j>> \in R <=> rank[i] < rank[j]
  BY <1>5, <1>6, Zenon DEF Orders
<1>8. \A i, j \in S : rank[i] = rank[j] => i = j
  BY <1>5, <1>6, Zenon DEF Orders
<1>9. rank \in Injection(S, 0 .. n - 1)
  BY <1>4, <1>8 DEF Injection, IsInjective
<1>10. IsFiniteSet(0 .. n - 1) /\ Cardinality(0 .. n - 1) = n
  BY <1>1, FS_Interval
<1>11. rank \in Surjection(S, 0 .. n - 1)
  BY <1>9, <1>10, FS_Injection DEF n
<1>12. \A k \in 0 .. n - 1 : \E i \in S : rank[i] = k
  BY <1>11 DEF Surjection
<1>13. QED
  BY <1>1, <1>4, <1>7, <1>8, <1>12 DEF n, rank

\* InOrder lists every element of the set once, in the order R.
LEMMA InOrderIs ==
  ASSUME NEW S, IsFiniteSet(S), NEW R, Orders(R, S)
  PROVE  /\ Cardinality(S) \in Nat
         /\ InOrder(S, R) \in [ 1 .. Cardinality(S) -> S ]
         /\ \A k \in 1 .. Cardinality(S) :
              Cardinality(Before(S, R, InOrder(S, R)[k])) = k - 1
         /\ \A k, l \in 1 .. Cardinality(S) :
              <<InOrder(S, R)[k], InOrder(S, R)[l]>> \in R <=> k < l
         /\ \A i \in S : \E k \in 1 .. Cardinality(S) : InOrder(S, R)[k] = i
<1> DEFINE n == Cardinality(S)
           rank == Rank(S, R)
           f == InOrder(S, R)
<1>1. /\ n \in Nat
      /\ rank \in [ S -> 0 .. n - 1 ]
      /\ \A i, j \in S : <<i, j>> \in R <=> rank[i] < rank[j]
      /\ \A i, j \in S : rank[i] = rank[j] => i = j
      /\ \A k \in 0 .. n - 1 : \E i \in S : rank[i] = k
  BY RanksAreAll
<1>2. \A i \in S : rank[i] = Cardinality(Before(S, R, i))
  BY DEF Rank
<1>3. \A k \in 1 .. n : f[k] = CHOOSE i \in S : Cardinality(Before(S, R, i)) = k - 1
  BY DEF InOrder
<1>4. DOMAIN f = 1 .. n /\ f = [ k \in 1 .. n |-> f[k] ]
  BY DEF InOrder
<1> HIDE DEF rank, f, n
<1>5. ASSUME NEW k \in 1 .. n
      PROVE  f[k] \in S /\ Cardinality(Before(S, R, f[k])) = k - 1 /\ rank[f[k]] = k - 1
  <2>1. k - 1 \in 0 .. n - 1
    BY <1>1
  <2>2. \E i \in S : Cardinality(Before(S, R, i)) = k - 1
    BY <1>1, <1>2, <2>1
  <2>3. f[k] = CHOOSE i \in S : Cardinality(Before(S, R, i)) = k - 1
    BY <1>3
  <2>4. f[k] \in S /\ Cardinality(Before(S, R, f[k])) = k - 1
    BY <2>2, <2>3, Zenon
  <2>5. QED
    BY <2>4, <1>2
<1>6. f \in [ 1 .. n -> S ]
  BY <1>4, <1>5
<1>7. \A k, l \in 1 .. n : <<f[k], f[l]>> \in R <=> k < l
  <2> SUFFICES ASSUME NEW k \in 1 .. n, NEW l \in 1 .. n
               PROVE  <<f[k], f[l]>> \in R <=> k < l
    OBVIOUS
  <2>1. rank[f[k]] = k - 1 /\ rank[f[l]] = l - 1 /\ f[k] \in S /\ f[l] \in S
    BY <1>5
  <2>2. k - 1 < l - 1 <=> k < l
    BY <1>1
  <2>3. QED
    BY <2>1, <2>2, <1>1
<1>8. \A i \in S : \E k \in 1 .. n : f[k] = i
  <2> SUFFICES ASSUME NEW i \in S PROVE \E k \in 1 .. n : f[k] = i
    OBVIOUS
  <2>1. PICK r \in 0 .. n - 1 : r = rank[i]
    BY <1>1
  <2>2. r + 1 \in 1 .. n /\ r + 1 - 1 = r
    BY <1>1
  <2>3. f[r + 1] \in S /\ rank[f[r + 1]] = r + 1 - 1
    BY <2>2, <1>5
  <2>4. f[r + 1] = i
    BY <2>1, <2>2, <2>3, <1>1
  <2>5. QED
    BY <2>2, <2>4
<1>9. QED
  BY <1>1, <1>5, <1>6, <1>7, <1>8 DEF n, f

\* The indexes below i, and the indexes in their order.
Below(kept, i) == { j \in kept : j < i }
Place(kept) == InOrder(kept, Increasing(kept))

\* What is left of a list: the elements at increasing indexes, all those of kept.
LEMMA PartIs ==
  ASSUME NEW T, NEW s \in Seq(T), NEW kept \in SUBSET DOMAIN s
  PROVE  /\ Part(s, kept) \in Seq(T)
         /\ Len(Part(s, kept)) = Cardinality(kept)
         /\ IsFiniteSet(kept) /\ Cardinality(kept) \in Nat
         /\ Place(kept) \in [ 1 .. Cardinality(kept) -> kept ]
         /\ \A k \in 1 .. Cardinality(kept) :
              /\ Part(s, kept)[k] = s[Place(kept)[k]]
              /\ Cardinality(Below(kept, Place(kept)[k])) = k - 1
         /\ \A k, l \in 1 .. Cardinality(kept) : Place(kept)[k] < Place(kept)[l] <=> k < l
         /\ \A i \in kept : \E k \in 1 .. Cardinality(kept) : Place(kept)[k] = i
<1> DEFINE R == Increasing(kept)
           at == Place(kept)
           n == Cardinality(kept)
<1>1. kept \in SUBSET (1 .. Len(s)) /\ Len(s) \in Nat /\ \A i \in 1 .. Len(s) : s[i] \in T
  OBVIOUS
<1>2. IsFiniteSet(kept)
  BY <1>1, FS_Interval, FS_Subset
<1>3. /\ \A i \in kept : i \in Nat
      /\ \A i, j \in kept : <<i, j>> \in R <=> i < j
  BY <1>1 DEF Increasing
<1>4. Orders(R, kept)
  <2> HIDE DEF R
  <2> QED
    BY <1>3 DEF Orders
<1>5. /\ n \in Nat
      /\ at \in [ 1 .. n -> kept ]
      /\ \A k \in 1 .. n : Cardinality(Before(kept, R, at[k])) = k - 1
      /\ \A k, l \in 1 .. n : <<at[k], at[l]>> \in R <=> k < l
      /\ \A i \in kept : \E k \in 1 .. n : at[k] = i
  BY <1>2, <1>4, InOrderIs DEF Place
<1>6. Part(s, kept) = [ k \in 1 .. n |-> s[at[k]] ]
  BY DEF Part, Place
<1> HIDE DEF n, at, R
<1>7. \A k \in 1 .. n : Below(kept, at[k]) = Before(kept, R, at[k])
  BY <1>3, <1>5 DEF Before, Below
<1>8. \A k, l \in 1 .. n : at[k] < at[l] <=> k < l
  BY <1>3, <1>5
<1>9. \A k \in 1 .. n : s[at[k]] \in T
  BY <1>1, <1>5
<1>10. Part(s, kept) \in Seq(T) /\ Len(Part(s, kept)) = n
  BY <1>5, <1>6, <1>9
<1>11. \A k \in 1 .. n : Part(s, kept)[k] = s[at[k]]
  BY <1>6
<1>12. \A k \in 1 .. n : Cardinality(Below(kept, at[k])) = k - 1
  BY <1>5, <1>7
<1>13. QED
  BY <1>2, <1>5, <1>8, <1>10, <1>11, <1>12 DEF n, at

-----------------------------------------------------------------------------
(* IntelBroadcast: a walk over the list of clients.                        *)

\* The first of a list.
Prefix(list, index) == { list[i] : i \in { i \in DOMAIN list : i <= index } }

\* Whom a walk has passed over.
MissedIn(list, w) == (w.start \cap Prefix(list, w.index)) \ w.served

LEMMA ViewersFinite == IsFiniteSet(Viewer)
  BY IntelAssumption, FS_Interval DEF Viewer

\* Whoever leaves the list lets one of those behind into its first places.
LEMMA RemainingIs ==
  ASSUME NEW list \in Seq(Viewer), IsInjective(list), NEW gone
  PROVE  /\ Remaining(list, gone) \in Seq(Viewer)
         /\ IsInjective(Remaining(list, gone))
         /\ ToSet(Remaining(list, gone)) = ToSet(list) \ gone
         /\ \A index \in Nat :
              Cardinality(Prefix(Remaining(list, gone), index) \ Prefix(list, index))
                <= Cardinality(gone \cap ToSet(list))
<1> DEFINE kept == { i \in DOMAIN list : list[i] \notin gone }
           n == Cardinality(kept)
           new == Part(list, kept)
           at == Place(kept)
           taken == gone \cap ToSet(list)
<1>1. kept \in SUBSET DOMAIN list /\ DOMAIN list = 1 .. Len(list) /\ Len(list) \in Nat
  OBVIOUS
<1>2. /\ new \in Seq(Viewer) /\ Len(new) = n /\ n \in Nat /\ IsFiniteSet(kept)
      /\ at \in [ 1 .. n -> kept ]
      /\ \A k \in 1 .. n : new[k] = list[at[k]] /\ Cardinality(Below(kept, at[k])) = k - 1
      /\ \A k, l \in 1 .. n : at[k] < at[l] <=> k < l
      /\ \A i \in kept : \E k \in 1 .. n : at[k] = i
  <2> HIDE DEF kept
  <2>1. kept \in SUBSET DOMAIN list
    BY <1>1
  <2>2. /\ Part(list, kept) \in Seq(Viewer)
        /\ Len(Part(list, kept)) = Cardinality(kept)
        /\ IsFiniteSet(kept) /\ Cardinality(kept) \in Nat
        /\ Place(kept) \in [ 1 .. Cardinality(kept) -> kept ]
        /\ \A k \in 1 .. Cardinality(kept) :
             /\ Part(list, kept)[k] = list[Place(kept)[k]]
             /\ Cardinality(Below(kept, Place(kept)[k])) = k - 1
        /\ \A k, l \in 1 .. Cardinality(kept) : Place(kept)[k] < Place(kept)[l] <=> k < l
        /\ \A i \in kept : \E k \in 1 .. Cardinality(kept) : Place(kept)[k] = i
    BY <2>1, PartIs, Zenon
  <2>3. QED
    BY <2>2
<1>3. DOMAIN new = 1 .. n
  <2> HIDE DEF new, n
  <2>1. QED
    BY <1>2
<1>4. \A i \in kept : i \in 1 .. Len(list) /\ list[i] \notin gone
  OBVIOUS
<1>5. \A i \in 1 .. Len(list) : i \in kept \/ list[i] \in taken
  BY DEF ToSet
<1>6. \A i, j \in 1 .. Len(list) : list[i] = list[j] => i = j
  BY DEF IsInjective
<1>7. Remaining(list, gone) = new
  BY DEF Remaining
<1>8. ToSet(list) \in SUBSET Viewer /\ IsFiniteSet(Viewer)
  <2>1. \A i \in DOMAIN list : list[i] \in Viewer
    OBVIOUS
  <2>2. QED
    BY <2>1, ViewersFinite DEF ToSet
<1>9. IsFiniteSet(taken)
  BY <1>8, FS_Subset
<1> HIDE DEF new, n, kept, at
<1>10. IsInjective(new)
  <2> SUFFICES ASSUME NEW k \in 1 .. n, NEW l \in 1 .. n, new[k] = new[l]
               PROVE  k = l
    BY <1>3 DEF IsInjective
  <2>1. at[k] = at[l] /\ at[k] \in Nat
    <3>1. at[k] \in 1 .. Len(list) /\ at[l] \in 1 .. Len(list)
      BY <1>2, <1>4
    <3>2. list[at[k]] = list[at[l]]
      BY <1>2
    <3>3. QED
      BY <3>1, <3>2, <1>6
  <2>2. ~ (k < l) /\ ~ (l < k)
    BY <2>1, <1>2
  <2>3. QED
    BY <2>2, <1>2
<1>11. ToSet(new) = ToSet(list) \ gone
  <2>1. ASSUME NEW k \in 1 .. n PROVE new[k] \in ToSet(list) \ gone
    BY <1>1, <1>2, <1>4 DEF ToSet
  <2>2. ASSUME NEW i \in 1 .. Len(list), list[i] \notin gone PROVE \E k \in 1 .. n : new[k] = list[i]
    <3>1. i \in kept
      BY <2>2 DEF kept
    <3>2. QED
      BY <3>1, <1>2
  <2>3. QED
    BY <2>1, <2>2, <1>1, <1>3 DEF ToSet
<1>12. ASSUME NEW index \in Nat
       PROVE  Cardinality(Prefix(new, index) \ Prefix(list, index)) <= Cardinality(taken)
  <2> DEFINE D == Prefix(new, index) \ Prefix(list, index)
  <2>1. Cardinality(taken) \in Nat
    BY <1>9, FS_CardinalityType
  <2>2. ASSUME NEW c \in D
        PROVE  \E k \in 1 .. n : k <= index /\ new[k] = c /\ index < at[k]
    <3>1. PICK k \in 1 .. n : k <= index /\ new[k] = c
      BY <1>3 DEF Prefix
    <3>2. at[k] \in 1 .. Len(list) /\ list[at[k]] = c
      BY <3>1, <1>2, <1>4
    <3>3. ~ (at[k] <= index)
      BY <3>2, <1>1 DEF Prefix
    <3>4. QED
      BY <3>1, <3>2, <3>3
  <2> HIDE DEF D
  <2>3. CASE Len(list) <= index
    <3>1. D = {}
      <4> SUFFICES ASSUME NEW c \in D PROVE FALSE
        OBVIOUS
      <4>1. PICK k \in 1 .. n : k <= index /\ new[k] = c /\ index < at[k]
        BY <2>2
      <4>2. at[k] \in 1 .. Len(list)
        BY <1>2, <1>4
      <4>3. QED
        BY <4>1, <4>2, <2>3, <1>1
    <3>2. Cardinality(D) = 0
      BY <3>1, FS_EmptySet
    <3>3. QED
      BY <3>2, <2>1 DEF D
  <2>4. CASE index < Len(list)
    <3> DEFINE h == Cardinality((1 .. index) \cap kept)
               N == (1 .. index) \ kept
               g == [ c \in D |-> CHOOSE k \in 1 .. n : k <= index /\ new[k] = c /\ index < at[k] ]
               m == [ j \in N |-> list[j] ]
    <3>1. IsFiniteSet(1 .. index) /\ Cardinality(1 .. index) = index
      BY FS_Interval
    <3>2. IsFiniteSet(N) /\ Cardinality(N) = index - h /\ h \in Nat /\ h <= index
      <4>1. IsFiniteSet((1 .. index) \cap kept) /\ Cardinality((1 .. index) \cap kept) <= Cardinality(1 .. index)
        BY <3>1, FS_Intersection
      <4>2. QED
        BY <4>1, <3>1, FS_Difference, FS_CardinalityType
    <3>3. N \subseteq 1 .. Len(list) /\ \A j \in N : list[j] \in taken
      BY <2>4, <1>1, <1>5
    <3>4. Cardinality(N) <= Cardinality(taken)
      <4>1. m \in Injection(N, taken)
        BY <3>3, <1>6 DEF Injection, IsInjective
      <4>2. QED
        BY <4>1, <1>9, FS_Injection
    <3> HIDE DEF h, N
    <3>5. \A c \in D : g[c] \in 1 .. n /\ g[c] <= index /\ new[g[c]] = c /\ index < at[g[c]]
      BY <2>2
    <3> HIDE DEF g
    <3>6. ASSUME NEW c \in D PROVE g[c] \in h + 1 .. index
      <4>1. PICK k \in 1 .. n : k = g[c] /\ k <= index /\ index < at[k]
        BY <3>5
      <4>2. Below(kept, at[k]) \in SUBSET kept
        BY DEF Below
      <4>3. IsFiniteSet(Below(kept, at[k]))
        BY <4>2, <1>2, FS_Subset
      <4>4. (1 .. index) \cap kept \in SUBSET Below(kept, at[k])
        BY <4>1, <1>1, <1>2, <1>4 DEF Below
      <4>5. h <= k - 1
        BY <4>3, <4>4, <1>2, FS_Subset DEF h
      <4>6. QED
        BY <4>1, <4>5, <3>2, <1>2
    <3>7. g \in Injection(D, h + 1 .. index)
      BY <3>5, <3>6 DEF Injection, IsInjective, g
    <3>8. IsFiniteSet(h + 1 .. index) /\ Cardinality(h + 1 .. index) = index - h
      <4>1. h + 1 \in Int /\ index \in Int
        BY <3>2
      <4>2. /\ IsFiniteSet(h + 1 .. index)
            /\ Cardinality(h + 1 .. index) = IF h + 1 > index THEN 0 ELSE index - (h + 1) + 1
        BY <4>1, FS_Interval
      <4>3. QED
        BY <4>2, <3>2
    <3>9. Cardinality(D) <= index - h
      BY <3>7, <3>8, FS_Injection
    <3>10. QED
      <4>1. IsFiniteSet(D)
        BY <3>7, <3>8, FS_Injection
      <4>2. Cardinality(D) \in Nat
        BY <4>1, FS_CardinalityType
      <4>3. QED
        BY <4>2, <3>9, <3>4, <3>2, <2>1 DEF D
  <2>5. QED
    BY <2>3, <2>4, <1>1
<1>13. QED
  BY <1>2, <1>7, <1>10, <1>11, <1>12

\* A removal while a walk is under way.
LEMMA RemovalCosts ==
  ASSUME NEW list \in Seq(Viewer), IsInjective(list), NEW gone, NEW w \in Walk,
         w.removed \cap ToSet(list) = {},
         Cardinality(MissedIn(list, w)) <= Cardinality(w.removed),
         NEW v \in Walk, v = [ w EXCEPT !.removed = @ \cup (gone \cap ToSet(list)) ]
  PROVE  /\ v.removed \cap ToSet(Remaining(list, gone)) = {}
         /\ Cardinality(MissedIn(Remaining(list, gone), v)) <= Cardinality(v.removed)
<1> DEFINE new == Remaining(list, gone)
           taken == gone \cap ToSet(list)
           late == Prefix(new, w.index) \ Prefix(list, w.index)
           old == MissedIn(list, w)
<1>1. /\ v.removed = w.removed \cup taken /\ v.index = w.index
      /\ v.start = w.start /\ v.served = w.served
      /\ w.removed \subseteq Viewer /\ w.start \subseteq Viewer /\ w.index \in Nat
  BY DEF Walk
<1>2. /\ new \in Seq(Viewer) /\ ToSet(new) = ToSet(list) \ gone
      /\ Cardinality(late) <= Cardinality(taken)
  BY <1>1, RemainingIs
<1>3. IsFiniteSet(Viewer)
  BY ViewersFinite
<1>4. Prefix(new, w.index) \subseteq Viewer /\ taken \subseteq Viewer
  BY <1>2 DEF Prefix, ToSet
<1>5. late \subseteq Viewer /\ old \subseteq Viewer /\ MissedIn(new, v) \subseteq old \cup late
  BY <1>1, <1>4 DEF MissedIn
<1> HIDE DEF late, old, taken, new
<1>6. /\ IsFiniteSet(late) /\ IsFiniteSet(old) /\ IsFiniteSet(taken) /\ IsFiniteSet(w.removed)
      /\ IsFiniteSet(old \cup late)
  BY <1>1, <1>3, <1>4, <1>5, FS_Subset, FS_Union
<1>7. /\ Cardinality(MissedIn(new, v)) <= Cardinality(old \cup late)
      /\ Cardinality(MissedIn(new, v)) \in Nat
  BY <1>5, <1>6, FS_Subset, FS_CardinalityType
<1>8. /\ Cardinality(old) \in Nat /\ Cardinality(late) \in Nat
      /\ Cardinality(taken) \in Nat /\ Cardinality(w.removed) \in Nat
      /\ Cardinality(old \cup late) \in Nat /\ Cardinality(old \cap late) \in Nat
  BY <1>6, FS_CardinalityType, FS_Intersection
<1>9. Cardinality(old \cup late) = Cardinality(old) + Cardinality(late) - Cardinality(old \cap late)
  BY <1>6, FS_Union
<1>10. Cardinality(v.removed) = Cardinality(w.removed) + Cardinality(taken)
  <2>1. w.removed \cap taken = {}
    BY DEF taken
  <2>2. Cardinality(w.removed \cap taken) = 0
    BY <2>1, FS_EmptySet
  <2>3. Cardinality(w.removed \cup taken)
          = Cardinality(w.removed) + Cardinality(taken) - Cardinality(w.removed \cap taken)
    BY <1>6, FS_Union
  <2>4. v.removed = w.removed \cup taken
    BY <1>1
  <2>5. Cardinality(v.removed)
          = Cardinality(w.removed) + Cardinality(taken) - Cardinality(w.removed \cap taken)
    BY <2>3, <2>4
  <2>6. QED
    BY <2>2, <2>5, <1>8
<1>11. Cardinality(old) <= Cardinality(w.removed)
  BY DEF old
<1>12. Cardinality(MissedIn(new, v)) <= Cardinality(v.removed)
  BY <1>2, <1>7, <1>8, <1>9, <1>10, <1>11
<1>13. v.removed \cap ToSet(new) = {}
  BY <1>1, <1>2 DEF taken
<1>14. QED
  BY <1>12, <1>13 DEF new

\* Whom a walk has passed over makes up for those who left; these do not come
\* back, and whoever joins meanwhile was not there at the start.
WalkRight(w) ==
  w.doing # "none" =>
    /\ \A c \in w.start \cup w.removed : handler[c] # "none"
    /\ w.removed \cap ToSet(conns) = {}
    /\ Cardinality(MissedIn(conns, w)) <= Cardinality(w.removed)
    /\ w.doing = "send" => w.disconnected # << >>

\* The inductive invariant.
IntelInv ==
  /\ IntelTypeOK
  /\ \A c \in ToSet(conns) : handler[c] # "none"
  /\ \A t \in Walker : WalkRight(walk[t])

LEMMA IntelStart == IntelInit => IntelInv
<1> SUFFICES ASSUME IntelInit PROVE IntelInv
  OBVIOUS
<1>1. Away \in Walk /\ Away.doing = "none"
  BY DEF Away, Walk
<1>2. conns \in Seq(Viewer) /\ IsInjective(conns) /\ ToSet(conns) = {}
  BY DEF IntelInit, IsInjective, ToSet
<1>3. QED
  BY <1>1, <1>2, IntelAssumption DEF IntelInit, IntelInv, IntelTypeOK, WalkRight

\* What leaves walks and the list alone.
LEMMA IntelAside ==
  ASSUME IntelInv, UNCHANGED <<conns, walk, broadcasts>>,
         handler' \in [ Viewer -> {"none", "receives", "over"} ], alive' \subseteq Viewer,
         \A c \in Viewer : handler[c] # "none" => handler'[c] # "none"
  PROVE  IntelInv'
<1>1. ToSet(conns) \subseteq Viewer
  BY DEF IntelInv, IntelTypeOK, ToSet
<1>2. \A t \in Walker : walk[t] \in Walk /\ walk[t].start \cup walk[t].removed \subseteq Viewer
  BY DEF IntelInv, IntelTypeOK, Walk
<1>3. IntelTypeOK'
  BY DEF IntelInv, IntelTypeOK
<1>4. \A t \in Walker : WalkRight(walk[t])'
  BY <1>2 DEF IntelInv, WalkRight
<1>5. QED
  BY <1>1, <1>3, <1>4 DEF IntelInv

\* What becomes of a walk w when list is left, and taken have gone.
Told(v, w, list, taken) ==
  /\ v \in Walk
  /\ v.doing = w.doing /\ v.disconnected = w.disconnected /\ v.start = w.start
  /\ v.removed = w.removed \cup taken
  /\ v.removed \cap ToSet(list) = {}
  /\ Cardinality(MissedIn(list, v)) <= Cardinality(v.removed)

\* The list keeps its clients but those of gone, a walk hears of it.
LEMMA RemovalOK ==
  ASSUME IntelInv, NEW gone, NEW t \in Walker, walk[t].doing # "none",
         NEW v \in { Seen(walk[t], gone \cap ToSet(conns)) }
  PROVE  Told(v, walk[t], Remaining(conns, gone), gone \cap ToSet(conns))
<1> DEFINE taken == gone \cap ToSet(conns)
           w == walk[t]
<1>1. conns \in Seq(Viewer) /\ IsInjective(conns) /\ w \in Walk
  BY DEF IntelInv, IntelTypeOK
<1>2. taken \subseteq Viewer
  BY <1>1 DEF ToSet
<1>3. v = [ w EXCEPT !.removed = @ \cup taken ]
  BY DEF Seen
<1>4. v \in Walk
  <2> HIDE DEF w, taken
  <2>1. QED
    BY <1>1, <1>2, <1>3 DEF Walk
<1>5. /\ w.removed \cap ToSet(conns) = {}
      /\ Cardinality(MissedIn(conns, w)) <= Cardinality(w.removed)
  BY DEF IntelInv, WalkRight
<1>6. /\ v.removed \cap ToSet(Remaining(conns, gone)) = {}
      /\ Cardinality(MissedIn(Remaining(conns, gone), v)) <= Cardinality(v.removed)
  BY <1>1, <1>3, <1>4, <1>5, RemovalCosts
<1>7. /\ v.doing = w.doing /\ v.disconnected = w.disconnected /\ v.start = w.start
      /\ v.removed = w.removed \cup taken
  <2> HIDE DEF w, taken
  <2>1. QED
    BY <1>1, <1>3 DEF Walk
<1>8. QED
  BY <1>4, <1>6, <1>7 DEF Told

\* All walks but those of rest, who are away, hear of a removal.
LEMMA LeaversOK ==
  ASSUME IntelInv, NEW gone, conns' = Remaining(conns, gone),
         NEW rest \in SUBSET Walker,
         walk' = [ t \in Walker |-> IF t \in rest THEN Away
                                    ELSE Seen(walk[t], gone \cap ToSet(conns)) ],
         broadcasts' = broadcasts, alive' = alive,
         handler' \in [ Viewer -> {"none", "receives", "over"} ],
         \A c \in Viewer : handler[c] # "none" => handler'[c] # "none"
  PROVE  IntelInv'
<1>1. conns \in Seq(Viewer) /\ IsInjective(conns) /\ walk \in [ Walker -> Walk ]
      /\ ToSet(conns) \subseteq Viewer
  BY DEF IntelInv, IntelTypeOK, ToSet
<1>2. /\ conns' \in Seq(Viewer) /\ IsInjective(conns')
      /\ ToSet(conns') = ToSet(conns) \ gone
  BY <1>1, RemainingIs
<1>3. Away \in Walk /\ Away.doing = "none"
  BY DEF Away, Walk
<1>4. ASSUME NEW t \in Walker
      PROVE  walk'[t] \in Walk /\ WalkRight(walk[t])'
  <2>1. CASE t \in rest \/ walk[t].doing = "none"
    <3>1. walk'[t] = Away \/ walk'[t] = walk[t]
      BY <2>1 DEF Seen
    <3>2. walk'[t].doing = "none" /\ walk'[t] \in Walk
      BY <3>1, <2>1, <1>1, <1>3
    <3>3. QED
      BY <3>2 DEF WalkRight
  <2>2. CASE t \notin rest /\ walk[t].doing # "none"
    <3> DEFINE v == walk'[t]
    <3>1. walk'[t] = v /\ v = Seen(walk[t], gone \cap ToSet(conns))
      BY <2>2
    <3> HIDE DEF v
    <3>2. /\ v \in Walk
          /\ v.doing = walk[t].doing /\ v.disconnected = walk[t].disconnected
          /\ v.start = walk[t].start
          /\ v.removed = walk[t].removed \cup (gone \cap ToSet(conns))
          /\ v.removed \cap ToSet(conns') = {}
          /\ Cardinality(MissedIn(conns', v)) <= Cardinality(v.removed)
      <4>1. \A x \in { Seen(walk[t], gone \cap ToSet(conns)) } :
              Told(x, walk[t], Remaining(conns, gone), gone \cap ToSet(conns))
        BY <2>2, RemovalOK
      <4>2. Told(v, walk[t], conns', gone \cap ToSet(conns))
        BY <3>1, <4>1
      <4>3. QED
        BY <4>2 DEF Told
    <3>3. /\ \A c \in walk[t].start \cup walk[t].removed : handler[c] # "none"
          /\ walk[t].doing = "send" => walk[t].disconnected # << >>
          /\ \A c \in ToSet(conns) : handler[c] # "none"
      BY <2>2 DEF IntelInv, WalkRight
    <3>4. v.start \cup v.removed \subseteq Viewer
      BY <3>2 DEF Walk
    <3>5. \A c \in v.start \cup v.removed : handler[c] # "none"
      BY <3>2, <3>3
    <3>6. \A c \in v.start \cup v.removed : handler'[c] # "none"
      BY <3>4, <3>5
    <3>7. WalkRight(walk[t])'
      BY <3>1, <3>2, <3>3, <3>6 DEF WalkRight
    <3>8. QED
      BY <3>1, <3>2, <3>7
  <2>3. QED
    BY <2>1, <2>2
<1>5. walk' \in [ Walker -> Walk ]
  BY <1>4
<1>6. IntelTypeOK'
  BY <1>2, <1>5 DEF IntelInv, IntelTypeOK
<1>7. \A c \in ToSet(conns') : handler'[c] # "none"
  BY <1>1, <1>2 DEF IntelInv
<1>8. QED
  BY <1>4, <1>6, <1>7 DEF IntelInv

LEMMA JoinOK == ASSUME IntelInv, NEW c \in Viewer, Join(c) PROVE IntelInv'
<1>1. conns \in Seq(Viewer) /\ IsInjective(conns) /\ handler[c] = "none" /\ c \notin ToSet(conns)
  BY DEF IntelInv, IntelTypeOK, Join
<1>2. /\ conns' = Append(conns, c) /\ handler' = [ handler EXCEPT ![c] = "receives" ]
      /\ alive' = alive \cup {c} /\ UNCHANGED <<walk, broadcasts>>
  BY DEF Join
<1>3. /\ Len(conns) \in Nat /\ DOMAIN conns = 1 .. Len(conns)
      /\ conns' \in Seq(Viewer) /\ DOMAIN conns' = 1 .. Len(conns) + 1
      /\ conns'[Len(conns) + 1] = c
      /\ \A i \in 1 .. Len(conns) : conns'[i] = conns[i]
  BY <1>1, <1>2
<1>4. ToSet(conns') = ToSet(conns) \cup {c}
  <2>1. \A i \in 1 .. Len(conns) + 1 : i \in 1 .. Len(conns) \/ i = Len(conns) + 1
    BY <1>3
  <2>2. Len(conns) + 1 \in 1 .. Len(conns) + 1 /\ 1 .. Len(conns) \subseteq 1 .. Len(conns) + 1
    BY <1>3
  <2>3. QED
    BY <1>3, <2>1, <2>2 DEF ToSet
<1>5. IsInjective(conns')
  <2>1. \A i \in 1 .. Len(conns) : conns[i] # c
    BY <1>1, <1>3 DEF ToSet
  <2>2. \A i \in 1 .. Len(conns) + 1 : i \in 1 .. Len(conns) \/ i = Len(conns) + 1
    BY <1>3
  <2>3. \A i, j \in 1 .. Len(conns) + 1 : conns'[i] = conns'[j] => i = j
    BY <1>1, <1>3, <2>1, <2>2 DEF IsInjective
  <2>4. QED
    BY <1>3, <2>3 DEF IsInjective
<1>6. \A d \in Viewer : handler'[d] = "none" => handler[d] = "none"
  BY <1>2 DEF IntelInv, IntelTypeOK
<1>7. IntelTypeOK'
  BY <1>2, <1>3, <1>5 DEF IntelInv, IntelTypeOK
<1>8. ASSUME NEW t \in Walker PROVE WalkRight(walk[t])'
  <2> DEFINE w == walk[t]
  <2>1. w \in Walk /\ WalkRight(w) /\ w.start \subseteq Viewer /\ w.removed \subseteq Viewer
    BY DEF IntelInv, IntelTypeOK, Walk
  <2>2. CASE w.doing = "none"
    BY <2>2, <1>2 DEF WalkRight
  <2>3. CASE w.doing # "none"
    <3> HIDE DEF w
    <3>1. /\ \A d \in w.start \cup w.removed : handler[d] # "none"
          /\ w.removed \cap ToSet(conns) = {}
          /\ Cardinality(MissedIn(conns, w)) <= Cardinality(w.removed)
          /\ w.doing = "send" => w.disconnected # << >>
      BY <2>1, <2>3 DEF WalkRight
    <3>2. c \notin w.start /\ c \notin w.removed
      BY <1>1, <3>1
    <3>3. Prefix(conns', w.index) \subseteq Prefix(conns, w.index) \cup {c}
      <4>1. \A i \in 1 .. Len(conns) + 1 : i \in 1 .. Len(conns) \/ i = Len(conns) + 1
        BY <1>3
      <4>2. QED
        BY <4>1, <1>3 DEF Prefix
    <3>4. Prefix(conns, w.index) \subseteq Prefix(conns', w.index)
      <4>1. \A i \in 1 .. Len(conns) : i \in 1 .. Len(conns) + 1
        BY <1>3
      <4>2. QED
        BY <4>1, <1>3 DEF Prefix
    <3>5. MissedIn(conns', w) = MissedIn(conns, w)
      BY <3>2, <3>3, <3>4 DEF MissedIn
    <3>6. \A d \in w.start \cup w.removed : handler'[d] # "none"
      BY <2>1, <3>1, <1>6
    <3>7. w.removed \cap ToSet(conns') = {}
      BY <1>4, <3>1, <3>2
    <3>8. w = walk'[t]
      BY <1>2 DEF w
    <3>9. QED
      BY <3>1, <3>5, <3>6, <3>7, <3>8 DEF WalkRight
  <2>4. QED
    BY <2>2, <2>3
<1>9. \A d \in ToSet(conns') : handler'[d] # "none"
  BY <1>1, <1>2, <1>4 DEF IntelInv, IntelTypeOK, ToSet
<1>10. QED
  BY <1>7, <1>8, <1>9 DEF IntelInv

\* The record of a walk that begins.
LEMMA BeginRecord ==
  ASSUME NEW s \in SUBSET Viewer, NEW v \in { [ Away EXCEPT !.doing = "next", !.start = s ] }
  PROVE  v \in Walk /\ v.doing = "next" /\ v.start = s /\ v.removed = {} /\ v.index = 0
<1> DEFINE a == Away
<1>1. a \in Walk /\ a.removed = {} /\ a.index = 0
  BY DEF Away, Walk
<1>2. v = [ a EXCEPT !.doing = "next", !.start = s ]
  OBVIOUS
<1> HIDE DEF a
<1>3. QED
  BY <1>1, <1>2 DEF Walk

LEMMA BeginOK == ASSUME IntelInv, NEW t \in Walker, BeginWalk(t) PROVE IntelInv'
<1>1. /\ broadcasts < MaxWalks /\ broadcasts' = broadcasts + 1
      /\ walk' = [ walk EXCEPT ![t] = [ Away EXCEPT !.doing = "next", !.start = ToSet(conns) ] ]
      /\ UNCHANGED <<conns, handler, alive>>
  BY DEF BeginWalk
<1> DEFINE v == [ Away EXCEPT !.doing = "next", !.start = ToSet(conns) ]
<1>2. conns \in Seq(Viewer) /\ ToSet(conns) \subseteq Viewer
  BY DEF IntelInv, IntelTypeOK, ToSet
<1>3. /\ v \in Walk
      /\ v.doing = "next" /\ v.start = ToSet(conns) /\ v.removed = {} /\ v.index = 0
  BY <1>2, BeginRecord
<1> HIDE DEF v
<1>4. MissedIn(conns, v) = {}
  <2>1. DOMAIN conns = 1 .. Len(conns)
    BY <1>2
  <2>2. \A i \in 1 .. Len(conns) : ~ (i <= 0)
    OBVIOUS
  <2>3. Prefix(conns, v.index) = {}
    BY <1>3, <2>1, <2>2 DEF Prefix
  <2>4. QED
    BY <2>3 DEF MissedIn
<1>5. Cardinality(MissedIn(conns, v)) <= Cardinality(v.removed)
  BY <1>3, <1>4, FS_EmptySet
<1>6. WalkRight(v)
  BY <1>3, <1>5 DEF WalkRight, IntelInv
<1>7. walk' = [ walk EXCEPT ![t] = v ]
  BY <1>1 DEF v
<1>8. walk' \in [ Walker -> Walk ] /\ \A u \in Walker : walk'[u] = IF u = t THEN v ELSE walk[u]
  BY <1>3, <1>7 DEF IntelInv, IntelTypeOK
<1>9. \A u \in Walker : WalkRight(walk[u])'
  BY <1>1, <1>6, <1>8 DEF IntelInv, WalkRight
<1>10. IntelTypeOK'
  BY <1>1, <1>8, IntelAssumption DEF IntelInv, IntelTypeOK
<1>11. QED
  BY <1>1, <1>9, <1>10 DEF IntelInv

\* A step of one walk that leaves the list alone.
LEMMA OwnStep ==
  ASSUME IntelInv, NEW t \in Walker, NEW v \in Walk, walk' = [ walk EXCEPT ![t] = v ],
         UNCHANGED <<conns, handler, alive, broadcasts>>,
         v.start = walk[t].start, v.removed = walk[t].removed, walk[t].doing # "none",
         MissedIn(conns, v) \subseteq MissedIn(conns, walk[t]),
         v.doing = "send" => v.disconnected # << >>
  PROVE  IntelInv'
<1>1. /\ \A c \in v.start \cup v.removed : handler[c] # "none"
      /\ v.removed \cap ToSet(conns) = {}
      /\ Cardinality(MissedIn(conns, walk[t])) <= Cardinality(v.removed)
  BY DEF IntelInv, WalkRight
<1>2. /\ walk[t].start \subseteq Viewer /\ v.removed \subseteq Viewer
  BY DEF IntelInv, IntelTypeOK, Walk
<1>3. Cardinality(MissedIn(conns, v)) <= Cardinality(v.removed)
  <2>1. MissedIn(conns, walk[t]) \subseteq Viewer
    BY <1>2 DEF MissedIn
  <2>2. /\ IsFiniteSet(MissedIn(conns, walk[t])) /\ IsFiniteSet(MissedIn(conns, v))
        /\ IsFiniteSet(v.removed)
        /\ Cardinality(MissedIn(conns, v)) <= Cardinality(MissedIn(conns, walk[t]))
    BY <2>1, <1>2, ViewersFinite, FS_Subset
  <2>3. /\ Cardinality(MissedIn(conns, walk[t])) \in Nat /\ Cardinality(MissedIn(conns, v)) \in Nat
        /\ Cardinality(v.removed) \in Nat
    BY <2>2, FS_CardinalityType
  <2>4. QED
    BY <1>1, <2>2, <2>3
<1>4. WalkRight(v)
  BY <1>1, <1>3 DEF WalkRight
<1>5. walk' \in [ Walker -> Walk ] /\ \A u \in Walker : walk'[u] = IF u = t THEN v ELSE walk[u]
  BY DEF IntelInv, IntelTypeOK
<1>6. \A u \in Walker : WalkRight(walk[u])'
  BY <1>4, <1>5 DEF IntelInv, WalkRight
<1>7. IntelTypeOK'
  BY <1>5 DEF IntelInv, IntelTypeOK
<1>8. QED
  BY <1>6, <1>7 DEF IntelInv

LEMMA SendNextOK == ASSUME IntelInv, NEW t \in Walker, SendNext(t) PROVE IntelInv'
<1> DEFINE w == walk[t]
           c == conns[w.index + 1]
           v == [ w EXCEPT !.doing = "send", !.index = @ + 1, !.served = @ \cup {c},
                           !.disconnected = Append(@, c) ]
<1>1. /\ w \in Walk /\ w.doing = "next" /\ w.index < Len(conns)
      /\ conns \in Seq(Viewer) /\ w.index \in Nat
      /\ w.disconnected \in Seq(Viewer)
  BY DEF SendNext, IntelInv, IntelTypeOK, Walk
<1>2. c \in Viewer /\ DOMAIN conns = 1 .. Len(conns) /\ Len(conns) \in Nat
  <2>1. w.index + 1 \in 1 .. Len(conns) /\ Len(conns) \in Nat
    BY <1>1
  <2> HIDE DEF w
  <2>2. QED
    BY <1>1, <2>1
<1>3. walk' = [ walk EXCEPT ![t] = v ] /\ UNCHANGED <<conns, handler, alive, broadcasts>>
  BY DEF SendNext, IntelInv, IntelTypeOK
<1> HIDE DEF w, c
<1>4. Append(w.disconnected, c) \in Seq(Viewer) /\ Append(w.disconnected, c) # << >>
  BY <1>1, <1>2, AppendProperties
<1>5. /\ v \in Walk
      /\ v.start = w.start /\ v.removed = w.removed /\ v.index = w.index + 1
      /\ v.served = w.served \cup {c} /\ v.disconnected = Append(w.disconnected, c)
  <2> DEFINE i == w.index + 1
             served == w.served \cup {c}
             d == Append(w.disconnected, c)
  <2>1. /\ v \in { [ w EXCEPT !.doing = "send", !.index = i, !.served = served,
                               !.disconnected = d ] }
        /\ i \in Nat /\ served \in SUBSET Viewer /\ d \in Seq(Viewer)
    BY <1>1, <1>2, <1>4 DEF Walk
  <2> HIDE DEF v, i, served, d
  <2>2. /\ v \in Walk
        /\ v.start = w.start /\ v.removed = w.removed /\ v.index = i
        /\ v.served = served /\ v.disconnected = d
    BY <1>1, <2>1 DEF Walk
  <2>3. QED
    BY <2>2 DEF i, served, d
<1> HIDE DEF v
<1>6. MissedIn(conns, v) \subseteq MissedIn(conns, w)
  <2>1. \A i \in 1 .. Len(conns) : i <= w.index + 1 => i <= w.index \/ i = w.index + 1
    BY <1>1, <1>2
  <2>2. Prefix(conns, w.index + 1) \subseteq Prefix(conns, w.index) \cup {c}
    BY <2>1, <1>2 DEF Prefix, c
  <2>3. QED
    BY <2>2, <1>5 DEF MissedIn
<1>7. QED
  <2>1. v.start = walk[t].start /\ v.removed = walk[t].removed /\ walk[t].doing # "none"
        /\ MissedIn(conns, v) \subseteq MissedIn(conns, walk[t])
    BY <1>1, <1>5, <1>6 DEF w
  <2>2. QED
    BY <2>1, <1>3, <1>4, <1>5, OwnStep

LEMMA SentToOK == ASSUME IntelInv, NEW t \in Walker, SentTo(t) PROVE IntelInv'
<1> DEFINE w == walk[t]
<1>1. w \in Walk /\ w.doing = "send" /\ w.disconnected \in Seq(Viewer) /\ w.disconnected # << >>
  BY DEF SentTo, IntelInv, IntelTypeOK, Walk, WalkRight
<1>2. /\ \/ walk' = [ walk EXCEPT ![t].doing = "next", ![t].disconnected = Front(@) ]
         \/ walk' = [ walk EXCEPT ![t].doing = "next" ]
      /\ UNCHANGED <<conns, handler, alive, broadcasts>>
  BY DEF SentTo, AfterFailure
<1>3. PICK v \in { [ w EXCEPT !.doing = "next", !.disconnected = Front(@) ],
                   [ w EXCEPT !.doing = "next" ] } : walk' = [ walk EXCEPT ![t] = v ]
  BY <1>2 DEF IntelInv, IntelTypeOK
<1> HIDE DEF w
<1>4. Front(w.disconnected) \in Seq(Viewer)
  BY <1>1 DEF Front
<1>5. /\ v \in Walk /\ v.doing = "next"
      /\ v.start = w.start /\ v.removed = w.removed /\ v.index = w.index /\ v.served = w.served
  BY <1>1, <1>4 DEF Walk
<1>6. MissedIn(conns, v) = MissedIn(conns, w)
  BY <1>5 DEF MissedIn
<1>7. v.start = walk[t].start /\ v.removed = walk[t].removed /\ walk[t].doing # "none"
      /\ MissedIn(conns, v) \subseteq MissedIn(conns, walk[t])
  BY <1>1, <1>5, <1>6 DEF w
<1>8. QED
  BY <1>2, <1>3, <1>5, <1>7, OwnStep

LEMMA IntelStep == IntelInv /\ [IntelNext]_intelVars => IntelInv'
<1> SUFFICES ASSUME IntelInv, [IntelNext]_intelVars PROVE IntelInv'
  OBVIOUS
<1>1. ASSUME NEW c \in Viewer, Refuse(c) \/ Hangup(c) PROVE IntelInv'
  <2>1. UNCHANGED <<conns, walk, broadcasts>>
    BY <1>1 DEF Refuse, Hangup
  <2>2. /\ handler' \in [ Viewer -> {"none", "receives", "over"} ] /\ alive' \subseteq Viewer
        /\ \A d \in Viewer : handler[d] # "none" => handler'[d] # "none"
    BY <1>1 DEF Refuse, Hangup, IntelInv, IntelTypeOK
  <2>3. QED
    BY <2>1, <2>2, IntelAside
<1>2. ASSUME NEW c \in Viewer, HandlerEnds(c) PROVE IntelInv'
  <2>1. /\ handler' \in [ Viewer -> {"none", "receives", "over"} ]
        /\ \A d \in Viewer : handler[d] # "none" => handler'[d] # "none"
    BY <1>2 DEF HandlerEnds, IntelInv, IntelTypeOK
  <2>2. /\ conns' = Remaining(conns, {c}) /\ broadcasts' = broadcasts /\ alive' = alive
        /\ walk' = [ t \in Walker |-> IF t \in {} THEN Away
                                      ELSE Seen(walk[t], {c} \cap ToSet(conns)) ]
    BY <1>2 DEF HandlerEnds
  <2>3. {} \in SUBSET Walker
    OBVIOUS
  <2>4. QED
    BY <2>1, <2>2, <2>3, LeaversOK
<1>3. ASSUME NEW t \in Walker, CleanUp(t) PROVE IntelInv'
  <2> DEFINE failed == walk[t].disconnected
             removed == { failed[k] : k \in { k \in DOMAIN failed :
                                       \A j \in 1 .. k : failed[j] \in ToSet(conns) } }
  <2>1. /\ conns' = Remaining(conns, removed)
        /\ walk' = [ u \in Walker |-> IF u = t THEN Away ELSE Seen(walk[u], removed) ]
        /\ UNCHANGED <<handler, alive, broadcasts>>
    BY <1>3 DEF CleanUp
  <2>2. failed \in Seq(Viewer)
    BY DEF IntelInv, IntelTypeOK, Walk
  <2>3. removed \cap ToSet(conns) = removed
    <3>1. \A k \in DOMAIN failed : k \in 1 .. k
      BY <2>2
    <3>2. QED
      BY <3>1
  <2> HIDE DEF removed
  <2>4. walk' = [ u \in Walker |-> IF u \in {t} THEN Away
                                   ELSE Seen(walk[u], removed \cap ToSet(conns)) ]
    BY <2>1, <2>3
  <2>5. /\ handler' \in [ Viewer -> {"none", "receives", "over"} ]
        /\ \A d \in Viewer : handler[d] # "none" => handler'[d] # "none"
    BY <2>1 DEF IntelInv, IntelTypeOK
  <2>6. {t} \in SUBSET Walker
    OBVIOUS
  <2>7. QED
    BY <2>1, <2>4, <2>5, <2>6, LeaversOK
<1>4. ASSUME NEW t \in Walker, PeriodicTopology(t) \/ RecordObservation(t) PROVE IntelInv'
  BY <1>4, BeginOK DEF PeriodicTopology, RecordObservation
<1>5. CASE UNCHANGED intelVars
  <2>1. UNCHANGED <<conns, handler, alive, walk, broadcasts>>
    BY <1>5 DEF intelVars
  <2>2. QED
    BY <2>1 DEF IntelInv, IntelTypeOK, WalkRight
<1>6. QED
  BY <1>1, <1>2, <1>3, <1>4, <1>5, JoinOK, SendNextOK, SentToOK DEF IntelNext

\* A walk over the list misses one client at most for each that leaves it
\* meanwhile, whatever joins, fails and is cleaned up (broadcast_to_clients of
\* intelligence_api.py), for any number of clients and of broadcasts.
THEOREM MissedForRemovals == IntelSpec => []MissedOnlyByRemoval
<1>1. IntelInv => MissedOnlyByRemoval
  <2> SUFFICES ASSUME IntelInv, NEW t \in Walker,
                      walk[t].doing = "next" /\ walk[t].index >= Len(conns)
               PROVE  Cardinality((walk[t].start \cap ToSet(conns)) \ walk[t].served)
                        <= Cardinality(walk[t].removed)
    BY DEF MissedOnlyByRemoval
  <2>1. conns \in Seq(Viewer) /\ walk[t].index \in Nat
    BY DEF IntelInv, IntelTypeOK, Walk
  <2>2. \A i \in DOMAIN conns : i <= walk[t].index
    BY <2>1
  <2>3. Prefix(conns, walk[t].index) = ToSet(conns)
    BY <2>2 DEF Prefix, ToSet
  <2>4. QED
    BY <2>3 DEF IntelInv, WalkRight, MissedIn
<1>2. QED
  BY <1>1, IntelStart, IntelStep, PTL DEF IntelSpec

\* Every variable keeps its type, and a client is in the list once.
THEOREM IntelTypes == IntelSpec => []IntelTypeOK
  BY IntelStart, IntelStep, PTL DEF IntelSpec, IntelInv

-----------------------------------------------------------------------------
(* Messages: least and greatest indexes, and dictionaries.                 *)

\* A nonempty set of indexes has a least and a greatest element.
LEMMA EndsExist ==
  ASSUME NEW n \in Nat, NEW S \in SUBSET (1 .. n), S # {}
  PROVE  /\ \E i \in S : \A j \in S : i <= j
         /\ \E i \in S : \A j \in S : j <= i
<1> DEFINE s == [ i \in 1 .. n |-> 0 ]
           N == Cardinality(S)
           at == Place(S)
<1>1. s \in Seq({0}) /\ DOMAIN s = 1 .. n
  OBVIOUS
<1> HIDE DEF s
<1>2. S \in SUBSET DOMAIN s
  BY <1>1
<1>3. /\ N \in Nat
      /\ at \in [ 1 .. N -> S ]
      /\ \A k, l \in 1 .. N : at[k] < at[l] <=> k < l
      /\ \A i \in S : \E k \in 1 .. N : at[k] = i
  BY <1>1, <1>2, PartIs
<1> HIDE DEF N, at
<1>4. 1 \in 1 .. N /\ N \in 1 .. N
  <2>1. PICK k \in 1 .. N : TRUE
    BY <1>3
  <2>2. QED
    BY <2>1, <1>3
<1>5. \A i \in S : i \in Nat
  OBVIOUS
<1>6. ASSUME NEW j \in S PROVE at[1] <= j /\ j <= at[N]
  <2>1. PICK k \in 1 .. N : at[k] = j
    BY <1>3
  <2>2. ~ (k < 1) /\ ~ (N < k)
    BY <1>3
  <2>3. ~ (at[k] < at[1]) /\ ~ (at[N] < at[k])
    BY <2>2, <1>3, <1>4
  <2>4. at[1] \in Nat /\ at[N] \in Nat
    BY <1>3, <1>4, <1>5
  <2>5. QED
    BY <2>1, <2>3, <2>4, <1>5
<1>7. at[1] \in S /\ at[N] \in S
  BY <1>3, <1>4
<1>8. QED
  BY <1>6, <1>7

\* The indexes at which a message has the id of another.
Alike(messages, i) == { j \in DOMAIN messages : messages[j].id = messages[i].id }
FirstAt(messages, i) == \A j \in Alike(messages, i) : i <= j
LastAt(messages, i) == \A j \in Alike(messages, i) : j <= i

\* A dictionary has each id once, in the order of the first assignments, with
\* the value of the last.
LEMMA AssignedIs ==
  ASSUME NEW s \in Seq(Message)
  PROVE  LET A == Assigned(s)
         IN  /\ A \in Seq(Message)
             /\ \A i \in DOMAIN s : LastAt(s, i) => \E k \in DOMAIN A : A[k] = s[i]
             /\ \E first \in [ DOMAIN A -> DOMAIN s ] :
                  /\ \A k \in DOMAIN A :
                       /\ FirstAt(s, first[k])
                       /\ \E j \in Alike(s, first[k]) : A[k] = s[j]
                  /\ \A k, l \in DOMAIN A : first[k] < first[l] <=> k < l
<1> DEFINE last(i) == CHOOSE j \in Alike(s, i) : \A k \in Alike(s, i) : k <= j
           latest == [ i \in DOMAIN s |-> s[last(i)] ]
           kept == { i \in DOMAIN s : FirstAt(s, i) }
           A == Assigned(s)
           n == Cardinality(kept)
           first == Place(kept)
<1>1. A = Part(latest, kept)
  BY DEF Assigned, Alike, FirstAt
<1>2. DOMAIN s = 1 .. Len(s) /\ Len(s) \in Nat /\ \A i \in 1 .. Len(s) : s[i] \in Message
  OBVIOUS
<1>3. ASSUME NEW i \in DOMAIN s
      PROVE  /\ last(i) \in Alike(s, i) /\ \A k \in Alike(s, i) : k <= last(i)
             /\ \E j \in Alike(s, i) : FirstAt(s, j)
  <2>1. i \in Alike(s, i) /\ Alike(s, i) \in SUBSET (1 .. Len(s))
    BY <1>2 DEF Alike
  <2>2. \E j \in Alike(s, i) : \A k \in Alike(s, i) : k <= j
    BY <2>1, <1>2, EndsExist
  <2>3. last(i) \in Alike(s, i) /\ \A k \in Alike(s, i) : k <= last(i)
    BY <2>2, Zenon
  <2>4. PICK j \in Alike(s, i) : \A k \in Alike(s, i) : j <= k
    BY <2>1, <1>2, EndsExist
  <2>5. Alike(s, j) = Alike(s, i)
    BY <2>4 DEF Alike
  <2>6. QED
    BY <2>3, <2>4, <2>5 DEF FirstAt
<1> HIDE DEF last
<1>4. DOMAIN latest = DOMAIN s /\ \A i \in DOMAIN s : latest[i] = s[last(i)] /\ latest[i] \in Message
  BY <1>2, <1>3 DEF Alike
<1>5. latest \in Seq(Message)
  <2>1. latest = [ i \in 1 .. Len(s) |-> latest[i] ]
    BY <1>2
  <2> HIDE DEF latest
  <2>2. QED
    BY <2>1, <1>2, <1>4
<1>6. kept \in SUBSET DOMAIN latest
  BY <1>4
<1> HIDE DEF latest, kept
<1>7. /\ A \in Seq(Message) /\ Len(A) = n /\ n \in Nat
      /\ first \in [ 1 .. n -> kept ]
      /\ \A k \in 1 .. n : A[k] = latest[first[k]]
      /\ \A k, l \in 1 .. n : first[k] < first[l] <=> k < l
      /\ \A i \in kept : \E k \in 1 .. n : first[k] = i
  BY <1>1, <1>5, <1>6, PartIs
<1> HIDE DEF A, n, first
<1>8. DOMAIN A = 1 .. n
  BY <1>7
<1>9. first \in [ DOMAIN A -> DOMAIN s ]
  BY <1>4, <1>6, <1>7, <1>8
<1>10. ASSUME NEW k \in DOMAIN A
       PROVE  FirstAt(s, first[k]) /\ \E j \in Alike(s, first[k]) : A[k] = s[j]
  <2>1. first[k] \in kept /\ first[k] \in DOMAIN s
    BY <1>7, <1>8, <1>9
  <2>2. A[k] = s[last(first[k])]
    BY <2>1, <1>4, <1>7, <1>8
  <2>3. QED
    BY <2>1, <2>2, <1>3 DEF kept
<1>11. ASSUME NEW i \in DOMAIN s, LastAt(s, i)
       PROVE  \E k \in DOMAIN A : A[k] = s[i]
  <2>1. PICK j \in Alike(s, i) : FirstAt(s, j)
    BY <1>3
  <2>2. j \in kept /\ j \in DOMAIN s
    BY <2>1 DEF kept, Alike
  <2>3. PICK k \in DOMAIN A : first[k] = j
    BY <2>2, <1>7, <1>8
  <2>4. A[k] = s[last(j)]
    BY <2>2, <2>3, <1>4, <1>7, <1>8
  <2>5. Alike(s, j) = Alike(s, i) /\ i \in Alike(s, i)
    BY <2>1 DEF Alike
  <2>6. last(j) \in 1 .. Len(s) /\ last(j) <= i /\ i <= last(j)
    BY <2>2, <2>5, <1>2, <1>3, <1>11 DEF LastAt, Alike
  <2>7. last(j) = i
    BY <2>6, <1>2
  <2>8. QED
    BY <2>4, <2>7
<1>12. \A k, l \in DOMAIN A : first[k] < first[l] <=> k < l
  BY <1>7, <1>8
<1>13. \E f \in [ DOMAIN A -> DOMAIN s ] :
         /\ \A k \in DOMAIN A :
              /\ FirstAt(s, f[k])
              /\ \E j \in Alike(s, f[k]) : A[k] = s[j]
         /\ \A k, l \in DOMAIN A : f[k] < f[l] <=> k < l
  BY <1>9, <1>10, <1>12
<1>14. QED
  BY <1>7, <1>11, <1>13 DEF A

-----------------------------------------------------------------------------
(* The invariant.                                                          *)

\* What a client has read.
Reader == [ state : {"idle", "reading", "done"}, cursor : Id, at : Nat,
            seen : SUBSET (0 .. MaxMessages), twice : BOOLEAN, cut : BOOLEAN,
            moved : BOOLEAN, throughout : SUBSET (0 .. MaxMessages) ]

\* The types, those of the reader's fields included.
MessageTypes ==
  /\ live \in BOOLEAN /\ lxmf \in Seq(Lxmf) /\ held \in Seq(Message)
  /\ made \in 0 .. MaxMessages /\ merged \in 0 .. Len(lxmf)
  /\ deleted \subseteq Id /\ reader \in Reader

\* Messages arrive in the order of their numbers, when Reticulum runs.
InboxRight ==
  /\ ~ live => lxmf = << >>
  /\ \A i \in DOMAIN lxmf : lxmf[i].content <= made
  /\ \A i, j \in DOMAIN lxmf : i < j => lxmf[i].content < lxmf[j].content

\* The messages that have arrived with an id, and the first of them.
Arrived(id) == { i \in DOMAIN lxmf : AsMessage(lxmf[i]).id = id }
IsFirst(id, i) == i \in Arrived(id) /\ \A j \in Arrived(id) : i <= j
FirstOf(id) == CHOOSE i \in Arrived(id) : IsFirst(id, i)

\* Where the message of an id stands in the dictionary, as long as it is there:
\* an LXMF message behind those that arrived before the first of its id.
PlaceOf(id) == IF id[1] = "lxmf" THEN lxmf[FirstOf(id)].content ELSE id[3]

\* What an LXMF message is in the store.
LEMMA MessageOf ==
  ASSUME NEW m \in Lxmf
  PROVE  /\ AsMessage(m) \in Message
         /\ AsMessage(m).content = m.content /\ m.content \in 1 .. MaxMessages
         /\ AsMessage(m).id[1] = "lxmf"
<1>1. m.from \in Source /\ m.at \in Time /\ m.content \in 1 .. MaxMessages
  BY DEF Lxmf
<1>2. m.content \in 0 .. MaxMessages
  BY <1>1, MessagesAssumption
<1>3. <<"lxmf", m.from, Second(m.at)>> \in Id
  BY <1>1 DEF Id
<1>4. QED
  BY <1>1, <1>2, <1>3 DEF AsMessage, Message

\* Each message that can be in the store has a place.
LEMMA PlaceIs ==
  ASSUME MessageTypes, InboxRight
  PROVE  /\ PlaceOf(MockId) = 0
         /\ \A n \in Nat : PlaceOf(Posted(n)) = n
         /\ \A id \in Id : Arrived(id) # {} =>
              \E i \in Arrived(id) : IsFirst(id, i) /\ PlaceOf(id) = lxmf[i].content
         /\ \A i \in DOMAIN lxmf :
              IsFirst(AsMessage(lxmf[i]).id, i) =>
                PlaceOf(AsMessage(lxmf[i]).id) = lxmf[i].content
<1>1. MockId[1] # "lxmf" /\ MockId[3] = 0 /\ \A n \in Nat : Posted(n)[1] # "lxmf" /\ Posted(n)[3] = n
  BY DEF MockId, Posted
<1>2. DOMAIN lxmf = 1 .. Len(lxmf) /\ Len(lxmf) \in Nat /\ \A i \in DOMAIN lxmf : lxmf[i] \in Lxmf
  BY DEF MessageTypes
<1>3. ASSUME NEW id \in Id, Arrived(id) # {}
      PROVE  /\ id[1] = "lxmf"
             /\ \E i \in Arrived(id) : IsFirst(id, i)
  <2>1. Arrived(id) \in SUBSET (1 .. Len(lxmf))
    BY <1>2 DEF Arrived
  <2>2. \E i \in Arrived(id) : \A j \in Arrived(id) : i <= j
    BY <1>2, <1>3, <2>1, EndsExist
  <2>3. PICK i \in DOMAIN lxmf : AsMessage(lxmf[i]).id = id
    BY <1>3 DEF Arrived
  <2>4. QED
    BY <1>2, <2>2, <2>3, MessageOf DEF IsFirst
<1>4. ASSUME NEW id \in Id, Arrived(id) # {}
      PROVE  \E i \in Arrived(id) : IsFirst(id, i) /\ PlaceOf(id) = lxmf[i].content
  <2> DEFINE i == FirstOf(id)
  <2>1. i \in Arrived(id) /\ IsFirst(id, i)
    BY <1>3, <1>4, Zenon DEF FirstOf
  <2>2. PlaceOf(id) = lxmf[i].content
    BY <1>3, <1>4 DEF PlaceOf
  <2>3. QED
    BY <2>1, <2>2
<1>5. ASSUME NEW i \in DOMAIN lxmf, IsFirst(AsMessage(lxmf[i]).id, i)
      PROVE  PlaceOf(AsMessage(lxmf[i]).id) = lxmf[i].content
  <2> DEFINE id == AsMessage(lxmf[i]).id
  <2>1. id \in Id /\ i \in Arrived(id)
    BY <1>2, MessageOf DEF Message, Arrived
  <2> HIDE DEF id
  <2>2. PICK j \in Arrived(id) : IsFirst(id, j) /\ PlaceOf(id) = lxmf[j].content
    BY <2>1, <1>4
  <2>3. i <= j /\ j <= i /\ i \in Nat /\ j \in Nat
    BY <1>2, <1>5, <2>1, <2>2 DEF IsFirst, id, Arrived
  <2>4. i = j
    BY <2>3
  <2>5. QED
    BY <2>2, <2>4 DEF id
<1>6. QED
  BY <1>1, <1>4, <1>5 DEF PlaceOf

\* Where a message of the store comes from.
FromInbox(m) == \E i \in DOMAIN lxmf : m = AsMessage(lxmf[i])
Written(m) ==
  /\ m.content \in 1 .. made /\ m.id = Posted(m.content)
  /\ \A i \in DOMAIN lxmf : lxmf[i].content # m.content
Example(m) == m = MockMessages[1]

\* A dictionary has its messages in their places.
HeldRight ==
  /\ \A k \in DOMAIN held : FromInbox(held[k]) \/ Written(held[k]) \/ Example(held[k])
  /\ \A k, l \in DOMAIN held : k < l => PlaceOf(held[k].id) < PlaceOf(held[l].id)

\* What is in the store, and what a merge may bring back to it.
May == { m \in Message : m \in ToSet(held) \/ FromInbox(m) \/ Example(m) }

\* m does not come after a message of this time and id in the pages.
NotAfter(m, at, id) ==
  m.at > at \/ (m.at = at /\ PlaceOf(m.id) <= PlaceOf(id))

\* The cursor has a place in the dictionary.
CursorKnown ==
  \/ reader.cursor = MockId \/ Arrived(reader.cursor) # {}
  \/ \E n \in 1 .. made : reader.cursor = Posted(n)

\* Of the messages that may be in the store, a client has seen none that comes
\* after its cursor, and all others that never left it.
PagesRight ==
  /\ ~ reader.twice
  /\ reader.state = "reading" =>
       \A m \in May :
         /\ m.content \in reader.seen => NotAfter(m, reader.at, reader.cursor)
         /\ /\ m.content \in reader.throughout
            /\ NotAfter(m, reader.at, reader.cursor)
            => m.content \in reader.seen
  /\ reader.state = "done" /\ ~ reader.cut => reader.throughout \subseteq reader.seen

\* What a client has read is right, until its cursor has been found elsewhere.
ReaderRight ==
  /\ \A x \in reader.seen : x <= made
  /\ \A x \in reader.throughout : \E m \in ToSet(held) : m.content = x
  /\ reader.state = "reading" => CursorKnown
  /\ ~ reader.moved => PagesRight

LEMMA ExampleIs ==
  /\ MockMessages \in Seq(Message) /\ Len(MockMessages) = 1
  /\ MockMessages[1] \in Message /\ MockMessages[1].id = MockId
  /\ MockMessages[1].content = 0 /\ MockMessages[1].at \in Time
<1> DEFINE t == CHOOSE t \in Time : TRUE
           m == [ id |-> MockId, at |-> t, content |-> 0 ]
<1>1. t \in Time
  BY MessagesAssumption
<1>2. MockId \in Id /\ 0 \in 0 .. MaxMessages
  BY MessagesAssumption DEF Id
<1> HIDE DEF t
<1>3. m \in Message /\ m.id = MockId /\ m.content = 0 /\ m.at \in Time
  BY <1>1, <1>2 DEF Message
<1>4. MockMessages = << m >>
  BY DEF MockMessages, t
<1> HIDE DEF m
<1>5. QED
  BY <1>3, <1>4

\* A number and an id tell what may be in the store apart.
LEMMA MayIs ==
  ASSUME MessageTypes, InboxRight, HeldRight
  PROVE  /\ \A k \in DOMAIN held : held[k] \in May
         /\ \A i \in DOMAIN lxmf : AsMessage(lxmf[i]) \in May
         /\ \A m \in May :
              /\ m \in Message /\ m.at \in Nat /\ m.content \in 0 .. made
              /\ PlaceOf(m.id) \in 0 .. made
              /\ \/ m.id = MockId \/ Arrived(m.id) # {}
                 \/ \E n \in 1 .. made : m.id = Posted(n)
         /\ \A m, n \in May : m.content = n.content => m = n
<1>1. /\ DOMAIN lxmf = 1 .. Len(lxmf) /\ Len(lxmf) \in Nat
      /\ \A i \in DOMAIN lxmf : lxmf[i] \in Lxmf
      /\ DOMAIN held = 1 .. Len(held) /\ Len(held) \in Nat
      /\ \A k \in DOMAIN held : held[k] \in Message
      /\ made \in Nat /\ made <= MaxMessages
  BY MessagesAssumption DEF MessageTypes
<1>2. \A k \in DOMAIN held : held[k] \in May
  BY <1>1 DEF May, ToSet
<1>3. \A i \in DOMAIN lxmf : AsMessage(lxmf[i]) \in May
  BY <1>1, MessageOf DEF May, FromInbox
<1>4. ASSUME NEW m \in May
      PROVE  \/ FromInbox(m)
             \/ Written(m) /\ \E k \in DOMAIN held : m = held[k]
             \/ Example(m)
  BY DEF May, ToSet, HeldRight
<1>5. ASSUME NEW m \in May
      PROVE  m \in Message /\ m.at \in Nat /\ m.content \in Nat /\ m.id \in Id
  <2>1. m \in Message
    BY DEF May
  <2>2. m.at \in Time /\ m.content \in 0 .. MaxMessages /\ m.id \in Id
    BY <2>1 DEF Message
  <2>3. m.at \in Nat
    BY <2>2, MessagesAssumption
  <2>4. m.content \in Nat
    BY <2>2, MessagesAssumption
  <2>5. QED
    BY <2>1, <2>2, <2>3, <2>4
<1>6. /\ PlaceOf(MockId) = 0
      /\ \A n \in Nat : PlaceOf(Posted(n)) = n
      /\ \A id \in Id : Arrived(id) # {} =>
           \E i \in Arrived(id) : IsFirst(id, i) /\ PlaceOf(id) = lxmf[i].content
  BY PlaceIs
<1>7. ASSUME NEW m \in May, NEW i \in DOMAIN lxmf, m = AsMessage(lxmf[i])
      PROVE  /\ m.content = lxmf[i].content /\ m.content \in 1 .. made
             /\ m.id[1] = "lxmf"
             /\ Arrived(m.id) # {} /\ PlaceOf(m.id) \in 0 .. made
  <2>1. /\ m.content = lxmf[i].content /\ m.content \in 1 .. MaxMessages
        /\ m.id[1] = "lxmf"
    BY <1>1, <1>7, MessageOf
  <2>2. m.content <= made /\ m.content \in 1 .. made
    BY <1>1, <2>1 DEF InboxRight
  <2>3. i \in Arrived(m.id)
    BY <1>7 DEF Arrived
  <2>4. PICK j \in Arrived(m.id) : PlaceOf(m.id) = lxmf[j].content
    BY <2>3, <1>5, <1>6
  <2>5. j \in DOMAIN lxmf
    BY DEF Arrived
  <2>6. lxmf[j].content \in 1 .. MaxMessages /\ lxmf[j].content <= made
    BY <2>5, <1>1, MessageOf DEF InboxRight
  <2>7. QED
    BY <2>1, <2>2, <2>3, <2>4, <2>6, <1>1
<1>8. ASSUME NEW m \in May, Written(m)
      PROVE  /\ m.content \in 1 .. made /\ m.id = Posted(m.content) /\ m.id[1] = "msg"
             /\ PlaceOf(m.id) = m.content
  BY <1>6, <1>8, <1>5, <1>1 DEF Written, Posted
<1>9. ASSUME NEW m \in May, Example(m)
      PROVE  m = MockMessages[1] /\ m.content = 0 /\ m.id = MockId /\ PlaceOf(m.id) = 0 /\ m.id[1] = "mock"
  BY <1>9, <1>6, ExampleIs DEF Example, MockId
<1>10. ASSUME NEW m \in May
       PROVE  /\ m \in Message /\ m.at \in Nat /\ m.content \in 0 .. made
              /\ PlaceOf(m.id) \in 0 .. made
              /\ \/ m.id = MockId \/ Arrived(m.id) # {}
                 \/ \E n \in 1 .. made : m.id = Posted(n)
  <2>1. CASE FromInbox(m)
    <3>1. PICK i \in DOMAIN lxmf : m = AsMessage(lxmf[i])
      BY <2>1 DEF FromInbox
    <3>2. QED
      BY <3>1, <1>1, <1>5, <1>7
  <2>2. CASE Written(m)
    BY <2>2, <1>1, <1>5, <1>8
  <2>3. CASE Example(m)
    BY <2>3, <1>1, <1>5, <1>9
  <2>4. QED
    BY <2>1, <2>2, <2>3, <1>4
<1>11. ASSUME NEW m \in May, Written(m), NEW n \in May, Written(n), m.content = n.content
       PROVE  m = n
  <2>1. PICK k \in DOMAIN held : m = held[k]
    BY <1>4, <1>7, <1>8, <1>9, <1>11 DEF FromInbox
  <2>2. PICK l \in DOMAIN held : n = held[l]
    BY <1>4, <1>7, <1>8, <1>9, <1>11 DEF FromInbox
  <2>3. PlaceOf(m.id) = PlaceOf(n.id) /\ PlaceOf(m.id) \in Nat
    BY <1>8, <1>11, <1>1
  <2>4. ~ (k < l) /\ ~ (l < k)
    BY <2>1, <2>2, <2>3 DEF HeldRight
  <2>5. k = l
    BY <2>4, <1>1
  <2>6. QED
    BY <2>1, <2>2, <2>5
<1>12. ASSUME NEW m \in May, FromInbox(m), NEW n \in May, FromInbox(n)
       PROVE  m.content = n.content => m = n
  <2>1. PICK i \in DOMAIN lxmf : m = AsMessage(lxmf[i])
    BY <1>12 DEF FromInbox
  <2>2. PICK j \in DOMAIN lxmf : n = AsMessage(lxmf[j])
    BY <1>12 DEF FromInbox
  <2>3. m.content = lxmf[i].content /\ n.content = lxmf[j].content /\ m.content \in Nat
    BY <2>1, <2>2, <1>5, <1>7
  <2>4. ASSUME m.content = n.content PROVE m = n
    <3>1. ~ (i < j) /\ ~ (j < i)
      <4>1. lxmf[i].content = lxmf[j].content /\ lxmf[i].content \in Nat
        BY <2>3, <2>4
      <4>2. ~ (lxmf[i].content < lxmf[j].content) /\ ~ (lxmf[j].content < lxmf[i].content)
        BY <4>1
      <4>3. QED
        BY <4>2 DEF InboxRight
    <3>2. i = j
      BY <3>1, <1>1
    <3>3. QED
      BY <2>1, <2>2, <3>2
  <2>5. QED
    BY <2>4
<1>13. \A m \in May : FromInbox(m) =>
          m.content # 0 /\ m.id[1] = "lxmf" /\ \E i \in DOMAIN lxmf : m.content = lxmf[i].content
  <2> SUFFICES ASSUME NEW m \in May, FromInbox(m)
               PROVE  /\ m.content # 0 /\ m.id[1] = "lxmf"
                      /\ \E i \in DOMAIN lxmf : m.content = lxmf[i].content
    OBVIOUS
  <2>1. PICK i \in DOMAIN lxmf : m = AsMessage(lxmf[i])
    BY DEF FromInbox
  <2>2. QED
    BY <2>1, <1>1, <1>7
<1>14. \A m \in May : Written(m) =>
          /\ m.content # 0 /\ m.id[1] = "msg" /\ m.id = Posted(m.content)
          /\ \A i \in DOMAIN lxmf : lxmf[i].content # m.content
  BY <1>8, <1>1 DEF Written
<1>15. \A m, n \in May : m.content = n.content => m = n
  BY <1>4, <1>9, <1>11, <1>12, <1>13, <1>14
<1>16. QED
  BY <1>2, <1>3, <1>10, <1>15

\* What happens to the store between two pages: nothing that is in it comes to
\* another place, and what is new has a new number.
LEMMA ReaderKept ==
  ASSUME MessageTypes, InboxRight, HeldRight, ReaderRight, made' \in Nat, made <= made',
         reader'.state = reader.state, reader'.cursor = reader.cursor, reader'.seen = reader.seen,
         reader'.at = reader.at, reader'.twice = reader.twice,
         reader'.cut = reader.cut, reader'.moved = reader.moved,
         reader'.throughout \subseteq reader.throughout,
         \A x \in reader'.throughout : \E m \in ToSet(held') : m.content = x,
         \A m \in May' : m \in May \/ m.content > made,
         \A m \in May : PlaceOf(m.id)' = PlaceOf(m.id),
         reader.state = "reading" => PlaceOf(reader.cursor)' = PlaceOf(reader.cursor),
         Arrived(reader.cursor) # {} => Arrived(reader.cursor)' # {}
  PROVE  ReaderRight'
<1>1. made \in Nat
  BY MessagesAssumption DEF MessageTypes
<1>2. \A k \in DOMAIN held : held[k] \in May
  BY MayIs
<1>3. \A m \in May : m.content \in 0 .. made
  BY MayIs
<1>4. ASSUME NEW x \in reader.seen \cup reader.throughout PROVE x \in Int /\ ~ (x > made)
  <2>1. CASE x \in reader.throughout
    <3>1. PICK k \in DOMAIN held : held[k].content = x
      BY <2>1 DEF ReaderRight, ToSet
    <3>2. QED
      BY <3>1, <1>1, <1>2, <1>3
  <2>2. CASE x \in reader.seen
    <3>1. x \in Nat
      BY <2>2, MessagesAssumption DEF MessageTypes, Reader
    <3>2. QED
      BY <2>2, <3>1, <1>1 DEF ReaderRight
  <2>3. QED
    BY <2>1, <2>2
<1>5. \A x \in reader.seen : x <= made'
  BY <1>1, <1>4
<1>6. ASSUME ~ reader.moved, reader.state = "reading", NEW m \in May'
      PROVE  /\ m.content \in reader'.seen => NotAfter(m, reader.at, reader.cursor)'
             /\ /\ m.content \in reader'.throughout
                /\ NotAfter(m, reader.at, reader.cursor)'
                => m.content \in reader'.seen
  <2>1. CASE m.content > made
    BY <2>1, <1>4
  <2>2. CASE m \in May
    <3>1. PlaceOf(m.id)' = PlaceOf(m.id) /\ PlaceOf(reader.cursor)' = PlaceOf(reader.cursor)
      BY <2>2, <1>6
    <3>2. NotAfter(m, reader.at, reader.cursor)' <=> NotAfter(m, reader.at, reader.cursor)
      BY <3>1 DEF NotAfter
    <3>3. /\ m.content \in reader.seen => NotAfter(m, reader.at, reader.cursor)
          /\ /\ m.content \in reader.throughout
             /\ NotAfter(m, reader.at, reader.cursor)
             => m.content \in reader.seen
      BY <1>6, <2>2 DEF ReaderRight, PagesRight
    <3>4. QED
      BY <3>2, <3>3
  <2>3. QED
    BY <2>1, <2>2
<1>7. reader.state = "reading" => CursorKnown'
  <2>1. \A n \in 1 .. made : n \in 1 .. made'
    BY <1>1
  <2>2. QED
    BY <2>1 DEF ReaderRight, CursorKnown
<1>8. ~ reader.moved => PagesRight'
  BY <1>6 DEF ReaderRight, PagesRight
<1>9. QED
  BY <1>5, <1>7, <1>8 DEF ReaderRight

\* The store sorted: all of it, in the order of the pages.
LEMMA SortedIs ==
  ASSUME MessageTypes, InboxRight, HeldRight
  PROVE  /\ Sorted \in Seq(Message)
         /\ \A k \in DOMAIN Sorted : Sorted[k] \in ToSet(held) /\ Sorted[k] \in May
         /\ \A m \in ToSet(held) : \E k \in DOMAIN Sorted : Sorted[k] = m
         /\ \A k, l \in DOMAIN Sorted :
              NotAfter(Sorted[k], Sorted[l].at, Sorted[l].id) <=> k <= l
<1> DEFINE S == DOMAIN held
           R == NewestFirst
           n == Cardinality(S)
           order == InOrder(S, R)
           at(i) == held[i].at
           place(i) == PlaceOf(held[i].id)
<1>1. S = 1 .. Len(held) /\ Len(held) \in Nat /\ \A i \in S : held[i] \in Message
  BY DEF MessageTypes
<1>2. \A i \in S : held[i] \in May
  BY MayIs
<1>3. \A i \in S : at(i) \in Nat
  BY <1>2, MayIs
<1>4. \A i \in S : place(i) \in Nat
  BY <1>2, MayIs
<1>5. \A i, j \in S : i < j => place(i) < place(j)
  BY DEF HeldRight
<1>6. \A i, j \in S : <<i, j>> \in R <=> at(i) > at(j) \/ (at(i) = at(j) /\ i < j)
  BY DEF NewestFirst
<1>7. IsFiniteSet(S)
  BY <1>1, FS_Interval
<1>8. \A i, j \in S : NotAfter(held[i], held[j].at, held[j].id) <=>
                        at(i) > at(j) \/ (at(i) = at(j) /\ place(i) <= place(j))
  BY DEF NotAfter
<1>9. \A i \in S : i \in Nat
  BY <1>1
<1>10. Sorted = [ k \in DOMAIN order |-> held[order[k]] ]
  BY DEF Sorted
<1> HIDE DEF S, R, n, order, at, place
<1>11. Orders(R, S)
  <2>1. \A i \in S : <<i, i>> \notin R
    BY <1>3, <1>6, <1>9
  <2>2. \A i, j, k \in S : <<i, j>> \in R /\ <<j, k>> \in R => <<i, k>> \in R
    <3> SUFFICES ASSUME NEW i \in S, NEW j \in S, NEW k \in S, <<i, j>> \in R, <<j, k>> \in R
                 PROVE  <<i, k>> \in R
      OBVIOUS
    <3>1. /\ at(i) > at(j) \/ (at(i) = at(j) /\ i < j)
          /\ at(j) > at(k) \/ (at(j) = at(k) /\ j < k)
      BY <1>6
    <3>2. at(i) > at(k) \/ (at(i) = at(k) /\ i < k)
      BY <3>1, <1>3, <1>9
    <3>3. QED
      BY <3>2, <1>6
  <2>3. \A i, j \in S : i = j \/ <<i, j>> \in R \/ <<j, i>> \in R
    <3> SUFFICES ASSUME NEW i \in S, NEW j \in S, i # j
                 PROVE  <<i, j>> \in R \/ <<j, i>> \in R
      OBVIOUS
    <3>1. \/ at(i) > at(j) \/ (at(i) = at(j) /\ i < j)
          \/ at(j) > at(i) \/ (at(j) = at(i) /\ j < i)
      BY <1>3, <1>9
    <3>2. QED
      BY <3>1, <1>6
  <2>4. QED
    BY <2>1, <2>2, <2>3 DEF Orders
<1>12. /\ n \in Nat
       /\ order \in [ 1 .. n -> S ]
       /\ \A k, l \in 1 .. n : <<order[k], order[l]>> \in R <=> k < l
       /\ \A i \in S : \E k \in 1 .. n : order[k] = i
  BY <1>7, <1>11, InOrderIs DEF n, order
<1>13. DOMAIN order = 1 .. n /\ \A k \in 1 .. n : order[k] \in S
  BY <1>12
<1>14. Sorted \in Seq(Message) /\ DOMAIN Sorted = 1 .. n
       /\ \A k \in 1 .. n : Sorted[k] = held[order[k]]
  <2>1. Sorted = [ k \in 1 .. n |-> held[order[k]] ]
    BY <1>10, <1>13
  <2>2. \A k \in 1 .. n : held[order[k]] \in Message
    BY <1>1, <1>13 DEF S
  <2>3. QED
    BY <2>1, <2>2, <1>12
<1>15. \A k \in DOMAIN Sorted : Sorted[k] \in ToSet(held) /\ Sorted[k] \in May
  BY <1>2, <1>13, <1>14 DEF ToSet, S
<1>16. \A m \in ToSet(held) : \E k \in DOMAIN Sorted : Sorted[k] = m
  <2> SUFFICES ASSUME NEW m \in ToSet(held) PROVE \E k \in DOMAIN Sorted : Sorted[k] = m
    OBVIOUS
  <2>1. PICK i \in S : held[i] = m
    BY DEF ToSet, S
  <2>2. QED
    BY <2>1, <1>12, <1>14
<1>17. ASSUME NEW k \in 1 .. n, NEW l \in 1 .. n
       PROVE  NotAfter(Sorted[k], Sorted[l].at, Sorted[l].id) <=> k <= l
  <2>1. order[k] \in S /\ order[l] \in S
    BY <1>13
  <2>2. PICK i \in S, j \in S : i = order[k] /\ j = order[l]
    BY <2>1
  <2>3. place(i) <= place(j) <=> ~ (j < i)
    <3>1. CASE j < i
      BY <3>1, <1>4, <1>5
    <3>2. CASE i = j
      BY <3>2, <1>4, <1>9
    <3>3. CASE i < j
      BY <3>3, <1>4, <1>5, <1>9
    <3>4. QED
      BY <3>1, <3>2, <3>3, <1>9
  <2>4. NotAfter(held[i], held[j].at, held[j].id) <=> ~ (at(j) > at(i) \/ (at(j) = at(i) /\ j < i))
    BY <2>3, <1>3, <1>8
  <2>5. <<j, i>> \in R <=> l < k
    BY <2>2, <1>12
  <2>6. NotAfter(held[i], held[j].at, held[j].id) <=> ~ (l < k)
    BY <2>4, <2>5, <1>6
  <2>7. QED
    BY <2>2, <2>6, <1>14, <1>12
<1>18. QED
  BY <1>14, <1>15, <1>16, <1>17

\* How many messages an answer has.
PageSize(from) == IF Len(from) < PageLimit THEN Len(from) ELSE PageLimit

\* The client has read one page more.
LEMMA AnswerIs ==
  ASSUME NEW from \in Seq(Message), NEW r \in Reader, AnswerPage(from, r)
  PROVE  /\ PageSize(from) \in 0 .. Len(from)
         /\ reader' \in Reader
         /\ reader'.state = (IF PageSize(from) < PageLimit THEN "done" ELSE "reading")
         /\ PageSize(from) # 0 => /\ reader'.cursor = from[PageSize(from)].id
                                  /\ reader'.at = from[PageSize(from)].at
         /\ \A x \in reader'.seen :
              x \in r.seen \/ \E k \in 1 .. PageSize(from) : x = from[k].content
         /\ r.seen \subseteq reader'.seen
         /\ \A k \in 1 .. PageSize(from) : from[k].content \in reader'.seen
         /\ reader'.twice <=> r.twice \/ \E k \in 1 .. PageSize(from) : from[k].content \in r.seen
         /\ reader'.cut = r.cut /\ reader'.moved = r.moved
         /\ reader'.throughout = r.throughout
<1> DEFINE n == PageSize(from)
           page == SubSeq(from, 1, n)
           contents == { m.content : m \in ToSet(page) }
           state == IF Len(page) < PageLimit THEN "done" ELSE "reading"
           cursor == IF page = << >> THEN r.cursor ELSE page[Len(page)].id
           time == IF page = << >> THEN r.at ELSE page[Len(page)].at
           seen == r.seen \cup contents
           twice == r.twice \/ r.seen \cap contents # {}
<1>1. Len(from) \in Nat /\ DOMAIN from = 1 .. Len(from) /\ \A k \in 1 .. Len(from) : from[k] \in Message
  OBVIOUS
<1>2. n \in 0 .. Len(from) /\ n \in Nat /\ PageLimit \in Nat
  BY <1>1, MessagesAssumption DEF PageSize
<1>3. reader' = [ r EXCEPT !.state = state, !.cursor = cursor, !.at = time, !.seen = seen, !.twice = twice ]
  BY DEF AnswerPage, PageSize
<1> HIDE DEF n
<1>4. page \in Seq(Message) /\ Len(page) = n /\ \A k \in 1 .. n : page[k] = from[k]
  <2>1. \A k \in 1 .. n : from[k] \in Message /\ 1 + k - 1 = k
    BY <1>1, <1>2
  <2>2. n - 1 + 1 = n /\ (1 > n => n = 0)
    BY <1>2
  <2>3. QED
    BY <1>2, <2>1, <2>2, SubSeqProperties
<1> HIDE DEF page
<1>5. ToSet(page) = { from[k] : k \in 1 .. n }
  BY <1>4 DEF ToSet
<1>6. /\ \A k \in 1 .. n : from[k].content \in contents
      /\ \A x \in contents : \E k \in 1 .. n : x = from[k].content
  BY <1>5
<1>7. contents \subseteq 0 .. MaxMessages
  <2>1. \A k \in 1 .. n : from[k] \in Message
    BY <1>1, <1>2
  <2>2. \A k \in 1 .. n : from[k].content \in 0 .. MaxMessages
    BY <2>1 DEF Message
  <2>3. QED
    BY <2>2, <1>6
<1>8. n # 0 => page # << >> /\ cursor = from[n].id /\ time = from[n].at
  <2>1. n # 0 => n \in 1 .. n /\ page # << >>
    BY <1>2, <1>4
  <2>2. QED
    BY <2>1, <1>4
<1>9. cursor \in Id /\ time \in Nat
  <2>1. page # << >> => n # 0
    BY <1>4
  <2>2. n # 0 => from[n] \in Message
    BY <1>1, <1>2
  <2>3. r.cursor \in Id /\ r.at \in Nat
    BY DEF Reader
  <2>4. n # 0 => from[n].id \in Id /\ from[n].at \in Nat
    BY <2>2, MessagesAssumption DEF Message
  <2>5. QED
    BY <2>1, <2>3, <2>4, <1>8
<1> HIDE DEF contents
<1>10. /\ state \in {"idle", "reading", "done"} /\ seen \subseteq 0 .. MaxMessages /\ twice \in BOOLEAN
       /\ twice <=> r.twice \/ \E k \in 1 .. n : from[k].content \in r.seen
       /\ state = IF n < PageLimit THEN "done" ELSE "reading"
  <2>1. state \in {"idle", "reading", "done"} /\ state = IF n < PageLimit THEN "done" ELSE "reading"
    BY <1>4
  <2>2. seen \subseteq 0 .. MaxMessages
    BY <1>7 DEF Reader
  <2>3. r.seen \cap contents # {} <=> \E k \in 1 .. n : from[k].content \in r.seen
    BY <1>6
  <2>4. twice \in BOOLEAN
    OBVIOUS
  <2>5. twice <=> r.twice \/ \E k \in 1 .. n : from[k].content \in r.seen
    BY <2>3
  <2> HIDE DEF state, seen, twice
  <2>6. QED
    BY <2>1, <2>2, <2>4, <2>5
<1>11. /\ r.seen \subseteq seen /\ \A k \in 1 .. n : from[k].content \in seen
       /\ \A x \in seen : x \in r.seen \/ \E k \in 1 .. n : x = from[k].content
  BY <1>6
<1> HIDE DEF state, cursor, time, seen, twice
<1>12. /\ reader' \in Reader /\ reader'.state = state /\ reader'.cursor = cursor
       /\ reader'.at = time /\ reader'.seen = seen /\ reader'.throughout = r.throughout
  BY <1>3, <1>9, <1>10 DEF Reader
<1>13. reader'.twice = twice /\ reader'.cut = r.cut /\ reader'.moved = r.moved
  BY <1>3 DEF Reader
<1>14. QED
  BY <1>2, <1>8, <1>10, <1>11, <1>12, <1>13 DEF n

\* A page that starts where the client has read to.
LEMMA PageOK ==
  ASSUME MessageTypes, InboxRight, HeldRight, UNCHANGED storeVars,
         NEW j \in 0 .. Len(Sorted), NEW r \in Reader, NEW from \in Seq(Message),
         Len(from) = Len(Sorted) - j, \A k \in DOMAIN from : from[k] = Sorted[j + k],
         AnswerPage(from, r),
         \A x \in r.seen : x <= made,
         \A x \in r.throughout : \E m \in ToSet(held) : m.content = x,
         ~ r.moved =>
           /\ ~ r.twice
           /\ \A k \in DOMAIN Sorted : Sorted[k].content \in r.seen => k <= j
           /\ \A k \in DOMAIN Sorted : k <= j /\ Sorted[k].content \in r.throughout
                                         => Sorted[k].content \in r.seen
           /\ \A m \in May : m.content \in r.seen =>
                \A k \in DOMAIN Sorted : j < k => NotAfter(m, Sorted[k].at, Sorted[k].id)
  PROVE  reader' \in Reader /\ ReaderRight'
<1> DEFINE n == PageSize(from)
           all == Sorted
<1>1. /\ n \in 0 .. Len(from)
      /\ reader' \in Reader
      /\ reader'.state = (IF n < PageLimit THEN "done" ELSE "reading")
      /\ n # 0 => reader'.cursor = from[n].id /\ reader'.at = from[n].at
      /\ \A x \in reader'.seen : x \in r.seen \/ \E k \in 1 .. n : x = from[k].content
      /\ r.seen \subseteq reader'.seen
      /\ \A k \in 1 .. n : from[k].content \in reader'.seen
      /\ reader'.twice <=> r.twice \/ \E k \in 1 .. n : from[k].content \in r.seen
      /\ reader'.cut = r.cut /\ reader'.moved = r.moved
      /\ reader'.throughout = r.throughout
  BY AnswerIs
<1>2. /\ all \in Seq(Message)
      /\ \A k \in DOMAIN all : all[k] \in ToSet(held) /\ all[k] \in May
      /\ \A m \in ToSet(held) : \E k \in DOMAIN all : all[k] = m
      /\ \A k, l \in DOMAIN all : NotAfter(all[k], all[l].at, all[l].id) <=> k <= l
  BY SortedIs
<1>3. /\ \A m \in May : m \in Message /\ m.at \in Nat /\ m.content \in 0 .. made
                        /\ PlaceOf(m.id) \in 0 .. made
      /\ \A m \in May : \/ m.id = MockId \/ Arrived(m.id) # {}
                        \/ \E k \in 1 .. made : m.id = Posted(k)
      /\ \A m, c \in May : m.content = c.content => m = c
      /\ \A k \in DOMAIN held : held[k] \in May
  BY MayIs
<1>4. /\ PageLimit \in Nat \ {0} /\ made \in Nat
      /\ n < PageLimit => n = Len(from)
  BY <1>1, MessagesAssumption DEF PageSize, MessageTypes
<1> HIDE DEF n, all
<1>5. DOMAIN all = 1 .. Len(all) /\ Len(all) \in Nat /\ DOMAIN from = 1 .. Len(from) /\ Len(from) \in Nat
  BY <1>2
<1>6. /\ live' = live /\ lxmf' = lxmf /\ held' = held /\ made' = made
  BY DEF storeVars
<1>7. j \in 0 .. Len(all) /\ Len(from) = Len(all) - j /\ j \in Nat /\ n \in Nat
  BY <1>1, <1>5 DEF all
<1>8. ASSUME NEW k \in 1 .. n
      PROVE  /\ j + k \in DOMAIN all /\ from[k] = all[j + k]
             /\ all[j + k] \in May
  <2>1. k \in DOMAIN from /\ j + k \in 1 .. Len(all)
    BY <1>1, <1>5, <1>7
  <2>2. from[k] = all[j + k]
    BY <2>1 DEF all
  <2>3. QED
    BY <2>1, <2>2, <1>2, <1>5
<1>9. ASSUME ~ r.moved PROVE ~ reader'.twice
  <2> SUFFICES ASSUME NEW k \in 1 .. n, from[k].content \in r.seen PROVE FALSE
    BY <1>1, <1>9
  <2>1. j + k <= j
    BY <1>8, <1>9 DEF all
  <2>2. QED
    BY <2>1, <1>7
<1>10. \A x \in reader'.seen : x <= made'
  <2> SUFFICES ASSUME NEW x \in reader'.seen PROVE x <= made'
    OBVIOUS
  <2>1. CASE x \in r.seen
    BY <2>1, <1>6
  <2>2. CASE \E k \in 1 .. n : x = from[k].content
    <3>1. PICK k \in 1 .. n : x = from[k].content
      BY <2>2
    <3>2. x \in 0 .. made
      BY <3>1, <1>3, <1>8
    <3>3. QED
      BY <3>2, <1>4, <1>6
  <2>3. QED
    BY <2>1, <2>2, <1>1
<1>11. \A x \in reader'.throughout : \E m \in ToSet(held') : m.content = x
  BY <1>1, <1>6
<1>12. ASSUME ~ r.moved
       PROVE  \A x \in reader'.throughout :
                \E k \in DOMAIN all : /\ all[k].content = x /\ all[k] \in May
                                      /\ k <= j + n => x \in reader'.seen
  <2> SUFFICES ASSUME NEW x \in r.throughout
               PROVE  \E k \in DOMAIN all : /\ all[k].content = x /\ all[k] \in May
                                            /\ k <= j + n => x \in reader'.seen
    BY <1>1
  <2>1. PICK m \in ToSet(held) : m.content = x
    OBVIOUS
  <2>2. PICK k \in DOMAIN all : all[k] = m
    BY <1>2
  <2>3. CASE k <= j
    <3>1. x \in r.seen
      BY <1>12, <2>1, <2>2, <2>3 DEF all
    <3>2. QED
      BY <2>1, <2>2, <3>1, <1>1, <1>2
  <2>4. CASE j < k
    <3>1. ASSUME k <= j + n PROVE x \in reader'.seen
      <4>1. k - j \in 1 .. n /\ j + (k - j) = k
        BY <2>4, <3>1, <1>5, <1>7
      <4>2. from[k - j] = all[j + (k - j)]
        BY <4>1, <1>8
      <4>3. from[k - j].content \in reader'.seen
        BY <4>1, <1>1
      <4>4. QED
        BY <4>1, <4>2, <4>3, <2>1, <2>2
    <3>2. QED
      BY <2>1, <2>2, <3>1, <1>2
  <2>5. QED
    BY <2>3, <2>4, <1>5, <1>7
<1>13. ASSUME ~ r.moved, reader'.state = "done" PROVE reader'.throughout \subseteq reader'.seen
  <2>1. n = Len(from)
    BY <1>1, <1>4, <1>13
  <2>2. j + n = Len(all)
    BY <2>1, <1>7, <1>5
  <2>3. \A k \in DOMAIN all : k <= j + n
    BY <2>2, <1>5
  <2>4. QED
    BY <2>3, <1>12, <1>13
<1>14. /\ May' = May
       /\ \A m, at, id : NotAfter(m, at, id)' <=> NotAfter(m, at, id)
       /\ Arrived(reader.cursor)' = { i \in DOMAIN lxmf : AsMessage(lxmf[i]).id = reader'.cursor }
  <2>1. May' = May
    BY <1>6 DEF May, FromInbox, Example
  <2>2. \A id : PlaceOf(id)' = PlaceOf(id)
    BY <1>6 DEF PlaceOf, FirstOf, IsFirst, Arrived
  <2>3. \A m, at, id : NotAfter(m, at, id)' <=> NotAfter(m, at, id)
    BY <2>2 DEF NotAfter
  <2>4. Arrived(reader.cursor)' = { i \in DOMAIN lxmf : AsMessage(lxmf[i]).id = reader'.cursor }
    BY <1>6 DEF Arrived
  <2>5. QED
    BY <2>1, <2>3, <2>4
<1>15. ASSUME reader'.state = "reading"
       PROVE  /\ CursorKnown'
              /\ \E l \in DOMAIN all : /\ l = j + n /\ n \in 1 .. n /\ all[l] \in May
                                       /\ reader'.cursor = all[l].id /\ reader'.at = all[l].at
  <2>1. n \in 1 .. n /\ reader'.cursor = from[n].id /\ reader'.at = from[n].at
    <3>1. n # 0
      BY <1>1, <1>4, <1>15
    <3>2. QED
      BY <3>1, <1>1, <1>7
  <2>2. PICK l \in DOMAIN all : l = j + n
    BY <2>1, <1>8
  <2>3. /\ from[n] = all[l] /\ all[l] \in May
        /\ reader'.cursor = all[l].id /\ reader'.at = all[l].at
    BY <2>1, <2>2, <1>8
  <2>4. Arrived(all[l].id) = Arrived(reader.cursor)'
    BY <2>3, <1>14 DEF Arrived
  <2>5. CursorKnown'
    BY <2>3, <2>4, <1>3, <1>6 DEF CursorKnown
  <2>6. QED
    BY <2>1, <2>2, <2>3, <2>5
<1>16. ASSUME ~ r.moved, reader'.state = "reading", NEW m \in May
       PROVE  /\ m.content \in reader'.seen => NotAfter(m, reader'.at, reader'.cursor)
              /\ /\ m.content \in reader'.throughout
                 /\ NotAfter(m, reader'.at, reader'.cursor)
                 => m.content \in reader'.seen
  <2>1. PICK l \in DOMAIN all : /\ l = j + n /\ n \in 1 .. n /\ all[l] \in May
                                /\ reader'.cursor = all[l].id /\ reader'.at = all[l].at
    BY <1>15, <1>16
  <2>2. NotAfter(m, reader'.at, reader'.cursor) <=> NotAfter(m, all[l].at, all[l].id)
    BY <2>1
  <2>3. ASSUME m.content \in r.seen PROVE NotAfter(m, all[l].at, all[l].id)
    <3>1. j < l
      BY <2>1, <1>7
    <3>2. QED
      BY <2>3, <3>1, <1>16 DEF all
  <2>4. ASSUME NEW k \in 1 .. n, m.content = from[k].content
        PROVE  NotAfter(m, all[l].at, all[l].id)
    <3>1. m = all[j + k] /\ j + k \in DOMAIN all
      BY <2>4, <1>3, <1>8
    <3>2. j + k <= l
      BY <2>1, <1>7
    <3>3. QED
      BY <3>1, <3>2, <1>2
  <2>5. ASSUME m.content \in reader'.throughout, NotAfter(m, all[l].at, all[l].id)
        PROVE  m.content \in reader'.seen
    <3>1. PICK k \in DOMAIN all : /\ all[k].content = m.content /\ all[k] \in May
                                  /\ k <= j + n => m.content \in reader'.seen
      BY <2>5, <1>12, <1>16
    <3>2. m = all[k]
      BY <3>1, <1>3
    <3>3. k <= l
      BY <3>2, <2>5, <1>2
    <3>4. QED
      BY <3>1, <3>3, <2>1
  <2>6. m.content \in reader'.seen => NotAfter(m, all[l].at, all[l].id)
    BY <2>3, <2>4, <1>1
  <2>7. QED
    BY <2>2, <2>5, <2>6
<1>17. ~ reader'.moved => PagesRight'
  <2> SUFFICES ASSUME ~ r.moved PROVE PagesRight'
    BY <1>1
  <2>1. reader'.state = "reading" =>
          \A m \in May' :
            /\ m.content \in reader'.seen => NotAfter(m, reader.at, reader.cursor)'
            /\ /\ m.content \in reader'.throughout
               /\ NotAfter(m, reader.at, reader.cursor)'
               => m.content \in reader'.seen
    BY <1>14, <1>16
  <2>2. QED
    BY <2>1, <1>9, <1>13 DEF PagesRight
<1>18. QED
  BY <1>1, <1>10, <1>11, <1>15, <1>17 DEF ReaderRight

\* The inductive invariant.
MessageInv == MessageTypes /\ InboxRight /\ HeldRight /\ ReaderRight

\* The pages.
LEMMA FirstPageOK == ASSUME MessageInv, FirstPage PROVE reader' \in Reader /\ ReaderRight'
<1> DEFINE r == [ NoReader EXCEPT !.throughout = Contents ]
<1>1. MessageTypes /\ InboxRight /\ HeldRight
  BY DEF MessageInv
<1>2. AnswerPage(Sorted, r) /\ UNCHANGED storeVars
  BY DEF FirstPage
<1>3. NoReader \in Reader /\ NoReader.seen = {} /\ NoReader.twice = FALSE
  <2>1. MockId \in Id
    BY DEF Id
  <2>2. QED
    BY <2>1 DEF NoReader, Reader
<1>4. \A k \in DOMAIN held : held[k] \in Message
  BY <1>1 DEF MessageTypes
<1>5. Contents \subseteq 0 .. MaxMessages
  BY <1>4 DEF Contents, ToSet, Message
<1>6. r \in Reader /\ r.seen = {} /\ r.twice = FALSE /\ r.throughout = Contents
  <2> DEFINE no == NoReader
  <2>1. r = [ no EXCEPT !.throughout = Contents ] /\ no \in Reader /\ no.seen = {} /\ no.twice = FALSE
    BY <1>3
  <2> HIDE DEF no, r
  <2>2. r \in Reader /\ r.seen = {} /\ r.throughout = Contents
    BY <2>1, <1>5 DEF Reader
  <2>3. r.twice = FALSE
    BY <2>1 DEF Reader
  <2>4. QED
    BY <2>2, <2>3
<1> HIDE DEF r
<1>7. Sorted \in Seq(Message)
  BY <1>1, SortedIs
<1>8. Len(Sorted) \in Nat /\ DOMAIN Sorted = 1 .. Len(Sorted)
  BY <1>7
<1>9. \A x \in r.throughout : \E m \in ToSet(held) : m.content = x
  BY <1>6 DEF Contents
<1>10. 0 \in 0 .. Len(Sorted) /\ Len(Sorted) = Len(Sorted) - 0
       /\ \A k \in DOMAIN Sorted : Sorted[k] = Sorted[0 + k] /\ ~ (k <= 0)
  BY <1>8
<1>11. QED
  BY <1>1, <1>2, <1>6, <1>7, <1>9, <1>10, PageOK

LEMMA LengthOfRest ==
  ASSUME NEW n \in Nat, NEW j \in 0 .. n
  PROVE  (IF j + 1 <= n THEN n - (j + 1) + 1 ELSE 0) = n - j
<1>1. CASE j + 1 <= n
  BY <1>1
<1>2. CASE j = n
  BY <1>2
<1>3. QED
  BY <1>1, <1>2

LEMMA NextPageOK == ASSUME MessageInv, NextPage PROVE reader' \in Reader /\ ReaderRight'
<1> DEFINE cut == reader.cursor \notin IdsOf(held)
           moved == reader.moved \/ CursorMoved
           r == [ reader EXCEPT !.cut = cut, !.moved = moved ]
           all == Sorted
           found == { i \in DOMAIN all : all[i].id = reader.cursor }
           from == AfterCursor
<1>1. MessageTypes /\ InboxRight /\ HeldRight /\ ReaderRight
  BY DEF MessageInv
<1>2. AnswerPage(from, r) /\ UNCHANGED storeVars /\ reader.state = "reading"
  BY DEF NextPage
<1>3. /\ r \in Reader /\ r.seen = reader.seen
      /\ r.throughout = reader.throughout /\ r.cursor = reader.cursor
  <2>1. cut \in BOOLEAN /\ moved \in BOOLEAN
    OBVIOUS
  <2> HIDE DEF cut, moved
  <2>2. QED
    BY <1>1, <2>1 DEF MessageTypes, Reader
<1>4. r.cut = cut /\ r.moved = moved /\ r.twice = reader.twice
  <2> HIDE DEF cut, moved
  <2>1. QED
    BY <1>1 DEF MessageTypes, Reader
<1>4a. ~ r.moved => ~ reader.moved /\ ~ CursorMoved /\ PagesRight /\ ~ r.twice
  BY <1>1, <1>4 DEF ReaderRight, PagesRight
<1> HIDE DEF r, moved
<1>5. /\ all \in Seq(Message)
      /\ \A k \in DOMAIN all : all[k] \in ToSet(held) /\ all[k] \in May
      /\ \A m \in ToSet(held) : \E k \in DOMAIN all : all[k] = m
      /\ \A k, l \in DOMAIN all : NotAfter(all[k], all[l].at, all[l].id) <=> k <= l
  BY <1>1, SortedIs
<1>6. \A m \in May : m.at \in Nat /\ PlaceOf(m.id) \in 0 .. made
  BY <1>1, MayIs
<1>7. \A m \in May : m.at \in Int /\ PlaceOf(m.id) \in Int
  BY <1>6
<1>8. from = IF found = {} THEN <<>>
             ELSE SubSeq(all, (CHOOSE i \in found : TRUE) + 1, Len(all))
  BY DEF AfterCursor
<1> HIDE DEF all, from
<1>9. DOMAIN all = 1 .. Len(all) /\ Len(all) \in Nat
  BY <1>5
<1>10. CASE found = {}
  <2>1. from = << >> /\ from \in Seq(Message) /\ Len(from) = 0
    BY <1>8, <1>10
  <2>2. cut
    <3> SUFFICES ASSUME NEW m \in ToSet(held), m.id = reader.cursor PROVE FALSE
      BY DEF IdsOf
    <3>1. QED
      BY <1>5, <1>10
  <2>3. /\ PageSize(from) \in 0 .. Len(from)
        /\ reader' \in Reader
        /\ reader'.state = (IF PageSize(from) < PageLimit THEN "done" ELSE "reading")
        /\ \A x \in reader'.seen :
             x \in r.seen \/ \E k \in 1 .. PageSize(from) : x = from[k].content
        /\ reader'.twice <=> r.twice \/ \E k \in 1 .. PageSize(from) : from[k].content \in r.seen
        /\ reader'.cut = r.cut /\ reader'.moved = r.moved
        /\ reader'.throughout = r.throughout
    BY <2>1, <1>2, <1>3, AnswerIs
  <2>4. PageSize(from) = 0 /\ PageSize(from) < PageLimit
    BY <2>1, <2>3, MessagesAssumption
  <2>5. /\ reader'.state = "done" /\ reader'.seen \subseteq reader.seen
        /\ ~ reader'.moved => ~ reader'.twice
        /\ reader'.cut /\ reader'.throughout = reader.throughout
    <3>1. reader'.state = "done" /\ reader'.throughout = reader.throughout
      BY <2>3, <2>4, <1>3
    <3>2. 1 .. PageSize(from) = {}
      BY <2>4
    <3>3. reader'.seen \subseteq reader.seen
      BY <2>3, <3>2, <1>3
    <3>4. ~ reader'.moved => ~ reader'.twice
      BY <2>3, <3>2, <1>4a
    <3>5. reader'.cut
      BY <2>2, <2>3, <1>4
    <3>6. QED
      BY <3>1, <3>3, <3>4, <3>5
  <2>6. held' = held /\ made' = made
    BY <1>2 DEF storeVars
  <2>7. QED
    BY <2>3, <2>5, <2>6, <1>1 DEF ReaderRight, PagesRight
<1>11. CASE found # {}
  <2> DEFINE j == CHOOSE i \in found : TRUE
  <2>1. j \in found
    BY <1>11
  <2>2. from = SubSeq(all, j + 1, Len(all))
    BY <1>8, <1>11
  <2>3. j \in DOMAIN all /\ all[j].id = reader.cursor
    BY <2>1
  <2>3a. ~ r.moved => all[j].at = reader.at
    BY <2>3, <1>4a, <1>5 DEF CursorMoved
  <2> HIDE DEF j, found
  <2>4. j \in 1 .. Len(all) /\ j \in 0 .. Len(all) /\ j \in Nat /\ all[j] \in May
    BY <2>3, <1>5, <1>9
  <2>5. from \in Seq(Message) /\ Len(from) = Len(all) - j
        /\ \A k \in DOMAIN from : from[k] = all[j + k]
    <3>1. \A i \in j + 1 .. Len(all) : all[i] \in Message
      BY <2>4, <1>5, <1>9
    <3>2. /\ from \in Seq(Message)
          /\ Len(from) = IF j + 1 <= Len(all) THEN Len(all) - (j + 1) + 1 ELSE 0
          /\ \A i \in 1 .. Len(all) - (j + 1) + 1 : from[i] = all[j + 1 + i - 1]
      BY <3>1, <2>2, <2>4, <1>9, SubSeqProperties
    <3>3. Len(from) = Len(all) - j
      BY <3>2, <2>4, <1>9, LengthOfRest
    <3>4. DOMAIN from = 1 .. Len(all) - (j + 1) + 1
      BY <3>2, <3>3, <2>4, <1>9
    <3>5. \A k \in DOMAIN from : j + 1 + k - 1 = j + k
      BY <3>4, <2>4, <1>9
    <3>6. QED
      BY <3>2, <3>3, <3>4, <3>5
  <2>6. ASSUME ~ r.moved, NEW m \in May
        PROVE  /\ m.content \in reader.seen => NotAfter(m, all[j].at, all[j].id)
               /\ /\ m.content \in reader.throughout
                  /\ NotAfter(m, all[j].at, all[j].id)
                  => m.content \in reader.seen
    BY <2>3, <2>3a, <2>6, <1>2, <1>4a DEF PagesRight
  <2>7. ASSUME ~ r.moved, NEW m \in May, m.content \in reader.seen,
               NEW k \in DOMAIN all, j < k
        PROVE  NotAfter(m, all[k].at, all[k].id)
    <3>1. NotAfter(m, all[j].at, all[j].id) /\ all[k] \in May
      BY <2>6, <2>7, <1>5
    <3>2. j <= k
      BY <2>4, <2>7, <1>9
    <3>3. NotAfter(all[j], all[k].at, all[k].id)
      BY <2>3, <3>2, <1>5
    <3>4. QED
      BY <3>1, <3>3, <2>4, <1>7 DEF NotAfter
  <2>8. ASSUME ~ r.moved
        PROVE  /\ \A k \in DOMAIN all : all[k].content \in reader.seen => k <= j
               /\ \A k \in DOMAIN all : k <= j /\ all[k].content \in reader.throughout
                                         => all[k].content \in reader.seen
    BY <2>3, <2>6, <2>8, <1>5
  <2>9. /\ \A x \in reader.seen : x <= made
        /\ \A x \in reader.throughout : \E m \in ToSet(held) : m.content = x
    BY <1>1 DEF ReaderRight
  <2>10. ~ r.moved =>
           /\ ~ r.twice
           /\ \A k \in DOMAIN all : all[k].content \in r.seen => k <= j
           /\ \A k \in DOMAIN all : k <= j /\ all[k].content \in r.throughout
                                     => all[k].content \in r.seen
           /\ \A m \in May : m.content \in r.seen =>
                \A k \in DOMAIN all : j < k => NotAfter(m, all[k].at, all[k].id)
    BY <2>7, <2>8, <1>3, <1>4a
  <2>11. QED
    BY <1>1, <1>2, <1>3, <2>4, <2>5, <2>9, <2>10, PageOK DEF all
<1>12. QED
  BY <1>10, <1>11

\* What StoreBecomes leaves of the reader.
LEMMA ReaderOf ==
  ASSUME MessageTypes, NEW new, StoreBecomes(new)
  PROVE  /\ held' = new /\ reader' \in Reader
         /\ reader'.state = reader.state /\ reader'.cursor = reader.cursor
         /\ reader'.seen = reader.seen /\ reader'.twice = reader.twice /\ reader'.cut = reader.cut
         /\ reader'.at = reader.at /\ reader'.moved = reader.moved
         /\ reader'.throughout \subseteq reader.throughout
         /\ \A x \in reader'.throughout : \E m \in ToSet(held') : m.content = x
<1> DEFINE left == reader.throughout \cap { m.content : m \in ToSet(new) }
<1>1. reader \in Reader /\ held' = new /\ reader' = [ reader EXCEPT !.throughout = left ]
  BY DEF MessageTypes, StoreBecomes
<1>2. left \subseteq reader.throughout /\ \A x \in left : \E m \in ToSet(held') : m.content = x
  BY <1>1
<1> HIDE DEF left
<1>3. /\ reader'.state = reader.state /\ reader'.cursor = reader.cursor
      /\ reader'.seen = reader.seen /\ reader'.throughout = left
  BY <1>1 DEF Reader
<1>4. /\ reader'.twice = reader.twice /\ reader'.cut = reader.cut
      /\ reader'.at = reader.at /\ reader'.moved = reader.moved
  BY <1>1 DEF Reader
<1>5. reader' \in Reader
  <2>1. left \subseteq 0 .. MaxMessages
    BY <1>1, <1>2 DEF Reader
  <2>2. QED
    BY <1>1, <2>1 DEF Reader
<1>6. QED
  BY <1>1, <1>2, <1>3, <1>4, <1>5

\* As long as nothing arrives, no place changes.
LEMMA PlacesStay ==
  ASSUME UNCHANGED lxmf
  PROVE  /\ \A id : PlaceOf(id)' = PlaceOf(id)
         /\ reader'.cursor = reader.cursor => Arrived(reader.cursor)' = Arrived(reader.cursor)
         /\ \A m : FromInbox(m)' <=> FromInbox(m)
  BY DEF PlaceOf, FirstOf, IsFirst, Arrived, FromInbox

\* A new dictionary of messages that may be there, in their places.
LEMMA ShrinkOK ==
  ASSUME MessageInv, NEW new \in Seq(Message), StoreBecomes(new),
         UNCHANGED <<live, lxmf, made>>, merged' \in 0 .. Len(lxmf), deleted' \subseteq Id,
         \A k \in DOMAIN new : \/ FromInbox(new[k]) \/ Example(new[k])
                               \/ Written(new[k]) /\ new[k] \in ToSet(held),
         \A k, l \in DOMAIN new : k < l => PlaceOf(new[k].id) < PlaceOf(new[l].id)
  PROVE  MessageInv'
<1>1. MessageTypes /\ InboxRight /\ HeldRight /\ ReaderRight
  BY DEF MessageInv
<1>2. /\ held' = new /\ reader' \in Reader
      /\ reader'.state = reader.state /\ reader'.cursor = reader.cursor
      /\ reader'.seen = reader.seen /\ reader'.twice = reader.twice /\ reader'.cut = reader.cut
      /\ reader'.at = reader.at /\ reader'.moved = reader.moved
      /\ reader'.throughout \subseteq reader.throughout
      /\ \A x \in reader'.throughout : \E m \in ToSet(held') : m.content = x
  BY <1>1, ReaderOf
<1>3. /\ \A id : PlaceOf(id)' = PlaceOf(id)
      /\ Arrived(reader.cursor)' = Arrived(reader.cursor)
      /\ \A m : FromInbox(m)' <=> FromInbox(m)
  BY <1>2, PlacesStay
<1>4. /\ \A m : Written(m)' <=> Written(m)
      /\ \A m : Example(m)' <=> Example(m)
  BY DEF Written, Example
<1>5. MessageTypes'
  BY <1>1, <1>2 DEF MessageTypes
<1>6. InboxRight'
  BY <1>1 DEF InboxRight
<1>7. HeldRight'
  BY <1>2, <1>3, <1>4 DEF HeldRight
<1>8. \A m \in May' : m \in May
  <2> SUFFICES ASSUME NEW m \in May' PROVE m \in May
    OBVIOUS
  <2>1. m \in Message /\ (m \in ToSet(new) \/ FromInbox(m) \/ Example(m))
    BY <1>2, <1>3, <1>4 DEF May
  <2>2. ASSUME m \in ToSet(new) PROVE m \in ToSet(held) \/ FromInbox(m) \/ Example(m)
    BY <2>2 DEF ToSet
  <2>3. QED
    BY <2>1, <2>2 DEF May
<1>9. made' \in Nat /\ made <= made'
  BY <1>1, MessagesAssumption DEF MessageTypes
<1>10. ReaderRight'
  BY <1>1, <1>2, <1>3, <1>8, <1>9, ReaderKept
<1>11. QED
  BY <1>5, <1>6, <1>7, <1>10 DEF MessageInv

\* DELETE takes a message out and leaves the others in their order.
LEMMA RemoveOK ==
  ASSUME MessageInv, NEW id \in IdsOf(held), RemoveMessage(id), deleted' = deleted \cup {id},
         UNCHANGED <<live, lxmf, made, merged>>
  PROVE  MessageInv'
<1> DEFINE kept == { i \in DOMAIN held : held[i].id # id }
           new == Part(held, kept)
<1>1. MessageTypes /\ HeldRight
  BY DEF MessageInv
<1>2. held \in Seq(Message) /\ kept \in SUBSET DOMAIN held
  BY <1>1 DEF MessageTypes
<1>3. StoreBecomes(new)
  BY DEF RemoveMessage
<1> HIDE DEF kept
<1> DEFINE n == Cardinality(kept)
           at == Place(kept)
<1>4. /\ new \in Seq(Message) /\ Len(new) = n /\ n \in Nat
      /\ at \in [ 1 .. n -> kept ]
      /\ \A k \in 1 .. n : new[k] = held[at[k]]
      /\ \A k, l \in 1 .. n : at[k] < at[l] <=> k < l
  BY <1>2, PartIs
<1> HIDE DEF new, n, at
<1>5. /\ \A k \in DOMAIN new : at[k] \in kept /\ new[k] = held[at[k]]
      /\ \A k, l \in DOMAIN new : at[k] < at[l] <=> k < l
  BY <1>4
<1>6. \A k \in DOMAIN new : at[k] \in DOMAIN held /\ new[k] = held[at[k]] /\ new[k] \in ToSet(held)
  BY <1>2, <1>5 DEF ToSet
<1>7. \A k \in DOMAIN new : \/ FromInbox(new[k]) \/ Example(new[k])
                            \/ Written(new[k]) /\ new[k] \in ToSet(held)
  BY <1>1, <1>6 DEF HeldRight
<1>8. \A k, l \in DOMAIN new : k < l => PlaceOf(new[k].id) < PlaceOf(new[l].id)
  BY <1>1, <1>5, <1>6 DEF HeldRight
<1>9. deleted' \subseteq Id /\ merged' \in 0 .. Len(lxmf)
  <2>1. \A m \in ToSet(held) : m \in Message
    BY <1>2 DEF ToSet
  <2>2. id \in Id
    BY <2>1 DEF IdsOf, Message
  <2>3. QED
    BY <2>2, <1>1 DEF MessageTypes
<1>10. QED
  BY <1>3, <1>4, <1>7, <1>8, <1>9, ShrinkOK

\* The inbox as a list of messages.
InboxMessages == [ i \in DOMAIN lxmf |-> AsMessage(lxmf[i]) ]

LEMMA InboxMessagesAre ==
  ASSUME MessageTypes
  PROVE  /\ InboxMessages \in Seq(Message) /\ DOMAIN InboxMessages = DOMAIN lxmf
         /\ \A i \in DOMAIN lxmf : InboxMessages[i] = AsMessage(lxmf[i])
         /\ \A i \in DOMAIN lxmf : Alike(InboxMessages, i) = Arrived(AsMessage(lxmf[i]).id)
<1>1. DOMAIN lxmf = 1 .. Len(lxmf) /\ Len(lxmf) \in Nat /\ \A i \in DOMAIN lxmf : lxmf[i] \in Lxmf
  BY DEF MessageTypes
<1>2. \A i \in DOMAIN lxmf : AsMessage(lxmf[i]) \in Message
  BY <1>1, MessageOf
<1>3. InboxMessages = [ i \in 1 .. Len(lxmf) |-> AsMessage(lxmf[i]) ]
  BY <1>1 DEF InboxMessages
<1>4. InboxMessages \in Seq(Message) /\ DOMAIN InboxMessages = DOMAIN lxmf
      /\ \A i \in DOMAIN lxmf : InboxMessages[i] = AsMessage(lxmf[i])
  BY <1>1, <1>2, <1>3
<1>5. \A i \in DOMAIN lxmf : Alike(InboxMessages, i) = Arrived(AsMessage(lxmf[i]).id)
  BY <1>4 DEF Alike, Arrived
<1>6. QED
  BY <1>4, <1>5

\* A merge has the inbox, or the example, in its order.
LEMMA MergeOK == ASSUME MessageInv, MergeMessages PROVE MessageInv'
<1>1. /\ StoreBecomes(MergedMessages) /\ UNCHANGED <<live, lxmf, made>>
      /\ merged' = Len(lxmf) /\ deleted' = {}
  BY DEF MergeMessages
<1>2. MessageTypes /\ InboxRight
  BY DEF MessageInv
<1>3. merged' \in 0 .. Len(lxmf) /\ deleted' \subseteq Id
  <2>1. Len(lxmf) \in Nat
    BY <1>2 DEF MessageTypes
  <2>2. QED
    BY <2>1, <1>1
<1>4. CASE live /\ \A i \in DOMAIN lxmf : lxmf[i].fits
  <2> DEFINE s == InboxMessages
             new == Assigned(s)
  <2>1. StoreBecomes(new)
    BY <1>1, <1>4 DEF MergedMessages, Fetched, InboxMessages
  <2>2. /\ s \in Seq(Message) /\ DOMAIN s = DOMAIN lxmf
        /\ \A i \in DOMAIN lxmf : s[i] = AsMessage(lxmf[i])
        /\ \A i \in DOMAIN lxmf : Alike(s, i) = Arrived(AsMessage(lxmf[i]).id)
    BY <1>2, InboxMessagesAre
  <2> HIDE DEF s
  <2>3. /\ new \in Seq(Message)
        /\ \E first \in [ DOMAIN new -> DOMAIN s ] :
             /\ \A k \in DOMAIN new :
                  /\ FirstAt(s, first[k])
                  /\ \E j \in Alike(s, first[k]) : new[k] = s[j]
             /\ \A k, l \in DOMAIN new : first[k] < first[l] <=> k < l
    BY <2>2, AssignedIs
  <2> HIDE DEF new
  <2>4. PICK first \in [ DOMAIN new -> DOMAIN s ] :
             /\ \A k \in DOMAIN new :
                  /\ FirstAt(s, first[k])
                  /\ \E j \in Alike(s, first[k]) : new[k] = s[j]
             /\ \A k, l \in DOMAIN new : first[k] < first[l] <=> k < l
    BY <2>3
  <2>5. ASSUME NEW k \in DOMAIN new
        PROVE  /\ FromInbox(new[k]) /\ first[k] \in DOMAIN lxmf
               /\ PlaceOf(new[k].id) = lxmf[first[k]].content
    <3>1. first[k] \in DOMAIN lxmf
      BY <2>2, <2>4
    <3>2. PICK j \in Alike(s, first[k]) : new[k] = s[j]
      BY <2>4
    <3>3. j \in DOMAIN lxmf /\ new[k] = AsMessage(lxmf[j])
          /\ new[k].id = AsMessage(lxmf[first[k]]).id
      BY <3>1, <3>2, <2>2 DEF Alike
    <3>4. first[k] \in Alike(s, first[k])
      BY <3>1, <2>2 DEF Alike
    <3>5. IsFirst(AsMessage(lxmf[first[k]]).id, first[k])
      BY <3>1, <3>4, <2>2, <2>4 DEF IsFirst, FirstAt
    <3>6. QED
      BY <3>1, <3>3, <3>5, <1>2, PlaceIs DEF FromInbox
  <2>6. \A k, l \in DOMAIN new : k < l => PlaceOf(new[k].id) < PlaceOf(new[l].id)
    BY <2>4, <2>5, <1>2 DEF InboxRight
  <2>7. QED
    BY <2>1, <2>3, <2>5, <2>6, <1>1, <1>3, ShrinkOK
<1>5. CASE ~ (live /\ \A i \in DOMAIN lxmf : lxmf[i].fits)
  <2> DEFINE new == MockMessages
  <2>1. StoreBecomes(new)
    BY <1>1, <1>5 DEF MergedMessages, Fetched
  <2>2. new \in Seq(Message) /\ DOMAIN new = {1}
    BY ExampleIs
  <2>3. \A k \in DOMAIN new : Example(new[k])
    BY <2>2 DEF Example
  <2> HIDE DEF new
  <2>4. \A k, l \in DOMAIN new : ~ (k < l)
    BY <2>2
  <2>5. QED
    BY <2>1, <2>2, <2>3, <2>4, <1>1, <1>3, ShrinkOK
<1>6. QED
  BY <1>4, <1>5

\* A message that is posted goes to the end.
LEMMA CreateOK == ASSUME MessageInv, CreateMessage PROVE MessageInv'
<1>1. PICK t \in Time : AddMessage([ id |-> Posted(made'), at |-> t, content |-> made' ])
  BY DEF CreateMessage
<1> DEFINE post == [ id |-> Posted(made'), at |-> t, content |-> made' ]
<1>2. MessageTypes /\ InboxRight /\ HeldRight /\ ReaderRight
  BY DEF MessageInv
<1>3. /\ made < MaxMessages /\ made' = made + 1 /\ UNCHANGED <<live, lxmf, merged, deleted>>
      /\ StoreBecomes(Append(held, post))
  BY <1>1 DEF CreateMessage, AddMessage
<1>4. made \in Nat /\ made' \in 1 .. MaxMessages /\ made' \in 0 .. MaxMessages /\ made' \in Nat
      /\ made <= made' /\ made < made'
  BY <1>2, <1>3, MessagesAssumption DEF MessageTypes
<1>5. PICK p \in Message : p = post /\ p.content = made' /\ p.id = Posted(made')
  <2>1. Posted(made') \in Id
    BY <1>4 DEF Id
  <2>2. post \in Message
    BY <2>1, <1>4 DEF Message
  <2>3. QED
    BY <2>2
<1> DEFINE new == Append(held, p)
<1> HIDE DEF post
<1>6. /\ held \in Seq(Message) /\ new \in Seq(Message) /\ Len(held) \in Nat
      /\ DOMAIN held = 1 .. Len(held) /\ DOMAIN new = 1 .. Len(held) + 1
      /\ \A k \in 1 .. Len(held) : new[k] = held[k]
      /\ new[Len(held) + 1] = p
  <2>1. held \in Seq(Message)
    BY <1>2 DEF MessageTypes
  <2>2. QED
    BY <2>1, <1>5, AppendProperties
<1> HIDE DEF new
<1>7. \A k \in DOMAIN new : k \in DOMAIN held \/ k = Len(held) + 1
  BY <1>6
<1>8. /\ held' = new /\ reader' \in Reader
      /\ reader'.state = reader.state /\ reader'.cursor = reader.cursor
      /\ reader'.seen = reader.seen /\ reader'.twice = reader.twice /\ reader'.cut = reader.cut
      /\ reader'.at = reader.at /\ reader'.moved = reader.moved
      /\ reader'.throughout \subseteq reader.throughout
      /\ \A x \in reader'.throughout : \E m \in ToSet(held') : m.content = x
  <2>1. StoreBecomes(new)
    BY <1>3, <1>5 DEF new
  <2>2. QED
    BY <2>1, <1>2, ReaderOf
<1>9. /\ \A id : PlaceOf(id)' = PlaceOf(id)
      /\ Arrived(reader.cursor)' = Arrived(reader.cursor)
      /\ \A m : FromInbox(m)' <=> FromInbox(m)
  BY <1>3, <1>8, PlacesStay
<1>10. /\ \A k \in DOMAIN held : held[k] \in May
       /\ \A m \in May : PlaceOf(m.id) \in 0 .. made
  BY <1>2, MayIs
<1>11. PlaceOf(p.id) = made'
  BY <1>2, <1>4, <1>5, PlaceIs
<1>12. MessageTypes'
  BY <1>2, <1>3, <1>4, <1>6, <1>8 DEF MessageTypes
<1>13. InboxRight'
  <2>1. \A i \in DOMAIN lxmf : lxmf[i].content \in Nat
    <3>1. \A i \in DOMAIN lxmf : lxmf[i] \in Lxmf
      BY <1>2 DEF MessageTypes
    <3>2. \A i \in DOMAIN lxmf : lxmf[i].content \in 1 .. MaxMessages
      BY <3>1, MessageOf
    <3>3. QED
      BY <3>2, MessagesAssumption
  <2>2. \A i \in DOMAIN lxmf : lxmf[i].content <= made'
    BY <2>1, <1>2, <1>4 DEF InboxRight
  <2>3. QED
    BY <2>2, <1>2, <1>3 DEF InboxRight
<1>14. Written(p)'
  <2>1. ASSUME NEW i \in DOMAIN lxmf PROVE lxmf[i].content # made'
    <3>1. lxmf[i].content <= made
      BY <1>2 DEF InboxRight
    <3>2. ~ (made' <= made)
      BY <1>4
    <3>3. QED
      BY <3>1, <3>2
  <2>2. p.content \in 1 .. made'
    BY <1>4, <1>5
  <2>3. QED
    BY <2>1, <2>2, <1>3, <1>5 DEF Written
<1>15. \A m : (Written(m) => Written(m)') /\ (Example(m)' <=> Example(m))
  <2>1. \A n \in 1 .. made : n \in 1 .. made'
    BY <1>4
  <2>2. QED
    BY <2>1, <1>3 DEF Written, Example
<1>16. HeldRight'
  <2>1. ASSUME NEW k \in DOMAIN new
        PROVE  (FromInbox(held[k]) \/ Written(held[k]) \/ Example(held[k]))'
    <3>1. PICK m \in Message : m = new[k] /\ m = held'[k]
      BY <1>6, <1>8
    <3>2. (FromInbox(m) \/ Written(m) \/ Example(m))'
      <4>1. CASE k \in DOMAIN held
        BY <3>1, <4>1, <1>2, <1>6, <1>9, <1>15 DEF HeldRight
      <4>2. CASE k = Len(held) + 1
        BY <3>1, <4>2, <1>6, <1>14
      <4>3. QED
        BY <4>1, <4>2, <1>7
    <3>3. QED
      BY <3>1, <3>2
  <2>2. ASSUME NEW k \in DOMAIN new, NEW l \in DOMAIN new, k < l
        PROVE  PlaceOf(new[k].id) < PlaceOf(new[l].id)
    <3>1. k \in DOMAIN held
      BY <2>2, <1>6
    <3>2. CASE l \in DOMAIN held
      BY <2>2, <3>1, <3>2, <1>2, <1>6 DEF HeldRight
    <3>3. CASE l = Len(held) + 1
      <4>1. PlaceOf(held[k].id) \in 0 .. made /\ new[k] = held[k] /\ new[l] = p
        BY <3>1, <3>3, <1>6, <1>10
      <4>2. QED
        BY <4>1, <1>4, <1>11
    <3>4. QED
      BY <3>2, <3>3, <1>7
  <2>3. QED
    <3>1. \A k, l \in DOMAIN new : k < l => PlaceOf(held[k].id)' < PlaceOf(held[l].id)'
      BY <2>2, <1>8, <1>9
    <3>2. QED
      BY <2>1, <3>1, <1>8 DEF HeldRight
<1>17. ASSUME NEW m \in May' PROVE m \in May \/ (m = p /\ m.content > made)
  <2>1. m \in Message /\ (m \in ToSet(new) \/ FromInbox(m) \/ Example(m))
    BY <1>8, <1>9, <1>15 DEF May
  <2>2. ASSUME m \in ToSet(new) PROVE m \in ToSet(held) \/ m = p
    BY <2>2, <1>6, <1>7 DEF ToSet
  <2>3. p.content > made
    BY <1>4, <1>5
  <2>4. QED
    BY <2>1, <2>2, <2>3 DEF May
<1>18. ReaderRight'
  <2>1. PlaceOf(reader.cursor)' = PlaceOf(reader.cursor)
    BY <1>8, <1>9
  <2>2. \A m \in May' : m \in May \/ m.content > made
    BY <1>17
  <2>3. QED
    BY <2>1, <2>2, <1>2, <1>4, <1>8, <1>9, ReaderKept
<1>19. QED
  BY <1>12, <1>13, <1>16, <1>18 DEF MessageInv

\* What arrives may be shown later, and moves nothing.
LEMMA ReceiveOK == ASSUME MessageInv, ReceiveLxmf PROVE MessageInv'
<1>1. /\ live /\ made < MaxMessages /\ made' = made + 1
      /\ UNCHANGED <<live, held, merged, deleted, reader>>
  BY DEF ReceiveLxmf
<1>2. MessageTypes /\ InboxRight /\ HeldRight /\ ReaderRight
  BY DEF MessageInv
<1>3. made \in Nat /\ made' \in 1 .. MaxMessages /\ made' \in 0 .. MaxMessages /\ made' \in Nat
      /\ made <= made' /\ made < made'
  BY <1>1, <1>2, MessagesAssumption DEF MessageTypes
<1>4. PICK x \in Lxmf : lxmf' = Append(lxmf, x) /\ x.content = made'
  <2>1. PICK s \in Source, t \in Time, fits \in BOOLEAN :
          lxmf' = Append(lxmf, [ from |-> s, at |-> t, content |-> made', fits |-> fits ])
    BY DEF ReceiveLxmf
  <2> DEFINE y == [ from |-> s, at |-> t, content |-> made', fits |-> fits ]
  <2>2. y \in Lxmf /\ y.content = made' /\ lxmf' = Append(lxmf, y)
    BY <2>1, <1>3 DEF Lxmf
  <2>3. QED
    BY <2>2
<1>5. /\ lxmf \in Seq(Lxmf) /\ lxmf' \in Seq(Lxmf) /\ Len(lxmf) \in Nat
      /\ DOMAIN lxmf = 1 .. Len(lxmf) /\ DOMAIN lxmf' = 1 .. Len(lxmf) + 1
      /\ Len(lxmf') = Len(lxmf) + 1
      /\ \A i \in 1 .. Len(lxmf) : lxmf'[i] = lxmf[i]
      /\ lxmf'[Len(lxmf) + 1] = x
  <2>1. lxmf \in Seq(Lxmf)
    BY <1>2 DEF MessageTypes
  <2>2. QED
    BY <2>1, <1>4, AppendProperties
<1>6. \A i \in DOMAIN lxmf' : i \in DOMAIN lxmf \/ i = Len(lxmf) + 1
  BY <1>5
<1>7. \A i \in DOMAIN lxmf : i \in DOMAIN lxmf' /\ lxmf'[i] = lxmf[i] /\ i <= Len(lxmf) + 1 /\ i \in Nat
  BY <1>5
<1>8. \A i \in DOMAIN lxmf : lxmf[i].content \in Nat /\ lxmf[i].content <= made
  <2>1. \A i \in DOMAIN lxmf : lxmf[i] \in Lxmf
    BY <1>5
  <2>2. \A i \in DOMAIN lxmf : lxmf[i].content \in 1 .. MaxMessages
    BY <2>1, MessageOf
  <2>3. QED
    BY <2>2, <1>2, MessagesAssumption DEF InboxRight
<1>9. MessageTypes'
  <2>1. merged' \in 0 .. Len(lxmf')
    BY <1>1, <1>2, <1>5 DEF MessageTypes
  <2>2. QED
    BY <2>1, <1>1, <1>2, <1>3, <1>5 DEF MessageTypes
<1>10. InboxRight'
  <2>1. \A i \in DOMAIN lxmf' : lxmf'[i].content <= made'
    <3> SUFFICES ASSUME NEW i \in DOMAIN lxmf' PROVE lxmf'[i].content <= made'
      OBVIOUS
    <3>1. CASE i \in DOMAIN lxmf
      BY <3>1, <1>3, <1>7, <1>8
    <3>2. CASE i = Len(lxmf) + 1
      BY <3>2, <1>3, <1>4, <1>5
    <3>3. QED
      BY <3>1, <3>2, <1>6
  <2>2. ASSUME NEW i \in DOMAIN lxmf', NEW j \in DOMAIN lxmf', i < j
        PROVE  lxmf'[i].content < lxmf'[j].content
    <3>1. i \in DOMAIN lxmf
      BY <2>2, <1>5
    <3>2. CASE j \in DOMAIN lxmf
      BY <2>2, <3>1, <3>2, <1>2, <1>7 DEF InboxRight
    <3>3. CASE j = Len(lxmf) + 1
      BY <3>1, <3>3, <1>3, <1>4, <1>5, <1>7, <1>8
    <3>4. QED
      BY <3>2, <3>3, <1>6
  <2>3. QED
    BY <2>1, <2>2, <1>1 DEF InboxRight
<1>11. ASSUME NEW id \in Id, id[1] # "lxmf" \/ Arrived(id) # {}
       PROVE  PlaceOf(id)' = PlaceOf(id) /\ (Arrived(id) # {} => Arrived(id)' # {})
  <2>1. CASE id[1] # "lxmf"
    <3>1. Arrived(id) \subseteq Arrived(id)'
      BY <1>7 DEF Arrived, AsMessage
    <3>2. QED
      BY <2>1, <3>1 DEF PlaceOf
  <2>2. CASE id[1] = "lxmf"
    <3>1. PICK i \in Arrived(id) : IsFirst(id, i)
      BY <1>2, <1>11, <2>2, PlaceIs
    <3>2. PICK old \in Arrived(id) : IsFirst(id, old) /\ old = FirstOf(id)
      BY <3>1, Zenon DEF FirstOf
    <3>3. old \in DOMAIN lxmf /\ \A j \in Arrived(id) : j \in DOMAIN lxmf /\ old <= j
      BY <3>2 DEF IsFirst, Arrived
    <3>4. old \in Arrived(id)'
      BY <3>2, <3>3, <1>7 DEF Arrived, AsMessage
    <3>5. \A j \in Arrived(id)' : j \in Arrived(id) \/ j = Len(lxmf) + 1
      BY <1>6, <1>7 DEF Arrived, AsMessage
    <3>6. IsFirst(id, old)'
      <4>1. \A j \in Arrived(id)' : old <= j
        BY <3>3, <3>5, <1>7
      <4>2. QED
        BY <3>4, <4>1 DEF IsFirst
    <3>7. PICK new \in Arrived(id)' : IsFirst(id, new)' /\ new = FirstOf(id)'
      BY <3>4, <3>6, Zenon DEF FirstOf
    <3>8. new <= old /\ old <= new /\ old \in Nat /\ new \in Nat
      <4>1. new <= old /\ old <= new
        BY <3>4, <3>6, <3>7 DEF IsFirst
      <4>2. old \in Nat /\ (new \in Arrived(id) \/ new = Len(lxmf) + 1)
        BY <3>3, <3>5, <3>7, <1>7
      <4>3. CASE new \in Arrived(id)
        BY <4>1, <4>2, <4>3, <3>3, <1>7
      <4>4. CASE new = Len(lxmf) + 1
        BY <4>1, <4>2, <4>4, <1>5
      <4>5. QED
        BY <4>2, <4>3, <4>4
    <3>9. new = old
      BY <3>8
    <3>10. PlaceOf(id) = lxmf[old].content /\ PlaceOf(id)' = lxmf'[new].content
      BY <2>2, <3>2, <3>7 DEF PlaceOf
    <3>11. QED
      BY <3>3, <3>4, <3>9, <3>10, <1>7
  <2>3. QED
    BY <2>1, <2>2
<1>12. /\ \A k \in DOMAIN held : held[k] \in May
       /\ \A i \in DOMAIN lxmf : AsMessage(lxmf[i]) \in May
       /\ \A m \in May : /\ m.content \in 0 .. made
                         /\ \/ m.id = MockId \/ Arrived(m.id) # {}
                            \/ \E n \in 1 .. made : m.id = Posted(n)
  BY <1>2, MayIs
<1>13. ASSUME NEW m \in May PROVE PlaceOf(m.id)' = PlaceOf(m.id)
  <2>1. m.id[1] # "lxmf" \/ Arrived(m.id) # {}
    BY <1>12 DEF MockId, Posted
  <2>2. m.id \in Id
    BY DEF May, Message
  <2>3. QED
    BY <2>1, <2>2, <1>11
<1>14. /\ \A m : FromInbox(m) => FromInbox(m)'
       /\ \A m : FromInbox(m)' => FromInbox(m) \/ m = AsMessage(x)
  BY <1>5, <1>6, <1>7 DEF FromInbox, AsMessage
<1>15. \A m : Example(m)' <=> Example(m)
  BY <1>1 DEF Example
<1>16. ASSUME NEW m \in May, Written(m) PROVE Written(m)'
  <2>1. m.content \in 1 .. made' /\ m.content # made'
    BY <1>3, <1>16 DEF Written
  <2>2. \A i \in DOMAIN lxmf' : lxmf'[i].content # m.content
    BY <2>1, <1>4, <1>5, <1>6, <1>7, <1>16 DEF Written
  <2>3. QED
    BY <2>1, <2>2, <1>16 DEF Written
<1>17. HeldRight'
  <2>1. ASSUME NEW k \in DOMAIN held
        PROVE  (FromInbox(held[k]) \/ Written(held[k]) \/ Example(held[k]))'
    <3>1. PICK m \in May : m = held[k] /\ m = held'[k]
      BY <1>1, <1>12
    <3>2. (FromInbox(m) \/ Written(m) \/ Example(m))'
      BY <3>1, <1>2, <1>14, <1>15, <1>16 DEF HeldRight
    <3>3. QED
      BY <3>1, <3>2
  <2>2. ASSUME NEW k \in DOMAIN held, NEW l \in DOMAIN held, k < l
        PROVE  PlaceOf(held[k].id)' < PlaceOf(held[l].id)'
    <3>1. PICK m \in May, n \in May : m = held[k] /\ m = held'[k] /\ n = held[l] /\ n = held'[l]
      BY <1>1, <1>12
    <3>2. PlaceOf(m.id)' < PlaceOf(n.id)'
      BY <2>2, <3>1, <1>2, <1>13 DEF HeldRight
    <3>3. QED
      BY <3>1, <3>2
  <2>3. QED
    BY <2>1, <2>2, <1>1 DEF HeldRight
<1>18. AsMessage(x).content > made
  BY <1>3, <1>4, MessageOf
<1>19. \A m \in May' : m \in May \/ m = AsMessage(x)
  <2> SUFFICES ASSUME NEW m \in May' PROVE m \in May \/ m = AsMessage(x)
    OBVIOUS
  <2>1. m \in Message /\ (m \in ToSet(held) \/ FromInbox(m)' \/ Example(m)')
    BY <1>1 DEF May
  <2>2. QED
    BY <2>1, <1>14, <1>15 DEF May
<1>20. ASSUME reader.state = "reading" PROVE PlaceOf(reader.cursor)' = PlaceOf(reader.cursor)
  <2>1. PICK id \in Id : id = reader.cursor
    BY <1>2 DEF MessageTypes, Reader
  <2>2. id[1] # "lxmf" \/ Arrived(id) # {}
    BY <2>1, <1>2, <1>20 DEF ReaderRight, CursorKnown, MockId, Posted
  <2>3. reader' = reader /\ PlaceOf(id)' = PlaceOf(id)
    BY <2>2, <1>1, <1>11
  <2>4. QED
    BY <2>1, <2>3
<1>21. Arrived(reader.cursor) # {} => Arrived(reader.cursor)' # {}
  <2> SUFFICES ASSUME NEW i \in Arrived(reader.cursor) PROVE Arrived(reader.cursor)' # {}
    OBVIOUS
  <2>1. i \in Arrived(reader.cursor)'
    BY <1>1, <1>7 DEF Arrived, AsMessage
  <2>2. QED
    BY <2>1
<1>22. \A y \in reader'.throughout : \E m \in ToSet(held') : m.content = y
  BY <1>1, <1>2 DEF ReaderRight
<1>23. ReaderRight'
  <2>1. \A m \in May' : m \in May \/ m.content > made
    BY <1>18, <1>19
  <2>2. reader' = reader
    BY <1>1
  <2>3. QED
    BY <2>1, <2>2, <1>2, <1>3, <1>13, <1>20, <1>21, <1>22, ReaderKept
<1>24. QED
  BY <1>9, <1>10, <1>17, <1>23 DEF MessageInv

LEMMA MessageStart == MessagesInit => MessageInv
<1> SUFFICES ASSUME MessagesInit PROVE MessageInv
  OBVIOUS
<1>1. /\ live \in BOOLEAN /\ lxmf = << >> /\ made = 0 /\ merged = 0 /\ deleted = {}
      /\ reader = NoReader
  BY DEF MessagesInit
<1>2. held = IF live THEN << >> ELSE MockMessages
  BY DEF MessagesInit
<1>3. /\ NoReader \in Reader /\ NoReader.seen = {} /\ NoReader.twice = FALSE
      /\ NoReader.throughout = {} /\ NoReader.state = "idle"
  <2>1. MockId \in Id
    BY DEF Id
  <2>2. QED
    BY <2>1 DEF NoReader, Reader
<1>4. held \in Seq(Message) /\ Len(held) \in 0 .. 1
      /\ \A k \in DOMAIN held : Example(held[k])
  <2>1. CASE live
    BY <2>1, <1>2
  <2>2. CASE ~ live
    <3>1. DOMAIN held = {1} /\ held = MockMessages /\ held \in Seq(Message) /\ Len(held) = 1
      BY <2>2, <1>2, ExampleIs
    <3>2. QED
      BY <3>1, <2>2 DEF Example
  <2>3. QED
    BY <2>1, <2>2
<1>5. DOMAIN lxmf = {} /\ Len(lxmf) = 0 /\ lxmf \in Seq(Lxmf)
  BY <1>1
<1>6. MessageTypes
  BY <1>1, <1>3, <1>4, <1>5, MessagesAssumption DEF MessageTypes
<1>7. InboxRight
  BY <1>1, <1>5 DEF InboxRight
<1>8. HeldRight
  <2>1. \A k, l \in DOMAIN held : ~ (k < l)
    BY <1>4
  <2>2. QED
    BY <2>1, <1>4 DEF HeldRight
<1>9. ReaderRight
  <2> DEFINE no == NoReader
  <2>1. reader = no /\ no.seen = {} /\ no.twice = FALSE /\ no.throughout = {} /\ no.state = "idle"
    BY <1>1, <1>3
  <2> HIDE DEF no
  <2>2. ~ reader.twice
    BY <2>1
  <2>3. reader.state = "idle" /\ reader.seen = {} /\ reader.throughout = {}
    BY <2>1
  <2>4. QED
    BY <2>2, <2>3 DEF ReaderRight, PagesRight
<1>10. QED
  BY <1>6, <1>7, <1>8, <1>9 DEF MessageInv

\* The client moves, and nothing else.
LEMMA ReadsOK ==
  ASSUME MessageInv, UNCHANGED storeVars, reader' \in Reader, ReaderRight'
  PROVE  MessageInv'
<1>1. /\ live' = live /\ lxmf' = lxmf /\ held' = held /\ made' = made /\ merged' = merged
      /\ deleted' = deleted
  BY DEF storeVars
<1>2. MessageTypes' /\ InboxRight'
  BY <1>1 DEF MessageInv, MessageTypes, InboxRight
<1>3. HeldRight'
  <2>1. /\ \A id : PlaceOf(id)' = PlaceOf(id)
        /\ \A m : FromInbox(m)' <=> FromInbox(m)
    BY <1>1, PlacesStay
  <2>2. \A m : (Written(m)' <=> Written(m)) /\ (Example(m)' <=> Example(m))
    BY <1>1 DEF Written, Example
  <2>3. QED
    BY <1>1, <2>1, <2>2 DEF MessageInv, HeldRight
<1>4. QED
  BY <1>2, <1>3 DEF MessageInv

LEMMA MessageStep == MessageInv /\ [MessagesNext]_messageVars => MessageInv'
<1> SUFFICES ASSUME MessageInv, [MessagesNext]_messageVars PROVE MessageInv'
  OBVIOUS
<1>1. CASE ReceiveLxmf
  BY <1>1, ReceiveOK
<1>2. CASE CreateMessage
  BY <1>2, CreateOK
<1>3. CASE DeleteMessage
  BY <1>3, RemoveOK DEF DeleteMessage
<1>4. CASE MergeMessages
  BY <1>4, MergeOK
<1>5. CASE FirstPage \/ NextPage
  <2>1. UNCHANGED storeVars
    BY <1>5 DEF FirstPage, NextPage
  <2>2. QED
    BY <2>1, <1>5, FirstPageOK, NextPageOK, ReadsOK
<1>6. CASE UNCHANGED messageVars
  <2>1. UNCHANGED storeVars /\ reader' = reader
    BY <1>6 DEF messageVars, storeVars
  <2>2. /\ live' = live /\ lxmf' = lxmf /\ held' = held /\ made' = made
    BY <2>1 DEF storeVars
  <2>3. ReaderRight'
    <3>1. MessageTypes /\ InboxRight /\ HeldRight /\ ReaderRight
      BY DEF MessageInv
    <3>2. /\ \A m \in May : PlaceOf(m.id)' = PlaceOf(m.id)
          /\ Arrived(reader.cursor)' = Arrived(reader.cursor)
          /\ \A m : FromInbox(m)' <=> FromInbox(m)
      BY <2>1, <2>2, PlacesStay
    <3>3. \A m \in May' : m \in May
      BY <2>2, <3>2 DEF May, Example
    <3>4. made' \in Nat /\ made <= made'
      BY <2>2, <3>1, MessagesAssumption DEF MessageTypes
    <3>5. \A x \in reader'.throughout : \E m \in ToSet(held') : m.content = x
      BY <2>1, <2>2, <3>1 DEF ReaderRight
    <3>6. PlaceOf(reader.cursor)' = PlaceOf(reader.cursor)
      BY <2>1, <2>2, PlacesStay
    <3>7. QED
      BY <2>1, <3>1, <3>2, <3>3, <3>4, <3>5, <3>6, ReaderKept
  <2>4. reader' \in Reader
    BY <2>1 DEF MessageInv, MessageTypes
  <2>5. QED
    BY <2>1, <2>3, <2>4, ReadsOK
<1>7. QED
  BY <1>1, <1>2, <1>3, <1>4, <1>5, <1>6 DEF MessagesNext

\* However messages arrive, are posted, deleted and merged between two pages, a
\* client whose cursor keeps its time reads none twice and, unless the cursor is
\* deleted, misses none that was in the store all the time (get_messages of
\* routers/messages.py), for any page size, any times, however many fall into
\* one second, and any number of messages.
THEOREM PagesComplete == MessagesSpec => []PagesAreComplete
<1>1. MessageInv => PagesAreComplete
  BY DEF MessageInv, ReaderRight, PagesRight, PagesAreComplete
<1>2. QED
  BY <1>1, MessageStart, MessageStep, PTL DEF MessagesSpec

\* Every variable keeps its type.
THEOREM MessagesTypes == MessagesSpec => []MessagesTypeOK
<1>1. MessageInv => MessagesTypeOK
  BY DEF MessageInv, MessageTypes, MessagesTypeOK, Reader
<1>2. QED
  BY <1>1, MessageStart, MessageStep, PTL DEF MessagesSpec

\* What the last merge has taken from the inbox.
AllFit == \A i \in 1 .. merged : lxmf[i].fits
Follows(i) == \A j \in i + 1 .. merged : AsMessage(lxmf[j]).id # AsMessage(lxmf[i]).id

LEMMA ShownIs ==
  StoreShowsInbox <=>
    /\ AllFit => \A i \in 1 .. merged :
                   Follows(i) => \/ AsMessage(lxmf[i]) \in ToSet(held)
                                 \/ AsMessage(lxmf[i]).id \in deleted
    /\ ~ AllFit => \A m \in ToSet(held) : m.id[1] # "lxmf"
  BY DEF StoreShowsInbox, AllFit, Follows

\* What is shown stays, or has been deleted, and no LXMF message is added.
LEMMA ShownStay ==
  ASSUME MessageTypes, StoreShowsInbox, merged' = merged,
         \A i \in 1 .. merged : lxmf'[i] = lxmf[i],
         deleted \subseteq deleted',
         \A m \in ToSet(held) : m \in ToSet(held') \/ m.id \in deleted',
         \A m \in ToSet(held') : m \in ToSet(held) \/ m.id[1] # "lxmf"
  PROVE  StoreShowsInbox'
<1>1. merged \in Nat
  BY DEF MessageTypes
<1>2. \A i \in 1 .. merged : \A j \in i + 1 .. merged : j \in 1 .. merged
  BY <1>1
<1>3. AllFit' <=> AllFit
  BY DEF AllFit
<1>4. ASSUME NEW i \in 1 .. merged PROVE Follows(i)' => Follows(i)
  <2>1. ASSUME NEW j \in 1 .. merged PROVE AsMessage(lxmf'[j]) = AsMessage(lxmf[j])
    OBVIOUS
  <2>2. QED
    BY <2>1, <1>2 DEF Follows, AsMessage
<1>5. ASSUME AllFit, NEW i \in 1 .. merged, Follows(i)'
      PROVE  AsMessage(lxmf'[i]) \in ToSet(held') \/ AsMessage(lxmf'[i]).id \in deleted'
  <2>1. AsMessage(lxmf[i]) \in ToSet(held) \/ AsMessage(lxmf[i]).id \in deleted
    BY <1>4, <1>5, ShownIs
  <2>2. QED
    BY <2>1
<1>6. ASSUME ~ AllFit, NEW m \in ToSet(held') PROVE m.id[1] # "lxmf"
  BY <1>6, ShownIs
<1>7. /\ AllFit' => \A i \in 1 .. merged' :
                      Follows(i)' => \/ AsMessage(lxmf'[i]) \in ToSet(held')
                                     \/ AsMessage(lxmf'[i]).id \in deleted'
      /\ ~ AllFit' => \A m \in ToSet(held') : m.id[1] # "lxmf"
  BY <1>3, <1>5, <1>6
<1>8. QED
  BY <1>7 DEF StoreShowsInbox, AllFit, Follows, AsMessage

LEMMA ShownAfterMerge == ASSUME MessageInv, MergeMessages PROVE StoreShowsInbox'
<1> DEFINE s == InboxMessages
           new == Assigned(s)
<1>1. /\ held' = MergedMessages /\ lxmf' = lxmf /\ merged' = Len(lxmf)
  BY DEF MergeMessages, StoreBecomes
<1>2. MessageTypes /\ InboxRight
  BY DEF MessageInv
<1>3. DOMAIN lxmf = 1 .. Len(lxmf) /\ Len(lxmf) \in Nat
  BY <1>2 DEF MessageTypes
<1>4. /\ s \in Seq(Message) /\ DOMAIN s = DOMAIN lxmf
      /\ \A i \in DOMAIN lxmf : s[i] = AsMessage(lxmf[i])
      /\ \A i \in DOMAIN lxmf : Alike(s, i) = Arrived(AsMessage(lxmf[i]).id)
  BY <1>2, InboxMessagesAre
<1>5. MergedMessages = IF live /\ \A i \in DOMAIN lxmf : lxmf[i].fits
                       THEN new ELSE MockMessages
  BY DEF MergedMessages, Fetched, InboxMessages
<1> HIDE DEF s
<1>6. /\ \A i \in DOMAIN s : LastAt(s, i) => \E k \in DOMAIN new : new[k] = s[i]
  BY <1>4, AssignedIs
<1> HIDE DEF new
<1>7. ASSUME \A i \in 1 .. Len(lxmf) : lxmf[i].fits, NEW i \in 1 .. Len(lxmf),
             \A j \in i + 1 .. Len(lxmf) : AsMessage(lxmf[j]).id # AsMessage(lxmf[i]).id
      PROVE  AsMessage(lxmf[i]) \in ToSet(held')
  <2>1. live
    <3>1. lxmf # << >>
      BY <1>3
    <3>2. QED
      BY <3>1, <1>2 DEF InboxRight
  <2>2. LastAt(s, i)
    <3> SUFFICES ASSUME NEW j \in Alike(s, i) PROVE j <= i
      BY DEF LastAt
    <3>1. j \in 1 .. Len(lxmf) /\ AsMessage(lxmf[j]).id = AsMessage(lxmf[i]).id
      BY <1>3, <1>4 DEF Arrived
    <3>2. j \notin i + 1 .. Len(lxmf)
      BY <3>1, <1>7
    <3>3. QED
      BY <3>1, <3>2, <1>3
  <2>3. PICK k \in DOMAIN new : new[k] = s[i]
    BY <2>2, <1>3, <1>4, <1>6
  <2>4. held' = new /\ new[k] = AsMessage(lxmf[i])
    BY <2>1, <2>3, <1>1, <1>3, <1>4, <1>5, <1>7
  <2>5. QED
    BY <2>4 DEF ToSet
<1>8. ASSUME ~ \A i \in 1 .. Len(lxmf) : lxmf[i].fits, NEW m \in ToSet(held')
      PROVE  m.id[1] # "lxmf"
  <2>1. held' = MockMessages
    BY <1>1, <1>3, <1>5, <1>8
  <2>2. m = MockMessages[1]
    BY <2>1, ExampleIs DEF ToSet
  <2>3. QED
    BY <2>2, ExampleIs DEF MockId
<1>9. QED
  BY <1>1, <1>7, <1>8 DEF StoreShowsInbox, AsMessage

LEMMA ShownStep ==
  MessageInv /\ StoreShowsInbox /\ [MessagesNext]_messageVars => StoreShowsInbox'
<1> SUFFICES ASSUME MessageInv, StoreShowsInbox, [MessagesNext]_messageVars
             PROVE  StoreShowsInbox'
  OBVIOUS
<1>1. MessageTypes
  BY DEF MessageInv
<1>2. held \in Seq(Message) /\ lxmf \in Seq(Lxmf) /\ merged \in 0 .. Len(lxmf) /\ made \in Nat
  BY <1>1, MessagesAssumption DEF MessageTypes
<1>3. CASE ReceiveLxmf
  <2>1. PICK x : lxmf' = Append(lxmf, x)
    BY <1>3 DEF ReceiveLxmf
  <2>2. \A i \in 1 .. merged : lxmf'[i] = lxmf[i]
    BY <2>1, <1>2
  <2>3. UNCHANGED <<held, merged, deleted>>
    BY <1>3 DEF ReceiveLxmf
  <2>4. QED
    BY <2>2, <2>3, <1>1, ShownStay
<1>4. CASE CreateMessage
  <2>1. PICK m : held' = Append(held, m) /\ m.id[1] # "lxmf"
    BY <1>4 DEF CreateMessage, AddMessage, StoreBecomes, Posted
  <2>2. \A n \in ToSet(held) : n \in ToSet(held')
    BY <2>1, <1>2 DEF ToSet
  <2>2a. \A n \in ToSet(held') : n \in ToSet(held) \/ n = m
    BY <2>1, <1>2 DEF ToSet
  <2>3. UNCHANGED <<lxmf, merged, deleted>>
    BY <1>4 DEF CreateMessage
  <2>4. QED
    BY <2>1, <2>2, <2>2a, <2>3, <1>1, ShownStay
<1>5. CASE DeleteMessage
  <2>1. PICK id \in IdsOf(held) : RemoveMessage(id) /\ deleted' = deleted \cup {id}
                                  /\ UNCHANGED <<live, lxmf, made, merged>>
    BY <1>5 DEF DeleteMessage
  <2> DEFINE kept == { i \in DOMAIN held : held[i].id # id }
             new == Part(held, kept)
             n == Cardinality(kept)
  <2>2. held' = new
    BY <2>1 DEF RemoveMessage, StoreBecomes
  <2>3. kept \in SUBSET DOMAIN held /\ \A i \in DOMAIN held : held[i].id # id => i \in kept
    OBVIOUS
  <2> HIDE DEF kept
  <2>4. /\ new \in Seq(Message) /\ Len(new) = n /\ n \in Nat
        /\ Place(kept) \in [ 1 .. n -> kept ]
        /\ \A k \in 1 .. n : new[k] = held[Place(kept)[k]]
        /\ \A i \in kept : \E k \in 1 .. n : Place(kept)[k] = i
    BY <2>3, <1>2, PartIs
  <2> HIDE DEF new, n
  <2>5. ASSUME NEW m \in ToSet(held) PROVE m \in ToSet(held') \/ m.id \in deleted'
    <3>1. PICK i \in DOMAIN held : m = held[i]
      BY DEF ToSet
    <3>2. CASE m.id = id
      BY <3>2, <2>1
    <3>3. CASE m.id # id
      <4>1. PICK k \in 1 .. n : Place(kept)[k] = i
        BY <3>1, <3>3, <2>3, <2>4
      <4>2. k \in DOMAIN new /\ new[k] = m
        BY <4>1, <3>1, <2>4
      <4>3. QED
        BY <4>2, <2>2 DEF ToSet
    <3>4. QED
      BY <3>2, <3>3
  <2>6. ASSUME NEW m \in ToSet(held') PROVE m \in ToSet(held)
    <3>1. PICK k \in 1 .. n : m = new[k]
      BY <2>2, <2>4 DEF ToSet
    <3>2. QED
      BY <3>1, <2>3, <2>4 DEF ToSet
  <2>7. QED
    BY <2>1, <2>5, <2>6, <1>1, ShownStay
<1>6. CASE MergeMessages
  BY <1>6, ShownAfterMerge
<1>7. CASE FirstPage \/ NextPage \/ UNCHANGED messageVars
  <2>1. UNCHANGED <<lxmf, held, merged, deleted>>
    BY <1>7 DEF FirstPage, NextPage, messageVars, storeVars
  <2>2. QED
    BY <2>1, <1>1, ShownStay
<1>8. QED
  BY <1>3, <1>4, <1>5, <1>6, <1>7 DEF MessagesNext

\* If all messages of the inbox fit, the store shows the last one of each id that
\* a merge has taken, unless it has been deleted since; if one does not fit, the
\* store shows none of them (LiveDataSource.get_messages, merge_from_source), for
\* any number of messages.
THEOREM InboxShown == MessagesSpec => []StoreShowsInbox
<1>1. MessagesInit => StoreShowsInbox
  <2> SUFFICES ASSUME MessagesInit PROVE StoreShowsInbox
    OBVIOUS
  <2>1. 1 .. merged = {}
    BY DEF MessagesInit
  <2>2. QED
    BY <2>1 DEF StoreShowsInbox
<1>2. QED
  BY <1>1, MessageStart, MessageStep, ShownStep, PTL DEF MessagesSpec
=============================================================================
