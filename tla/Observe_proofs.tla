---------------------------- MODULE Observe_proofs ----------------------------
(***************************************************************************)
(* Theorems about Observe, for any number of environments, services,       *)
(* clients, revisions and rows, and any division of traffic.               *)
(***************************************************************************)
EXTENDS Observe, FiniteSetTheorems, WellFoundedInduction, TLAPS

(***************************************************************************)
(* Numbers and sums.  The induction theorems of the library take an        *)
(* operator as a parameter; induction over an interval is done here on the *)
(* set of the numbers a fact has been shown for.                           *)
(***************************************************************************)
\* A set of numbers up to n has a least element: of the sets of those that are
\* less than a given one, a smallest is empty.
LEMMA MinExists ==
    ASSUME NEW n \in Nat, NEW S \in SUBSET (0 .. n), S # {}
    PROVE  Min(S) \in S /\ \A y \in S : Min(S) <= y
<1> DEFINE Below(x) == {y \in S : y < x}
           T == {Below(x) : x \in S}
<1>1. IsFiniteSet(S) /\ S \subseteq Nat
  <2>1. IsFiniteSet(0 .. n)
    BY 0 \in Int, n \in Int, FS_Interval
  <2>2. IsFiniteSet(S)
    BY <2>1, FS_Subset
  <2>3. QED
    BY <2>2
<1>2. IsWellFoundedOn(StrictSubsetOrdering(S), FiniteSubsetsOf(S))
  BY FS_StrictSubsetOrderingWellFounded
<1>3. FiniteSubsetsOf(S) = SUBSET S
  BY <1>1, FS_FiniteSubsetsOfFinite
<1>4. T \subseteq SUBSET S /\ T # {}
  OBVIOUS
<1>5. PICK U \in T : \A V \in T : ~ (<<V, U>> \in StrictSubsetOrdering(S))
  <2> HIDE DEF T
  <2> QED BY <1>2, <1>3, <1>4, WFMin
<1>6. PICK x \in S : U = Below(x)
  BY <1>5
<1>7. ASSUME NEW y \in S, y < x
      PROVE  FALSE
  <2>1. Below(y) \in T
    BY <1>7
  <2>2. y \in Below(x) /\ y \notin Below(y)
    BY <1>1, <1>7
  <2>3. Below(y) \subseteq Below(x) /\ Below(y) # Below(x)
    <3>1. \A z \in S : z < y => z < x
      BY <1>1, <1>7
    <3> QED BY <2>2, <3>1
  <2>4. <<Below(y), Below(x)>> \in StrictSubsetOrdering(S)
    BY <2>3 DEF StrictSubsetOrdering
  <2> HIDE DEF T, Below
  <2> QED BY <1>5, <1>6, <2>1, <2>4
<1>8. \A y \in S : x <= y
  BY <1>1, <1>7
<1> QED BY <1>8 DEF Min

\* Complete induction is not needed: a set that holds 0 and with a number the
\* next one holds all up to n.
LEMMA Upward ==
    ASSUME NEW n \in Nat, NEW S, 0 \in S,
           \A i \in 0 .. n : i \in S /\ i + 1 <= n => i + 1 \in S
    PROVE  \A i \in 0 .. n : i \in S
<1> DEFINE T == (0 .. n) \ S
<1> SUFFICES ASSUME T # {} PROVE FALSE
  OBVIOUS
<1>1. Min(T) \in T /\ \A y \in T : Min(T) <= y
  BY MinExists
<1> DEFINE m == Min(T)
<1>2. m \in 0 .. n /\ m \notin S /\ m # 0
  BY <1>1
<1> HIDE DEF m
<1>3. m - 1 \in 0 .. n /\ m - 1 \notin T
  BY <1>1, <1>2 DEF m
<1> QED BY <1>2, <1>3

\* What the recursive function of Total is: the sums of the first shares.
IsSum(sum, share) ==
    /\ sum = [i \in 0 .. Len(share) |-> sum[i]]
    /\ sum[0] = 0
    /\ \A i \in 0 .. Len(share) : i # 0 => sum[i] = sum[i - 1] + share[i]

LEMMA NextSum ==
    ASSUME NEW share \in Seq(Nat), NEW sum, IsSum(sum, share),
           NEW i \in 0 .. Len(share), i + 1 <= Len(share)
    PROVE  sum[i + 1] = sum[i] + share[i + 1]
<1>1. i + 1 \in 0 .. Len(share) /\ i + 1 # 0 /\ (i + 1) - 1 = i
  OBVIOUS
<1>2. sum[i + 1] = sum[(i + 1) - 1] + share[i + 1]
  BY <1>1 DEF IsSum
<1> QED BY <1>1, <1>2

LEMMA TotalSums ==
    ASSUME NEW share \in Seq(Nat)
    PROVE  \E sum : IsSum(sum, share) /\ Total(share) = sum[Len(share)]
<1> DEFINE n == Len(share)
           Def(sum, m) == sum = [i \in 0 .. m |-> IF i = 0 THEN 0 ELSE sum[i - 1] + share[i]]
           S == {m \in 0 .. n : \E sum : Def(sum, m)}
<1>1. n \in Nat
  OBVIOUS
<1>2. 0 \in S
  <2>1. 0 .. 0 = {0}
    OBVIOUS
  <2>2. Def([i \in 0 .. 0 |-> 0], 0)
    BY <2>1
  <2>3. \E sum : Def(sum, 0)
    <3> HIDE DEF Def
    <3> QED BY <2>2
  <2> HIDE DEF Def
  <2> QED BY <1>1, <2>3
<1>3. ASSUME NEW m \in 0 .. n, m \in S, m + 1 <= n
      PROVE  m + 1 \in S
  <2>1. PICK sum : Def(sum, m)
    BY <1>3
  <2> DEFINE next == [i \in 0 .. (m + 1) |->
                        IF i = m + 1 THEN sum[m] + share[m + 1] ELSE sum[i]]
  <2>2. \A i \in 0 .. m : sum[i] = IF i = 0 THEN 0 ELSE sum[i - 1] + share[i]
    BY <2>1
  <2>3. \A i \in 0 .. (m + 1) :
          next[i] = IF i = 0 THEN 0 ELSE next[i - 1] + share[i]
    <3> SUFFICES ASSUME NEW i \in 0 .. (m + 1)
                 PROVE  next[i] = IF i = 0 THEN 0 ELSE next[i - 1] + share[i]
      OBVIOUS
    <3>1. CASE i = m + 1
      BY <1>1, <1>3, <3>1
    <3>2. CASE i \in 0 .. m
      BY <1>1, <1>3, <2>2, <3>2
    <3> QED BY <1>1, <1>3, <3>1, <3>2
  <2>4. Def(next, m + 1)
    <3>1. next = [i \in 0 .. (m + 1) |-> next[i]]
      OBVIOUS
    <3> HIDE DEF next
    <3> QED BY <2>3, <3>1
  <2>5. \E g : Def(g, m + 1)
    <3> HIDE DEF Def, next
    <3> QED BY <2>4
  <2> HIDE DEF Def
  <2> QED BY <1>1, <1>3, <2>5
<1>4. n \in S
  <2> HIDE DEF S, n
  <2>1. \A m \in 0 .. n : m \in S
    BY <1>1, <1>2, <1>3, Upward
  <2> QED BY <1>1, <2>1
<1>5. \E f : Def(f, n)
  <2> HIDE DEF Def
  <2> QED BY <1>4
<1> DEFINE sum == CHOOSE g : Def(g, n)
<1>6. Def(sum, n)
  <2> HIDE DEF Def
  <2> QED BY <1>5
<1>7. Total(share) = sum[n]
  BY DEF Total
<1> HIDE DEF sum
<1>8. IsSum(sum, share)
  BY <1>1, <1>6 DEF IsSum
<1> QED BY <1>7, <1>8

LEMMA TotalBounds ==
    ASSUME NEW share \in Seq(Nat)
    PROVE  /\ Total(share) \in Nat
           /\ \A i \in 1 .. Len(share) : share[i] <= Total(share)
<1> DEFINE n == Len(share)
<1>1. n \in Nat /\ \A i \in 1 .. n : share[i] \in Nat
  OBVIOUS
<1>2. PICK sum : IsSum(sum, share) /\ Total(share) = sum[n]
  BY TotalSums
<1> DEFINE S == {i \in 0 .. n : sum[i] \in Nat /\ \A j \in 1 .. i : share[j] <= sum[i]}
<1>3. 0 \in S
  BY <1>1, <1>2 DEF IsSum
<1>4. ASSUME NEW i \in 0 .. n, i \in S, i + 1 <= n
      PROVE  i + 1 \in S
  <2>1. i + 1 \in 1 .. n /\ share[i + 1] \in Nat /\ sum[i] \in Nat
    BY <1>1, <1>4
  <2>2. sum[i + 1] = sum[i] + share[i + 1]
    BY <1>2, <1>4, NextSum
  <2>3. \A j \in 1 .. (i + 1) : share[j] <= sum[i + 1]
    <3> SUFFICES ASSUME NEW j \in 1 .. (i + 1) PROVE share[j] <= sum[i + 1]
      OBVIOUS
    <3>1. CASE j = i + 1
      BY <2>1, <2>2, <3>1
    <3>2. CASE j \in 1 .. i
      <4>1. share[j] <= sum[i] /\ share[j] \in Nat
        BY <1>1, <1>4, <3>2
      <4> QED BY <2>1, <2>2, <4>1
    <3> QED BY <1>1, <3>1, <3>2
  <2> QED BY <1>1, <2>1, <2>2, <2>3
<1>5. n \in S
  <2> HIDE DEF S, n
  <2>1. \A i \in 0 .. n : i \in S
    BY <1>1, <1>3, <1>4, Upward
  <2> QED BY <1>1, <2>1
<1> QED BY <1>2, <1>5

LEMMA TotalMonotone ==
    ASSUME NEW share \in Seq(Nat), NEW other \in Seq(Nat), Len(share) = Len(other),
           \A i \in 1 .. Len(share) : share[i] <= other[i]
    PROVE  Total(share) <= Total(other)
<1> DEFINE n == Len(share)
<1>1. n \in Nat /\ \A i \in 1 .. n : share[i] \in Nat /\ other[i] \in Nat /\ share[i] <= other[i]
  OBVIOUS
<1>2. PICK sum : IsSum(sum, share) /\ Total(share) = sum[n]
  BY TotalSums
<1>3. PICK more : IsSum(more, other) /\ Total(other) = more[n]
  BY TotalSums
<1> DEFINE S == {i \in 0 .. n : sum[i] \in Nat /\ more[i] \in Nat /\ sum[i] <= more[i]}
<1>4. 0 \in S
  BY <1>1, <1>2, <1>3 DEF IsSum
<1>5. ASSUME NEW i \in 0 .. n, i \in S, i + 1 <= n
      PROVE  i + 1 \in S
  <2>1. i + 1 \in 1 .. n /\ i + 1 \in 0 .. n
    BY <1>1, <1>5
  <2>2. /\ share[i + 1] \in Nat /\ other[i + 1] \in Nat /\ share[i + 1] <= other[i + 1]
        /\ sum[i] \in Nat /\ more[i] \in Nat /\ sum[i] <= more[i]
    BY <1>1, <1>5, <2>1
  <2>3. /\ sum[i + 1] = sum[i] + share[i + 1]
        /\ more[i + 1] = more[i] + other[i + 1]
    BY <1>2, <1>3, <1>5, NextSum
  <2>4. /\ sum[i + 1] \in Nat /\ more[i + 1] \in Nat
        /\ sum[i + 1] <= more[i + 1]
    <3>1. \A a, b, c, d \in Nat :
            a <= b /\ c <= d => a + c \in Nat /\ b + d \in Nat /\ a + c <= b + d
      OBVIOUS
    <3>2. /\ sum[i] + share[i + 1] \in Nat /\ more[i] + other[i + 1] \in Nat
          /\ sum[i] + share[i + 1] <= more[i] + other[i + 1]
      BY <2>2, <3>1
    <3> QED BY <2>3, <3>2
  <2> QED BY <2>1, <2>4
<1>6. n \in S
  <2> HIDE DEF S, n
  <2>1. \A i \in 0 .. n : i \in S
    BY <1>1, <1>4, <1>5, Upward
  <2> QED BY <1>1, <2>1
<1> QED BY <1>2, <1>3, <1>6

\* Where at most the share of i is not zero, it is the total.
LEMMA TotalOfOne ==
    ASSUME NEW share \in Seq(Nat), NEW i \in 1 .. Len(share),
           \A j \in 1 .. Len(share) : j # i => share[j] = 0
    PROVE  Total(share) = share[i]
<1> DEFINE n == Len(share)
<1>1. n \in Nat /\ i \in 1 .. n /\ share[i] \in Nat
  OBVIOUS
<1>2. PICK sum : IsSum(sum, share) /\ Total(share) = sum[n]
  BY TotalSums
<1> DEFINE S == {k \in 0 .. n : sum[k] = IF k < i THEN 0 ELSE share[i]}
<1>3. 0 \in S
  BY <1>1, <1>2 DEF IsSum
<1>4. ASSUME NEW k \in 0 .. n, k \in S, k + 1 <= n
      PROVE  k + 1 \in S
  <2>1. k + 1 \in 1 .. n /\ k + 1 \in 0 .. n
    BY <1>1, <1>4
  <2>2. sum[k + 1] = sum[k] + share[k + 1]
    BY <1>2, <1>4, NextSum
  <2>3. share[k + 1] = IF k + 1 = i THEN share[i] ELSE 0
    BY <2>1
  <2>4. sum[k] = IF k < i THEN 0 ELSE share[i]
    BY <1>4
  <2>5. sum[k + 1] = IF k + 1 < i THEN 0 ELSE share[i]
    BY <1>1, <2>1, <2>2, <2>3, <2>4
  <2> QED BY <2>1, <2>5
<1>5. n \in S
  <2> HIDE DEF S, n
  <2>1. \A k \in 0 .. n : k \in S
    BY <1>1, <1>3, <1>4, Upward
  <2> QED BY <1>1, <2>1
<1> QED BY <1>1, <1>2, <1>5

LEMMA TotalOfNone ==
    ASSUME NEW share \in Seq(Nat), \A j \in 1 .. Len(share) : share[j] = 0
    PROVE  Total(share) = 0
<1>1. CASE Len(share) = 0
  <2>1. PICK sum : IsSum(sum, share) /\ Total(share) = sum[Len(share)]
    BY TotalSums
  <2> QED BY <1>1, <2>1 DEF IsSum
<1>2. CASE Len(share) # 0
  <2>1. 1 \in 1 .. Len(share)
    BY <1>2
  <2> QED BY <2>1, TotalOfOne
<1> QED BY <1>1, <1>2

(***************************************************************************)
(* The rows of an environment.                                             *)
(***************************************************************************)
IsListing(listed, rows, e) ==
    /\ listed = [n \in 0 .. Len(rows) |-> listed[n]]
    /\ listed[0] = <<>>
    /\ \A n \in 0 .. Len(rows) : n # 0 =>
         listed[n] = IF rows[n].env = e THEN <<rows[n]>> \o listed[n - 1] ELSE listed[n - 1]

LEMMA NextListing ==
    ASSUME NEW rows \in Seq(Row), NEW e, NEW listed, IsListing(listed, rows, e),
           NEW i \in 0 .. Len(rows), i + 1 <= Len(rows)
    PROVE  listed[i + 1] = IF rows[i + 1].env = e THEN <<rows[i + 1]>> \o listed[i] ELSE listed[i]
<1>1. i + 1 \in 0 .. Len(rows) /\ i + 1 # 0 /\ (i + 1) - 1 = i
  OBVIOUS
<1>2. listed[i + 1] = IF rows[i + 1].env = e THEN <<rows[i + 1]>> \o listed[(i + 1) - 1]
                                             ELSE listed[(i + 1) - 1]
  BY <1>1 DEF IsListing
<1> QED BY <1>1, <1>2

LEMMA ListingExists ==
    ASSUME NEW rows \in Seq(Row), NEW e
    PROVE  \E listed : IsListing(listed, rows, e) /\ NewestFirst(rows, e) = listed[Len(rows)]
<1> DEFINE n == Len(rows)
           Def(listed, m) ==
             listed = [i \in 0 .. m |->
               IF i = 0 THEN <<>>
               ELSE IF rows[i].env = e THEN <<rows[i]>> \o listed[i - 1] ELSE listed[i - 1]]
           S == {m \in 0 .. n : \E listed : Def(listed, m)}
<1>1. n \in Nat
  OBVIOUS
<1>2. 0 \in S
  <2>1. 0 .. 0 = {0}
    OBVIOUS
  <2>2. Def([i \in 0 .. 0 |-> <<>>], 0)
    BY <2>1
  <2>3. \E listed : Def(listed, 0)
    <3> HIDE DEF Def
    <3> QED BY <2>2
  <2> HIDE DEF Def
  <2> QED BY <1>1, <2>3
<1>3. ASSUME NEW m \in 0 .. n, m \in S, m + 1 <= n
      PROVE  m + 1 \in S
  <2>1. PICK listed : Def(listed, m)
    BY <1>3
  <2> DEFINE row == rows[m + 1]
             next == [i \in 0 .. (m + 1) |->
               IF i = m + 1 THEN IF row.env = e THEN <<row>> \o listed[m] ELSE listed[m]
                            ELSE listed[i]]
  <2>2. \A i \in 0 .. m :
          listed[i] = IF i = 0 THEN <<>>
                      ELSE IF rows[i].env = e THEN <<rows[i]>> \o listed[i - 1] ELSE listed[i - 1]
    BY <2>1
  <2>3. \A i \in 0 .. (m + 1) :
          next[i] = IF i = 0 THEN <<>>
                    ELSE IF rows[i].env = e THEN <<rows[i]>> \o next[i - 1] ELSE next[i - 1]
    <3> SUFFICES ASSUME NEW i \in 0 .. (m + 1)
                 PROVE  next[i] = IF i = 0 THEN <<>>
                          ELSE IF rows[i].env = e THEN <<rows[i]>> \o next[i - 1] ELSE next[i - 1]
      OBVIOUS
    <3>1. CASE i = m + 1
      BY <1>1, <1>3, <3>1
    <3>2. CASE i \in 0 .. m
      BY <1>1, <1>3, <2>2, <3>2
    <3> QED BY <1>1, <1>3, <3>1, <3>2
  <2>4. Def(next, m + 1)
    <3>1. next = [i \in 0 .. (m + 1) |-> next[i]]
      OBVIOUS
    <3> HIDE DEF next
    <3> QED BY <2>3, <3>1
  <2>5. \E g : Def(g, m + 1)
    <3> HIDE DEF Def, next
    <3> QED BY <2>4
  <2> HIDE DEF Def
  <2> QED BY <1>1, <1>3, <2>5
<1>4. n \in S
  <2> HIDE DEF S, n
  <2>1. \A m \in 0 .. n : m \in S
    BY <1>1, <1>2, <1>3, Upward
  <2> QED BY <1>1, <2>1
<1>5. \E f : Def(f, n)
  <2> HIDE DEF Def
  <2> QED BY <1>4
<1> DEFINE listed == CHOOSE g : Def(g, n)
<1>6. Def(listed, n)
  <2> HIDE DEF Def
  <2> QED BY <1>5
<1>7. NewestFirst(rows, e) = listed[n]
  BY DEF NewestFirst
<1> HIDE DEF listed
<1>8. IsListing(listed, rows, e)
  <2>1. \A i \in 0 .. n :
          listed[i] = IF i = 0 THEN <<>>
                      ELSE IF rows[i].env = e THEN <<rows[i]>> \o listed[i - 1] ELSE listed[i - 1]
    BY <1>6, Zenon
  <2>2. listed = [i \in 0 .. n |-> listed[i]]
    BY <1>6
  <2>3. listed[0] = <<>>
    <3>1. 0 \in 0 .. n
      BY <1>1
    <3>2. listed[0] = IF 0 = 0 THEN <<>>
                      ELSE IF rows[0].env = e THEN <<rows[0]>> \o listed[0 - 1] ELSE listed[0 - 1]
      BY <2>1, <3>1, Zenon
    <3> QED BY <3>2
  <2> QED BY <2>1, <2>2, <2>3 DEF IsListing
<1> QED BY <1>7, <1>8

\* One row in front of the others.
LEMMA InFront ==
    ASSUME NEW s \in Seq(Row), NEW row \in Row
    PROVE  /\ <<row>> \o s \in Seq(Row)
           /\ Len(<<row>> \o s) = Len(s) + 1
           /\ (<<row>> \o s)[1] = row
           /\ \A k \in 1 .. Len(s) : (<<row>> \o s)[k + 1] = s[k]
OBVIOUS

LEMMA ListedRows ==
    ASSUME NEW rows \in Seq(Row), NEW e
    PROVE  NewestFirst(rows, e) \in Seq(Row) /\ Len(NewestFirst(rows, e)) <= Len(rows)
<1> DEFINE n == Len(rows)
<1>1. n \in Nat /\ \A i \in 1 .. n : rows[i] \in Row
  OBVIOUS
<1>2. PICK listed : IsListing(listed, rows, e) /\ NewestFirst(rows, e) = listed[n]
  BY ListingExists
<1> DEFINE S == {i \in 0 .. n : listed[i] \in Seq(Row) /\ Len(listed[i]) <= i}
<1>3. 0 \in S
  <2>1. listed[0] = <<>>
    BY <1>2 DEF IsListing
  <2>2. listed[0] \in Seq(Row) /\ Len(listed[0]) = 0
    BY <2>1
  <2> QED BY <1>1, <2>2
<1>4. ASSUME NEW i \in 0 .. n, i \in S, i + 1 <= n
      PROVE  i + 1 \in S
  <2>1. i + 1 \in 0 .. n /\ rows[i + 1] \in Row
    BY <1>1, <1>4
  <2>2. listed[i + 1] = IF rows[i + 1].env = e THEN <<rows[i + 1]>> \o listed[i] ELSE listed[i]
    BY <1>2, <1>4, NextListing
  <2>3. listed[i] \in Seq(Row) /\ Len(listed[i]) <= i
    BY <1>4
  <2>4. /\ <<rows[i + 1]>> \o listed[i] \in Seq(Row)
        /\ Len(<<rows[i + 1]>> \o listed[i]) = Len(listed[i]) + 1
    BY <2>1, <2>3, InFront
  <2>5. listed[i + 1] \in Seq(Row) /\ Len(listed[i + 1]) <= i + 1
    <3>1. CASE rows[i + 1].env = e
      <4>1. listed[i + 1] = <<rows[i + 1]>> \o listed[i]
        BY <2>2, <3>1
      <4>2. Len(listed[i]) \in Nat
        BY <2>3
      <4> QED BY <2>3, <2>4, <4>1, <4>2
    <3>2. CASE rows[i + 1].env # e
      <4>1. listed[i + 1] = listed[i]
        BY <2>2, <3>2
      <4>2. Len(listed[i]) \in Nat
        BY <2>3
      <4> QED BY <2>3, <4>1, <4>2
    <3> QED BY <3>1, <3>2
  <2> QED BY <2>1, <2>5
<1>5. n \in S
  <2> HIDE DEF S, n
  <2>1. \A i \in 0 .. n : i \in S
    BY <1>1, <1>3, <1>4, Upward
  <2> QED BY <1>1, <2>1
<1> QED BY <1>2, <1>5

(***************************************************************************)
(* The invariant: what Cloud Run holds is bounded, its targets refer to    *)
(* revisions that are ready, and its shares add up to no more than all of  *)
(* it; a call refers to a revision that exists and, for a rollback, is     *)
(* ready; and what a preview has shown is still what would be planned, as  *)
(* long as the service has not changed.                                    *)
(***************************************************************************)
Percents(p) == [i \in DOMAIN traffic[p] |-> traffic[p][i].percent]

StateOK ==
    /\ desired \in [Envs -> [Services -> Pinned]]
    /\ revisions \in [Places -> Seq(Revision)]
    /\ traffic \in [Places -> Seq(Target)]
    /\ history \in Seq(Row) /\ Len(history) <= MaxRows
    /\ call \in [Calls -> Call \cup {None}]

PlaceOK(p) ==
    /\ Len(revisions[p]) <= MaxRevisions
    /\ traffic[p] = <<>> <=> revisions[p] = <<>>
    /\ \A i \in DOMAIN traffic[p] : traffic[p][i].revision \in {0} \cup Ready(p)
    /\ Total(Percents(p)) <= 100

Concerns(c, p) == call[c] # None /\ Place(call[c].env, call[c].service) = p

CallOK(c, p) ==
    Concerns(c, p) =>
      /\ call[c].to \in DOMAIN revisions[p]
      /\ call[c].kind # "apply" => call[c].to \in Ready(p)
      /\ call[c].kind \in {"preview", "route"} /\ call[c].fresh =>
           RollbackTarget(p) # None /\ call[c].shown = RollbackTarget(p).to
      /\ call[c].kind = "route" /\ call[c].fresh => call[c].to = call[c].shown

IInv ==
    /\ StateOK
    /\ \A p \in Places : PlaceOK(p)
    /\ \A c \in Calls, p \in Places : CallOK(c, p)

USE NamesAssumption, ImageAssumption, NoneAssumption, BoundAssumption

LEMMA PlaceType ==
    ASSUME NEW e \in Envs, NEW s \in Services
    PROVE  Place(e, s) \in Places
BY DEF Place, Places, Names

\* What Cloud Run and the views say of a place depends on its revisions and
\* its traffic only.
LEMMA PlaceStays ==
    ASSUME NEW p, revisions'[p] = revisions[p], traffic'[p] = traffic[p]
    PROVE  /\ Ready(p)' = Ready(p)
           /\ RollbackTarget(p)' = RollbackTarget(p)
           /\ PlaceOK(p) => PlaceOK(p)'
<1>1. Ready(p)' = Ready(p)
  BY DEF Ready
<1>2. LatestReady(p)' = LatestReady(p)
  BY <1>1 DEF LatestReady
<1>3. \A r : Resolve(p, r)' = Resolve(p, r)
  BY <1>2 DEF Resolve
<1>4. \A r : TrafficByRevision(p, r)' = TrafficByRevision(p, r)
  BY <1>3 DEF TrafficByRevision
<1>5. Listed(p)' = Listed(p)
  BY <1>4 DEF Listed
<1>6. RollbackTarget(p)' = RollbackTarget(p)
  BY <1>5 DEF RollbackTarget
<1>7. PlaceOK(p) => PlaceOK(p)'
  <2>1. Percents(p)' = Percents(p)
    BY DEF Percents
  <2> QED BY <1>1, <2>1 DEF PlaceOK
<1> QED BY <1>1, <1>6, <1>7

\* The revisions there were are still there, and what was ready is ready.
Grown(p) ==
    \A r \in DOMAIN revisions[p] :
        /\ r \in DOMAIN revisions'[p] /\ revisions'[p][r].image = revisions[p][r].image
        /\ r \in Ready(p) => r \in Ready(p)'

\* A change of the service at p, made by a call or by others, after which the
\* calls are stale ones.
LEMMA CloudStep ==
    ASSUME IInv, NEW p \in Places, NEW stale, Touch(p, stale),
           stale \in [Calls -> Call \cup {None}],
           UNCHANGED <<desired, history>>,
           revisions' \in [Places -> Seq(Revision)], traffic' \in [Places -> Seq(Target)],
           \A q \in Places : q # p => revisions'[q] = revisions[q] /\ traffic'[q] = traffic[q],
           Grown(p), PlaceOK(p)',
           \A c \in Calls : stale[c] # None /\ Place(stale[c].env, stale[c].service) = p =>
             /\ stale[c].to \in DOMAIN revisions'[p]
             /\ stale[c].kind # "apply" => stale[c].to \in Ready(p)',
           \A c \in Calls : stale[c] # None /\ Place(stale[c].env, stale[c].service) # p =>
             stale[c] = call[c]
    PROVE  IInv'
<1>1. \A c \in Calls :
        call'[c] = IF stale[c] # None /\ Place(stale[c].env, stale[c].service) = p
                   THEN [stale[c] EXCEPT !.fresh = FALSE] ELSE stale[c]
  BY DEF Touch
<1>2. StateOK'
  <2>1. \A c \in Calls : call'[c] \in Call \cup {None}
    <3> SUFFICES ASSUME NEW c \in Calls PROVE call'[c] \in Call \cup {None}
      OBVIOUS
    <3>1. stale[c] \in Call \cup {None}
      OBVIOUS
    <3>2. CASE stale[c] # None /\ Place(stale[c].env, stale[c].service) = p
      <4>1. stale[c] \in Call /\ call'[c] = [stale[c] EXCEPT !.fresh = FALSE]
        BY <1>1, <3>1, <3>2
      <4> QED BY <4>1 DEF Call
    <3>3. CASE ~ (stale[c] # None /\ Place(stale[c].env, stale[c].service) = p)
      BY <1>1, <3>1, <3>3
    <3> QED BY <3>2, <3>3
  <2>2. call' \in [Calls -> Call \cup {None}]
    BY <2>1 DEF Touch
  <2> QED BY <2>2 DEF IInv, StateOK
<1>3. ASSUME NEW q \in Places PROVE PlaceOK(q)'
  <2>1. CASE q = p
    BY <2>1
  <2>2. CASE q # p
    BY <2>2, PlaceStays DEF IInv
  <2> QED BY <2>1, <2>2
<1>4. ASSUME NEW c \in Calls, NEW q \in Places PROVE CallOK(c, q)'
  <2> SUFFICES ASSUME call'[c] # None, Place(call'[c].env, call'[c].service) = q
               PROVE  /\ call'[c].to \in DOMAIN revisions'[q]
                      /\ call'[c].kind # "apply" => call'[c].to \in Ready(q)'
                      /\ call'[c].kind \in {"preview", "route"} /\ call'[c].fresh =>
                           /\ RollbackTarget(q)' # None
                           /\ call'[c].shown = RollbackTarget(q)'.to
                      /\ call'[c].kind = "route" /\ call'[c].fresh =>
                           call'[c].to = call'[c].shown
    BY DEF CallOK, Concerns, Place
  <2>1. stale[c] \in Call \cup {None} /\ stale[c] # None
    BY <1>1
  <2>2. CASE Place(stale[c].env, stale[c].service) = p
    <3>1. stale[c] \in Call /\ call'[c] = [stale[c] EXCEPT !.fresh = FALSE]
      BY <1>1, <2>1, <2>2
    <3>2. /\ call'[c].env = stale[c].env /\ call'[c].service = stale[c].service
          /\ call'[c].to = stale[c].to /\ call'[c].kind = stale[c].kind /\ ~ call'[c].fresh
      BY <3>1 DEF Call
    <3>3. q = p
      BY <2>2, <3>2 DEF Place
    <3> QED BY <2>1, <2>2, <3>2, <3>3
  <2>3. CASE Place(stale[c].env, stale[c].service) # p
    <3>1. call'[c] = call[c] /\ q # p
      BY <1>1, <2>1, <2>3 DEF Place
    <3>2. CallOK(c, q) /\ revisions'[q] = revisions[q] /\ traffic'[q] = traffic[q]
      BY <3>1 DEF IInv
    <3>3. Ready(q)' = Ready(q) /\ RollbackTarget(q)' = RollbackTarget(q)
      BY <3>2, PlaceStays
    <3> QED BY <3>1, <3>2, <3>3 DEF CallOK, Concerns
  <2> QED BY <2>2, <2>3
<1> QED BY <1>2, <1>3, <1>4 DEF IInv

LEMMA AllTo ==
    ASSUME NEW p, NEW r \in Nat, traffic'[p] = <<[revision |-> r, percent |-> 100]>>
    PROVE  /\ Total(Percents(p))' = 100
           /\ DOMAIN traffic'[p] = {1} /\ traffic'[p][1].revision = r /\ traffic'[p] # <<>>
<1>1. /\ DOMAIN traffic'[p] = {1} /\ traffic'[p][1] = [revision |-> r, percent |-> 100]
      /\ traffic'[p] # <<>>
  OBVIOUS
<1>2. Percents(p)' = [i \in 1 .. 1 |-> 100]
  BY <1>1 DEF Percents
<1> DEFINE all == [i \in 1 .. 1 |-> 100]
<1>3. all \in Seq(Nat) /\ Len(all) = 1 /\ all[1] = 100
  OBVIOUS
<1>4. Total(all) = 100
  <2> HIDE DEF all
  <2>1. 1 \in 1 .. Len(all) /\ \A j \in 1 .. Len(all) : j # 1 => all[j] = 0
    BY <1>3
  <2>2. Total(all) = all[1]
    BY <1>3, <2>1, TotalOfOne
  <2> QED BY <1>3, <2>2
<1>5. Total(Percents(p))' = 100
  BY <1>2, <1>4
<1> QED BY <1>1, <1>5

LEMMA Numbered ==
    ASSUME IInv, NEW p \in Places
    PROVE  /\ revisions[p] \in Seq(Revision) /\ traffic[p] \in Seq(Target)
           /\ Len(revisions[p]) \in Nat /\ Len(revisions[p]) <= MaxRevisions
           /\ DOMAIN revisions[p] = 1 .. Len(revisions[p])
           /\ Ready(p) \subseteq 1 .. Len(revisions[p])
<1>1. revisions[p] \in Seq(Revision) /\ traffic[p] \in Seq(Target) /\ PlaceOK(p)
  BY DEF IInv, StateOK
<1> QED BY <1>1 DEF PlaceOK, Ready

LEMMA RevisionAdded ==
    ASSUME IInv, NEW p \in Places, NEW i \in Images, NewRevision(p, i)
    PROVE  /\ revisions' \in [Places -> Seq(Revision)]
           /\ \A q \in Places : q # p => revisions'[q] = revisions[q]
           /\ Grown(p)
           /\ Len(revisions'[p]) = Len(revisions[p]) + 1
           /\ Len(revisions'[p]) <= MaxRevisions
           /\ DOMAIN revisions'[p] = 1 .. (Len(revisions[p]) + 1)
<1> DEFINE new == [image |-> i, state |-> "pending"]
           n == Len(revisions[p])
<1>1. revisions[p] \in Seq(Revision) /\ n \in Nat /\ n < MaxRevisions /\ new \in Revision
  BY Numbered DEF NewRevision, Revision
<1>2. revisions \in [Places -> Seq(Revision)]
  BY DEF IInv, StateOK
<1>3. revisions'[p] = Append(revisions[p], new)
  BY <1>2 DEF NewRevision
<1>4. /\ Append(revisions[p], new) \in Seq(Revision)
      /\ Len(Append(revisions[p], new)) = n + 1
      /\ \A r \in 1 .. n : Append(revisions[p], new)[r] = revisions[p][r]
  <2> HIDE DEF new
  <2> QED BY <1>1
<1>5. DOMAIN revisions[p] = 1 .. n /\ DOMAIN revisions'[p] = 1 .. (n + 1)
  BY <1>1, <1>3, <1>4
<1>6. Grown(p)
  <2>1. \A r \in 1 .. n : revisions'[p][r] = revisions[p][r] /\ r \in 1 .. (n + 1)
    BY <1>1, <1>3, <1>4
  <2> QED BY <1>5, <2>1 DEF Grown, Ready
<1>7. revisions' = [revisions EXCEPT ![p] = Append(@, new)]
  BY DEF NewRevision
<1>8. revisions' \in [Places -> Seq(Revision)] /\ \A q \in Places : q # p => revisions'[q] = revisions[q]
  <2> HIDE DEF new
  <2> QED BY <1>2, <1>3, <1>4, <1>7
<1> QED BY <1>1, <1>3, <1>4, <1>5, <1>6, <1>8

LEMMA TargetsReady ==
    ASSUME IInv, NEW p \in Places
    PROVE  /\ \A i \in DOMAIN traffic[p] : traffic[p][i].revision \in {0} \cup Ready(p)
           /\ traffic[p] = <<>> <=> revisions[p] = <<>>
           /\ Total(Percents(p)) <= 100
BY DEF IInv, PlaceOK

\* What a call has in hand stays as good as it was while its service grows.
LEMMA CallsKeep ==
    ASSUME IInv, NEW p \in Places, Grown(p),
           NEW c \in Calls, call[c] # None, Place(call[c].env, call[c].service) = p
    PROVE  /\ call[c].to \in DOMAIN revisions'[p]
           /\ call[c].kind # "apply" => call[c].to \in Ready(p)'
<1>1. CallOK(c, p)
  BY DEF IInv
<1> QED BY <1>1 DEF CallOK, Concerns, Grown

LEMMA DeployOutsideStep ==
    ASSUME IInv, NEW p \in Places, DeployOutside(p)
    PROVE  IInv'
<1>1. PICK image \in Images : NewRevision(p, image)
  BY DEF DeployOutside
<1>2. /\ traffic' = IF Exists(p) THEN traffic
                    ELSE [traffic EXCEPT ![p] = <<[revision |-> 0, percent |-> 100]>>]
      /\ Touch(p, call) /\ UNCHANGED <<desired, history>>
  BY DEF DeployOutside
<1>3. /\ revisions' \in [Places -> Seq(Revision)]
      /\ \A q \in Places : q # p => revisions'[q] = revisions[q]
      /\ Grown(p)
      /\ Len(revisions'[p]) = Len(revisions[p]) + 1
      /\ Len(revisions'[p]) <= MaxRevisions
      /\ DOMAIN revisions'[p] = 1 .. (Len(revisions[p]) + 1)
  BY <1>1, RevisionAdded
<1>4. Len(revisions[p]) \in Nat /\ revisions'[p] # <<>>
  BY <1>3, Numbered
<1>5. traffic \in [Places -> Seq(Target)] /\ call \in [Calls -> Call \cup {None}]
  BY DEF IInv, StateOK
<1>6. /\ traffic' \in [Places -> Seq(Target)]
      /\ \A q \in Places : q # p => traffic'[q] = traffic[q]
  <2>1. <<[revision |-> 0, percent |-> 100]>> \in Seq(Target)
    BY DEF Target
  <2> QED BY <1>2, <1>5, <2>1
<1>7. PlaceOK(p)'
  <2>1. CASE Exists(p)
    <3>1. traffic'[p] = traffic[p] /\ traffic[p] # <<>>
      BY <1>2, <2>1, TargetsReady DEF Exists
    <3>2. Percents(p)' = Percents(p)
      BY <3>1 DEF Percents
    <3>3. \A i \in DOMAIN traffic'[p] : traffic'[p][i].revision \in {0} \cup Ready(p)'
      <4>1. \A r \in Ready(p) : r \in Ready(p)'
        BY <1>3 DEF Grown, Ready
      <4> QED BY <3>1, <4>1, TargetsReady
    <3> QED BY <1>3, <1>4, <3>1, <3>2, <3>3, TargetsReady DEF PlaceOK
  <2>2. CASE ~ Exists(p)
    <3>1. traffic'[p] = <<[revision |-> 0, percent |-> 100]>>
      BY <1>2, <1>5, <2>2
    <3> QED BY <1>3, <1>4, <3>1, AllTo DEF PlaceOK
  <2> QED BY <2>1, <2>2
<1> QED BY <1>2, <1>3, <1>5, <1>6, <1>7, CloudStep, CallsKeep

LEMMA Settled ==
    ASSUME IInv, NEW p \in Places, Settle(p)
    PROVE  /\ revisions' \in [Places -> Seq(Revision)]
           /\ \A q \in Places : q # p => revisions'[q] = revisions[q]
           /\ Grown(p)
           /\ Len(revisions'[p]) = Len(revisions[p])
           /\ revisions'[p] = <<>> <=> revisions[p] = <<>>
<1>1. PICK r \in DOMAIN revisions[p], state \in {"ready", "failed"} :
        /\ revisions[p][r].state = "pending"
        /\ revisions' = [revisions EXCEPT ![p][r].state = state]
  BY DEF Settle
<1>2. revisions \in [Places -> Seq(Revision)]
  BY DEF IInv, StateOK
<1>3. revisions[p] \in Seq(Revision) /\ revisions[p][r] \in Revision
  BY <1>2
<1> DEFINE settled == [revisions[p][r] EXCEPT !.state = state]
<1>4. settled \in Revision /\ settled.image = revisions[p][r].image /\ settled.state = state
  BY <1>3 DEF Revision
<1>5. revisions' = [revisions EXCEPT ![p] = [revisions[p] EXCEPT ![r] = settled]]
  BY <1>1, <1>2
<1>6. /\ [revisions[p] EXCEPT ![r] = settled] \in Seq(Revision)
      /\ Len([revisions[p] EXCEPT ![r] = settled]) = Len(revisions[p])
      /\ DOMAIN [revisions[p] EXCEPT ![r] = settled] = DOMAIN revisions[p]
  <2> HIDE DEF settled
  <2> QED BY <1>3, <1>4
<1>7. /\ revisions' \in [Places -> Seq(Revision)]
      /\ revisions'[p] = [revisions[p] EXCEPT ![r] = settled]
      /\ \A q \in Places : q # p => revisions'[q] = revisions[q]
  <2> HIDE DEF settled
  <2> QED BY <1>2, <1>5, <1>6
<1>8. \A k \in DOMAIN revisions[p] :
        /\ k # r => revisions'[p][k] = revisions[p][k]
        /\ k = r => revisions'[p][k] = settled
  <2> HIDE DEF settled
  <2> QED BY <1>3, <1>7
<1>9. DOMAIN revisions'[p] = DOMAIN revisions[p] /\ Len(revisions'[p]) = Len(revisions[p])
  BY <1>6, <1>7
<1>10. Grown(p)
  <2>1. \A k \in DOMAIN revisions[p] : k \in Ready(p) => k # r
    BY <1>1 DEF Ready
  <2> HIDE DEF settled
  <2> QED BY <1>4, <1>8, <1>9, <2>1 DEF Grown, Ready
<1>11. revisions'[p] = <<>> <=> revisions[p] = <<>>
  BY <1>1, <1>7, <1>9
<1> QED BY <1>7, <1>9, <1>10, <1>11

LEMMA SettleStep ==
    ASSUME IInv, NEW p \in Places, Settle(p)
    PROVE  IInv'
<1>1. UNCHANGED <<desired, traffic, history>> /\ Touch(p, call)
  BY DEF Settle
<1>2. traffic \in [Places -> Seq(Target)] /\ call \in [Calls -> Call \cup {None}]
  BY DEF IInv, StateOK
<1>3. PlaceOK(p)'
  <2>1. Percents(p)' = Percents(p)
    BY <1>1 DEF Percents
  <2>2. \A i \in DOMAIN traffic'[p] : traffic'[p][i].revision \in {0} \cup Ready(p)'
    <3>1. \A k \in Ready(p) : k \in Ready(p)'
      BY Settled DEF Grown, Ready
    <3> QED BY <1>1, <3>1, TargetsReady
  <2> QED BY <1>1, <2>1, <2>2, Settled, Numbered, TargetsReady DEF PlaceOK
<1> QED BY <1>1, <1>2, <1>3, Settled, CloudStep, CallsKeep

LEMMA NothingAdded ==
    ASSUME NEW p, UNCHANGED revisions
    PROVE  Grown(p) /\ Ready(p)' = Ready(p)
BY DEF Grown, Ready

LEMMA DivideTrafficStep ==
    ASSUME IInv, NEW p \in Places, DivideTraffic(p)
    PROVE  IInv'
<1>0. PICK split \in Shares : \E to \in [DOMAIN split -> {0} \cup Ready(p)] :
        traffic' = [traffic EXCEPT ![p] =
            [i \in DOMAIN split |-> [revision |-> to[i], percent |-> split[i]]]]
  BY DEF DivideTraffic
<1>1. PICK to \in [DOMAIN split -> {0} \cup Ready(p)] :
        traffic' = [traffic EXCEPT ![p] =
            [i \in DOMAIN split |-> [revision |-> to[i], percent |-> split[i]]]]
  BY <1>0
<1>2. Ready(p) # {} /\ UNCHANGED <<desired, revisions, history>> /\ Touch(p, call)
  BY DEF DivideTraffic
<1>3. /\ revisions \in [Places -> Seq(Revision)] /\ traffic \in [Places -> Seq(Target)]
      /\ call \in [Calls -> Call \cup {None}]
  BY DEF IInv, StateOK
<1>4. split \in Seq(1 .. 100) /\ Total(split) = 100
  BY SharesAssumption
<1> DEFINE new == [i \in DOMAIN split |-> [revision |-> to[i], percent |-> split[i]]]
<1>5. DOMAIN split = 1 .. Len(split) /\ Len(split) \in Nat
  BY <1>4
<1>6. Len(split) # 0
  <2> SUFFICES ASSUME Len(split) = 0 PROVE FALSE
    OBVIOUS
  <2>1. split \in Seq(Nat) /\ \A j \in 1 .. Len(split) : split[j] = 0
    BY <1>4
  <2>2. Total(split) = 0
    BY <2>1, TotalOfNone
  <2> QED BY <1>4, <2>2
<1>7. Ready(p) \subseteq 1 .. Len(revisions[p]) /\ Len(revisions[p]) \in Nat
      /\ Len(revisions[p]) <= MaxRevisions
  BY Numbered
<1>8. new \in Seq(Target) /\ new # <<>> /\ DOMAIN new = DOMAIN split
      /\ \A i \in DOMAIN split : new[i].revision = to[i] /\ new[i].percent = split[i]
  <2>1. \A i \in DOMAIN split : to[i] \in 0 .. MaxRevisions /\ split[i] \in 1 .. 100
    BY <1>4, <1>7
  <2>2. new \in [1 .. Len(split) -> Target]
    BY <1>5, <2>1 DEF Target
  <2>3. new \in Seq(Target)
    <3> HIDE DEF new
    <3> QED BY <1>5, <2>2
  <2>4. DOMAIN new # {}
    BY <1>5, <1>6
  <2> QED BY <2>3, <2>4
<1>9. traffic'[p] = new /\ (\A q \in Places : q # p => traffic'[q] = traffic[q])
      /\ traffic' \in [Places -> Seq(Target)]
  <2>1. traffic' = [traffic EXCEPT ![p] = new]
    BY <1>1
  <2> HIDE DEF new
  <2> QED BY <1>3, <1>8, <2>1
<1>10. PlaceOK(p)'
  <2>1. Percents(p)' = split
    <3>1. Percents(p)' = [i \in DOMAIN split |-> split[i]]
      <4> HIDE DEF new
      <4> QED BY <1>8, <1>9 DEF Percents
    <3> QED BY <1>4, <3>1
  <2>2. Total(Percents(p))' = 100
    BY <1>4, <2>1
  <2>3. revisions'[p] # <<>>
    BY <1>2, <1>7
  <2>4. \A i \in DOMAIN traffic'[p] : traffic'[p][i].revision \in {0} \cup Ready(p)'
    <3> HIDE DEF new
    <3> QED BY <1>1, <1>2, <1>8, <1>9, NothingAdded
  <2> HIDE DEF new
  <2> QED BY <1>2, <1>7, <1>8, <1>9, <2>2, <2>3, <2>4 DEF PlaceOK
<1> QED BY <1>2, <1>3, <1>9, <1>10, NothingAdded, CloudStep, CallsKeep

LEMMA ApplyCallStep ==
    ASSUME IInv, NEW c \in Calls, NEW e \in Envs, NEW s \in Services, Apply(c, e, s)
    PROVE  IInv'
<1> DEFINE p == Place(e, s)
           request == [kind |-> "apply", env |-> e, service |-> s,
                       to |-> Len(revisions[p]) + 1, shown |-> 0, fresh |-> FALSE]
           stale == [call EXCEPT ![c] = request]
<1>1. /\ call[c] = None /\ NewRevision(p, desired[e][s])
      /\ traffic' = [traffic EXCEPT ![p] = <<[revision |-> 0, percent |-> 100]>>]
      /\ Touch(p, stale) /\ UNCHANGED <<desired, history>>
  BY DEF Apply
<1>2. p \in Places
  BY PlaceType
<1>3. /\ traffic \in [Places -> Seq(Target)] /\ call \in [Calls -> Call \cup {None}]
      /\ desired[e][s] \in Images
  BY DEF IInv, StateOK, Pinned
<1> HIDE DEF p
<1>4. /\ revisions' \in [Places -> Seq(Revision)]
      /\ \A q \in Places : q # p => revisions'[q] = revisions[q]
      /\ Grown(p)
      /\ Len(revisions'[p]) = Len(revisions[p]) + 1
      /\ Len(revisions'[p]) <= MaxRevisions
      /\ DOMAIN revisions'[p] = 1 .. (Len(revisions[p]) + 1)
  BY <1>1, <1>2, <1>3, RevisionAdded
<1>5. Len(revisions[p]) \in Nat /\ revisions'[p] # <<>>
  BY <1>2, <1>4, Numbered
<1>6. request \in Call
  <2>1. Len(revisions[p]) + 1 \in 1 .. MaxRevisions
    BY <1>4, <1>5
  <2> QED BY <2>1 DEF Call
<1>7. stale \in [Calls -> Call \cup {None}] /\ stale[c] = request
      /\ \A d \in Calls : d # c => stale[d] = call[d]
  <2> HIDE DEF request
  <2> QED BY <1>3, <1>6
<1>8. /\ traffic' \in [Places -> Seq(Target)]
      /\ traffic'[p] = <<[revision |-> 0, percent |-> 100]>>
      /\ \A q \in Places : q # p => traffic'[q] = traffic[q]
  <2>1. <<[revision |-> 0, percent |-> 100]>> \in Seq(Target)
    BY DEF Target
  <2> QED BY <1>1, <1>2, <1>3, <2>1
<1>9. PlaceOK(p)'
  BY <1>4, <1>5, <1>8, AllTo DEF PlaceOK
<1>10. request.to \in DOMAIN revisions'[p] /\ request.kind = "apply"
       /\ Place(request.env, request.service) = p
  BY <1>4, <1>5 DEF p
<1> HIDE DEF request, stale
<1>11. \A d \in Calls : stale[d] # None /\ Place(stale[d].env, stale[d].service) = p =>
             /\ stale[d].to \in DOMAIN revisions'[p]
             /\ stale[d].kind # "apply" => stale[d].to \in Ready(p)'
  <2> SUFFICES ASSUME NEW d \in Calls, stale[d] # None,
                      Place(stale[d].env, stale[d].service) = p
               PROVE  /\ stale[d].to \in DOMAIN revisions'[p]
                      /\ stale[d].kind # "apply" => stale[d].to \in Ready(p)'
    OBVIOUS
  <2>1. CASE d = c
    BY <1>7, <1>10, <2>1
  <2>2. CASE d # c
    <3>1. stale[d] = call[d]
      BY <1>7, <2>2
    <3> QED BY <1>2, <1>4, <3>1, CallsKeep
  <2> QED BY <2>1, <2>2
<1>12. \A d \in Calls : stale[d] # None /\ Place(stale[d].env, stale[d].service) # p =>
             stale[d] = call[d]
  BY <1>7, <1>10
<1> QED BY <1>1, <1>2, <1>4, <1>7, <1>8, <1>9, <1>11, <1>12, CloudStep

LEMMA RouteStep ==
    ASSUME IInv, NEW c \in Calls, Route(c)
    PROVE  IInv'
<1>1. /\ call[c] # None /\ call[c].kind = "route"
      /\ UNCHANGED <<desired, revisions, history>>
  BY DEF Route
<1> DEFINE stale == [call EXCEPT ![c].kind = "record"]
<1>2. PICK p \in {Place(call[c].env, call[c].service)} :
        /\ traffic' = [traffic EXCEPT ![p] = <<[revision |-> call[c].to, percent |-> 100]>>]
        /\ Touch(p, stale)
  BY DEF Route
<1>3. /\ revisions \in [Places -> Seq(Revision)] /\ traffic \in [Places -> Seq(Target)]
      /\ call \in [Calls -> Call \cup {None}]
  BY DEF IInv, StateOK
<1>4. call[c] \in Call
  BY <1>1, <1>3
<1>5. p \in Places
  BY <1>2, <1>4, PlaceType DEF Call
<1>6. call[c].to \in Ready(p) /\ call[c].to \in DOMAIN revisions[p]
  BY <1>1, <1>2, <1>5 DEF IInv, CallOK, Concerns
<1>7. /\ stale \in [Calls -> Call \cup {None}]
      /\ \A d \in Calls : d # c => stale[d] = call[d]
      /\ stale[c] = [call[c] EXCEPT !.kind = "record"]
  <2>1. [call[c] EXCEPT !.kind = "record"] \in Call
    BY <1>4 DEF Call
  <2>2. stale = [call EXCEPT ![c] = [call[c] EXCEPT !.kind = "record"]]
    BY <1>3
  <2> QED BY <1>3, <2>1, <2>2
<1>8. /\ stale[c].env = call[c].env /\ stale[c].service = call[c].service
      /\ stale[c].to = call[c].to
  BY <1>4, <1>7 DEF Call
<1>9. call[c].to \in 1 .. MaxRevisions
  BY <1>4 DEF Call
<1>10. /\ traffic' \in [Places -> Seq(Target)]
       /\ traffic'[p] = <<[revision |-> call[c].to, percent |-> 100]>>
       /\ \A q \in Places : q # p => traffic'[q] = traffic[q]
  <2>1. <<[revision |-> call[c].to, percent |-> 100]>> \in Seq(Target)
    BY <1>9 DEF Target
  <2> QED BY <1>2, <1>3, <1>5, <2>1
<1>11. PlaceOK(p)'
  <2>1. revisions[p] # <<>> /\ Len(revisions[p]) <= MaxRevisions
    BY <1>5, <1>6, Numbered
  <2>2. PICK r \in Nat : r = call[c].to
    BY <1>9
  <2>3. /\ Total(Percents(p))' = 100 /\ traffic'[p] # <<>>
        /\ DOMAIN traffic'[p] = {1} /\ traffic'[p][1].revision = r
    BY <1>10, <2>2, AllTo
  <2>4. Ready(p)' = Ready(p) /\ r \in Ready(p)
    BY <1>1, <1>6, <2>2, NothingAdded
  <2> QED BY <1>1, <2>1, <2>3, <2>4 DEF PlaceOK
<1>12. Grown(p) /\ Ready(p)' = Ready(p)
  BY <1>1, NothingAdded
<1> HIDE DEF stale
<1>13. \A d \in Calls : stale[d] # None /\ Place(stale[d].env, stale[d].service) = p =>
             /\ stale[d].to \in DOMAIN revisions'[p]
             /\ stale[d].kind # "apply" => stale[d].to \in Ready(p)'
  <2> SUFFICES ASSUME NEW d \in Calls, stale[d] # None,
                      Place(stale[d].env, stale[d].service) = p
               PROVE  /\ stale[d].to \in DOMAIN revisions'[p]
                      /\ stale[d].kind # "apply" => stale[d].to \in Ready(p)'
    OBVIOUS
  <2>1. CASE d = c
    BY <1>1, <1>6, <1>8, <1>12, <2>1
  <2>2. CASE d # c
    <3>1. stale[d] = call[d]
      BY <1>7, <2>2
    <3>2. call[d] # None /\ Place(call[d].env, call[d].service) = p
      BY <3>1
    <3>3. /\ call[d].to \in DOMAIN revisions'[p]
          /\ call[d].kind # "apply" => call[d].to \in Ready(p)'
      BY <1>5, <1>12, <3>2, CallsKeep
    <3> QED BY <3>1, <3>3
  <2> QED BY <2>1, <2>2
<1>14. \A d \in Calls : stale[d] # None /\ Place(stale[d].env, stale[d].service) # p =>
             stale[d] = call[d]
  BY <1>2, <1>7, <1>8
<1>15. /\ revisions' \in [Places -> Seq(Revision)]
       /\ \A q \in Places : q # p => revisions'[q] = revisions[q] /\ traffic'[q] = traffic[q]
       /\ UNCHANGED <<desired, history>>
  BY <1>1, <1>3, <1>10
<1>16. Grown(p) /\ Touch(p, stale) /\ stale \in [Calls -> Call \cup {None}]
  BY <1>2, <1>7, <1>12
<1> QED BY <1>5, <1>10, <1>11, <1>13, <1>14, <1>15, <1>16, CloudStep

LEMMA MaxExists ==
    ASSUME NEW n \in Nat, NEW S \in SUBSET (0 .. n), S # {}
    PROVE  Max(S) \in S /\ \A y \in S : y <= Max(S)
<1> DEFINE T == {n - x : x \in S}
<1>1. T \in SUBSET (0 .. n) /\ T # {}
  <2>1. \A x \in S : x \in 0 .. n /\ n - x \in 0 .. n
    OBVIOUS
  <2> QED BY <2>1
<1>2. Min(T) \in T /\ \A y \in T : Min(T) <= y
  <2> HIDE DEF T
  <2> QED BY <1>1, MinExists
<1>3. PICK x \in S : Min(T) = n - x
  BY <1>2
<1>4. \A y \in S : y <= x
  <2> SUFFICES ASSUME NEW y \in S PROVE y <= x
    OBVIOUS
  <2>1. n - y \in T
    OBVIOUS
  <2>2. n - x <= n - y
    <3> HIDE DEF T
    <3> QED BY <1>2, <1>3, <2>1
  <2> QED BY <2>2
<1>5. \A y \in S : x >= y
  BY <1>4
<1>6. Max(S) \in S /\ \A y \in S : Max(S) >= y
  BY <1>5 DEF Max
<1> QED BY <1>6

\* What serves is ready, or nothing is.
LEMMA ServingReady ==
    ASSUME IInv, NEW p \in Places
    PROVE  /\ LatestReady(p) \in {0} \cup Ready(p)
           /\ LatestReady(p) = 0 <=> Ready(p) = {}
           /\ Serving(p) \in {0} \cup Ready(p)
<1> DEFINE n == Len(revisions[p])
           split == traffic[p]
           largest == {i \in DOMAIN split :
                          \A j \in DOMAIN split : split[j].percent <= split[i].percent}
<1>1. n \in Nat /\ Ready(p) \in SUBSET (0 .. n) /\ 0 \notin Ready(p)
  BY Numbered
<1>2. LatestReady(p) \in {0} \cup Ready(p) /\ (LatestReady(p) = 0 <=> Ready(p) = {})
  BY <1>1, MaxExists DEF LatestReady
<1>3. CASE split = <<>>
  BY <1>2, <1>3 DEF Serving
<1>4. CASE split # <<>>
  <2>1. split \in Seq(Target) /\ Len(split) \in Nat /\ DOMAIN split = 1 .. Len(split)
    BY Numbered
  <2>2. 1 \in DOMAIN split
    <3>1. Len(split) # 0
      BY <1>4, <2>1
    <3> QED BY <2>1, <3>1
  <2> DEFINE P == {split[i].percent : i \in DOMAIN split}
  <2>3. P \in SUBSET (0 .. 100) /\ P # {}
    <3>1. \A i \in DOMAIN split : split[i] \in Target
      BY <2>1
    <3>2. \A i \in DOMAIN split : split[i].percent \in 0 .. 100
      BY <3>1 DEF Target
    <3> QED BY <2>2, <3>2
  <2>4. Max(P) \in P /\ \A y \in P : y <= Max(P)
    <3> HIDE DEF P
    <3> QED BY <2>3, MaxExists
  <2>5. PICK i \in DOMAIN split : Max(P) = split[i].percent
    BY <2>4
  <2>6. i \in largest
    BY <2>4, <2>5
  <2>7. largest \in SUBSET (0 .. Len(split)) /\ largest # {}
    BY <2>1, <2>6
  <2>8. Max(largest) \in largest
    <3> HIDE DEF largest
    <3> QED BY <2>1, <2>7, MaxExists
  <2>9. Max(largest) \in DOMAIN split
    BY <2>8
  <2>10. Serving(p) = Resolve(p, split[Max(largest)].revision)
    BY <1>4 DEF Serving
  <2> HIDE DEF largest
  <2> QED BY <1>2, <2>9, <2>10, TargetsReady DEF Resolve
<1> QED BY <1>2, <1>3, <1>4

\* What a plan goes back to is ready and older than something that serves.
LEMMA Planned ==
    ASSUME IInv, NEW p \in Places, RollbackTarget(p) # None
    PROVE  /\ RollbackTarget(p).to \in Ready(p)
           /\ \E q \in DOMAIN revisions[p] :
                q > RollbackTarget(p).to /\ TrafficByRevision(p, q) > 0
<1> DEFINE n == Len(revisions[p])
           rows == Listed(p)
           served == {k \in DOMAIN rows : rows[k].percent > 0}
           older == {k \in DOMAIN rows : rows[k].ready /\ k > Min(served)}
<1>1. n \in Nat /\ DOMAIN revisions[p] = 1 .. n /\ DOMAIN rows = 1 .. n
  BY Numbered DEF Listed
<1>2. \A k \in 1 .. n :
        /\ rows[k].revision = n + 1 - k
        /\ rows[k].ready = (revisions[p][n + 1 - k].state = "ready")
        /\ rows[k].percent = TrafficByRevision(p, n + 1 - k)
  BY <1>1 DEF Listed
<1> HIDE DEF rows
<1>3. /\ served # {} /\ older # {}
      /\ RollbackTarget(p) = [from |-> rows[Min(served)].revision, to |-> rows[Min(older)].revision]
  BY DEF RollbackTarget, rows
<1>4. served \in SUBSET (0 .. n) /\ older \in SUBSET (0 .. n)
  BY <1>1
<1>5. Min(served) \in served /\ Min(older) \in older
  <2> HIDE DEF served, older
  <2> QED BY <1>1, <1>3, <1>4, MinExists
<1>6. PICK k \in 1 .. n : k = Min(served)
  BY <1>1, <1>5
<1>7. PICK m \in 1 .. n : m = Min(older)
  BY <1>1, <1>5
<1>8. rows[k].percent > 0 /\ rows[m].ready /\ m > k
  <2>1. rows[k].percent > 0
    BY <1>5, <1>6
  <2>2. rows[m].ready /\ m > Min(served)
    BY <1>5, <1>7
  <2> QED BY <1>6, <2>1, <2>2
<1>9. RollbackTarget(p).to = n + 1 - m
  BY <1>2, <1>3, <1>7
<1>10. n + 1 - m \in 1 .. n /\ n + 1 - k \in 1 .. n /\ n + 1 - k > n + 1 - m
  BY <1>1, <1>8
<1>11. revisions[p][n + 1 - m].state = "ready" /\ TrafficByRevision(p, n + 1 - k) > 0
  BY <1>2, <1>8
<1> HIDE DEF n
<1> QED BY <1>1, <1>9, <1>10, <1>11 DEF Ready

\* A step that leaves Cloud Run alone.
LEMMA QuietStep ==
    ASSUME IInv, UNCHANGED cloud, StateOK',
           \A c \in Calls :
             call'[c] \in {call[c], None} \/ \A p \in Places : CallOK(c, p)'
    PROVE  IInv'
<1>1. revisions' = revisions /\ traffic' = traffic
  BY DEF cloud
<1>2. ASSUME NEW p \in Places PROVE PlaceOK(p)'
  BY <1>1, <1>2, PlaceStays DEF IInv
<1>3. ASSUME NEW c \in Calls, NEW p \in Places PROVE CallOK(c, p)'
  <2>1. CASE call'[c] = None
    BY <2>1 DEF CallOK, Concerns
  <2>2. CASE call'[c] = call[c]
    <3>1. Concerns(c, p)' = Concerns(c, p)
      BY <2>2 DEF Concerns, Place
    <3>2. Ready(p)' = Ready(p) /\ RollbackTarget(p)' = RollbackTarget(p)
      BY <1>1, PlaceStays
    <3>3. CallOK(c, p)
      BY DEF IInv
    <3> QED BY <1>1, <2>2, <3>1, <3>2, <3>3 DEF CallOK
  <2> QED BY <2>1, <2>2
<1> QED BY <1>2, <1>3 DEF IInv

LEMMA CallEnds ==
    ASSUME IInv, NEW c \in Calls, call' = [call EXCEPT ![c] = None]
    PROVE  /\ call' \in [Calls -> Call \cup {None}]
           /\ \A d \in Calls : call'[d] \in {call[d], None}
BY DEF IInv, StateOK

LEMMA EditManifestStep ==
    ASSUME IInv, NEW e \in Envs, NEW s \in Services, EditManifest(e, s)
    PROVE  IInv'
<1>1. PICK i \in Pinned : desired' = [desired EXCEPT ![e][s] = i]
  BY DEF EditManifest
<1>2. UNCHANGED <<cloud, history, call>>
  BY DEF EditManifest
<1>3. desired' \in [Envs -> [Services -> Pinned]]
  BY <1>1 DEF IInv, StateOK
<1>4. StateOK'
  BY <1>2, <1>3 DEF IInv, StateOK, cloud
<1> QED BY <1>2, <1>4, QuietStep

LEMMA EndStep ==
    ASSUME IInv, NEW c \in Calls, FailApply(c) \/ Abandon(c)
    PROVE  IInv'
<1>1. call' = [call EXCEPT ![c] = None] /\ UNCHANGED <<desired, cloud, history>>
  BY DEF FailApply, Abandon
<1>2. StateOK'
  BY <1>1, CallEnds DEF IInv, StateOK, cloud
<1> QED BY <1>1, <1>2, CallEnds, QuietStep

\* A row that names an image and a revision of the model fits the history.
LEMMA Recorded ==
    ASSUME IInv, Len(history) < MaxRows, NEW row \in Row, Record(row)
    PROVE  history' \in Seq(Row) /\ Len(history') <= MaxRows
<1>1. history \in Seq(Row) /\ Len(history) \in Nat
  BY DEF IInv, StateOK
<1>2. Append(history, row) \in Seq(Row) /\ Len(Append(history, row)) = Len(history) + 1
  BY <1>1
<1> QED BY <1>1, <1>2 DEF Record

\* The record c makes at the end of its operation.
Records(c, row) ==
    /\ Record(row) /\ Len(history) < MaxRows
    /\ call' = [call EXCEPT ![c] = None] /\ UNCHANGED <<desired, cloud>>

LEMMA ApplyRecords ==
    ASSUME IInv, NEW c \in Calls, FinishApply(c)
    PROVE  \E row \in Row : Records(c, row)
<1>1. PICK q \in {call[c]} : q = call[c]
  OBVIOUS
<1>2. PICK p \in {Place(q.env, q.service)} : TRUE
  OBVIOUS
<1> DEFINE new == [action |-> "apply", env |-> q.env, service |-> q.service,
                   digest |-> Digest[revisions[p][q.to].image],
                   revision |-> Deployed(p).revision]
<1>3. /\ q # None /\ Len(history) < MaxRows /\ Record(new)
      /\ call' = [call EXCEPT ![c] = None] /\ UNCHANGED <<desired, cloud>>
  BY <1>1, <1>2 DEF FinishApply
<1>4. q \in Call
  BY <1>1, <1>3 DEF IInv, StateOK
<1>5. p \in Places
  BY <1>2, <1>4, PlaceType DEF Call
<1>6. q.to \in DOMAIN revisions[p]
  BY <1>1, <1>2, <1>3, <1>5 DEF IInv, CallOK, Concerns
<1>7. PICK row : row = new
  OBVIOUS
<1>8. Deployed(p).revision = Serving(p)
  BY DEF Deployed
<1>9. row \in Row
  <2>1. revisions[p][q.to] \in Revision
    BY <1>5, <1>6, Numbered
  <2>2. PICK i \in Images : i = revisions[p][q.to].image
    BY <2>1 DEF Revision
  <2>3. Deployed(p).revision \in 0 .. MaxRevisions
    BY <1>5, <1>8, ServingReady, Numbered
  <2>4. /\ q.env \in Envs /\ q.service \in Services
        /\ Digest[revisions[p][q.to].image] \in {Digest[j] : j \in Images}
    BY <1>4, <2>2 DEF Call
  <2> QED BY <1>7, <2>3, <2>4 DEF Row
<1> HIDE DEF new
<1>10. Record(row)
  BY <1>3, <1>7
<1> QED BY <1>3, <1>9, <1>10 DEF Records

LEMMA RollbackRecords ==
    ASSUME IInv, NEW c \in Calls, RecordRollback(c)
    PROVE  \E row \in Row : Records(c, row)
<1>1. PICK q \in {call[c]} : q = call[c]
  OBVIOUS
<1>2. PICK p \in {Place(q.env, q.service)} : TRUE
  OBVIOUS
<1> DEFINE new == [action |-> "rollback", env |-> q.env, service |-> q.service,
                   digest |-> DigestOf(ImageOf(p, q.to)), revision |-> q.to]
<1>3. /\ q # None /\ Len(history) < MaxRows /\ Record(new)
      /\ call' = [call EXCEPT ![c] = None] /\ UNCHANGED <<desired, cloud>>
  BY <1>1, <1>2 DEF RecordRollback
<1>4. q \in Call
  BY <1>1, <1>3 DEF IInv, StateOK
<1>5. p \in Places
  BY <1>2, <1>4, PlaceType DEF Call
<1>6. q.to \in DOMAIN revisions[p] /\ q.to \in 1 .. MaxRevisions
  BY <1>1, <1>2, <1>3, <1>4, <1>5 DEF IInv, CallOK, Concerns, Call
<1>7. PICK row : row = new
  OBVIOUS
<1>8. /\ revisions[p][q.to].image \in Images
      /\ DigestOf(ImageOf(p, q.to)) = Digest[revisions[p][q.to].image]
  <2>1. revisions[p][q.to] \in Revision
    BY <1>5, <1>6, Numbered
  <2>2. revisions[p][q.to].image \in Images
    BY <2>1 DEF Revision
  <2>3. ImageOf(p, q.to) = revisions[p][q.to].image
    BY <1>6 DEF ImageOf
  <2> QED BY <2>2, <2>3 DEF DigestOf
<1>9. row \in Row
  BY <1>4, <1>6, <1>7, <1>8 DEF Row, Call
<1> HIDE DEF new
<1>10. Record(row)
  BY <1>3, <1>7
<1> QED BY <1>3, <1>9, <1>10 DEF Records

LEMMA RecordStep ==
    ASSUME IInv, NEW c \in Calls, FinishApply(c) \/ RecordRollback(c)
    PROVE  IInv'
<1>1. PICK row \in Row : Records(c, row)
  BY ApplyRecords, RollbackRecords
<1>2. /\ Record(row) /\ Len(history) < MaxRows
      /\ call' = [call EXCEPT ![c] = None] /\ UNCHANGED <<desired, cloud>>
  BY <1>1 DEF Records
<1>3. StateOK'
  BY <1>2, Recorded, CallEnds DEF IInv, StateOK, cloud
<1> QED BY <1>2, <1>3, CallEnds, QuietStep

LEMMA PreviewRollbackStep ==
    ASSUME IInv, NEW c \in Calls, NEW e \in Envs, NEW s \in Services,
           PreviewRollback(c, e, s)
    PROVE  IInv'
<1>1. PICK p \in {Place(e, s)} : p = Place(e, s)
  OBVIOUS
<1>2. p \in Places
  BY <1>1, PlaceType
<1>3. RollbackTarget(p) # None /\ UNCHANGED <<desired, cloud, history>>
  BY <1>1 DEF PreviewRollback
<1>4. PICK to \in 1 .. MaxRevisions : to = RollbackTarget(p).to /\ to \in Ready(p)
  BY <1>2, <1>3, Planned, Numbered
<1> DEFINE request == [kind |-> "preview", env |-> e, service |-> s,
                       to |-> to, shown |-> to, fresh |-> TRUE]
<1>5. call' = [call EXCEPT ![c] = request]
  BY <1>1, <1>4 DEF PreviewRollback, RollbackMessage
<1>6. request \in Call
  BY DEF Call
<1>7. /\ request.kind = "preview" /\ request.to = to /\ request.shown = to
      /\ Place(request.env, request.service) = p
  BY <1>1
<1> HIDE DEF request
<1>8. /\ call' \in [Calls -> Call \cup {None}] /\ call'[c] = request
      /\ \A d \in Calls : d # c => call'[d] = call[d]
  BY <1>5, <1>6 DEF IInv, StateOK
<1>9. StateOK'
  BY <1>3, <1>8 DEF IInv, StateOK, cloud
<1>10. ASSUME NEW r \in Places PROVE CallOK(c, r)'
  <2>1. CASE r = p
    <3>1. revisions' = revisions /\ Ready(p)' = Ready(p) /\ RollbackTarget(p)' = RollbackTarget(p)
      BY <1>3, PlaceStays DEF cloud
    <3>2. to \in Ready(p)' /\ to \in DOMAIN revisions'[p]
      BY <1>4, <3>1 DEF Ready
    <3>3. RollbackTarget(p)' # None /\ to = RollbackTarget(p)'.to
      BY <1>3, <1>4, <3>1
    <3> QED BY <1>7, <1>8, <2>1, <3>2, <3>3 DEF CallOK
  <2>2. CASE r # p
    BY <1>7, <1>8, <2>2 DEF CallOK, Concerns, Place
  <2> QED BY <2>1, <2>2
<1> QED BY <1>3, <1>8, <1>9, <1>10, QuietStep

LEMMA ConfirmRollbackStep ==
    ASSUME IInv, NEW c \in Calls, ConfirmRollback(c)
    PROVE  IInv'
<1>1. PICK q \in {call[c]} : q = call[c]
  OBVIOUS
<1>2. PICK p \in {Place(q.env, q.service)} : p = Place(q.env, q.service)
  OBVIOUS
<1>3. /\ q # None /\ q.kind = "preview" /\ UNCHANGED <<desired, cloud, history>>
      /\ call' = [call EXCEPT ![c] = IF RollbackTarget(p) = None THEN None
                    ELSE [q EXCEPT !.kind = "route", !.to = RollbackTarget(p).to]]
  BY <1>1, <1>2 DEF ConfirmRollback
<1>4. q \in Call
  BY <1>1, <1>3 DEF IInv, StateOK
<1>5. p \in Places
  BY <1>2, <1>4, PlaceType DEF Call
<1>6. CASE RollbackTarget(p) = None
  <2>1. call' = [call EXCEPT ![c] = None]
    BY <1>3, <1>6
  <2>2. StateOK'
    BY <1>3, <2>1, CallEnds DEF IInv, StateOK, cloud
  <2> QED BY <1>3, <2>1, <2>2, CallEnds, QuietStep
<1>7. CASE RollbackTarget(p) # None
  <2>1. PICK to \in 1 .. MaxRevisions : to = RollbackTarget(p).to /\ to \in Ready(p)
    BY <1>5, <1>7, Planned, Numbered
  <2> DEFINE planned == [q EXCEPT !.kind = "route", !.to = to]
  <2>2. call' = [call EXCEPT ![c] = planned]
    BY <1>3, <1>7, <2>1
  <2>3. /\ planned \in Call /\ planned.kind = "route" /\ planned.to = to
        /\ planned.shown = q.shown /\ planned.fresh = q.fresh
        /\ planned.env = q.env /\ planned.service = q.service
    BY <1>4 DEF Call
  <2> HIDE DEF planned
  <2>4. /\ call' \in [Calls -> Call \cup {None}] /\ call'[c] = planned
        /\ \A d \in Calls : d # c => call'[d] = call[d]
    BY <2>2, <2>3 DEF IInv, StateOK
  <2>5. StateOK'
    BY <1>3, <2>4 DEF IInv, StateOK, cloud
  <2>6. Place(planned.env, planned.service) = p
    BY <1>2, <2>3
  <2>7. ASSUME NEW r \in Places PROVE CallOK(c, r)'
    <3>1. CASE r = p
      <4>1. revisions' = revisions /\ Ready(p)' = Ready(p) /\ RollbackTarget(p)' = RollbackTarget(p)
        BY <1>3, PlaceStays DEF cloud
      <4>2. to \in Ready(p)' /\ to \in DOMAIN revisions'[p]
        BY <2>1, <4>1 DEF Ready
      <4>3. RollbackTarget(p)' # None /\ to = RollbackTarget(p)'.to
        BY <1>7, <2>1, <4>1
      <4>4. planned.fresh => planned.shown = to
        BY <1>1, <1>2, <1>3, <1>5, <2>1, <2>3 DEF IInv, CallOK, Concerns
      <4> QED BY <2>3, <2>4, <3>1, <4>2, <4>3, <4>4 DEF CallOK
    <3>2. CASE r # p
      BY <2>4, <2>6, <3>2 DEF CallOK, Concerns, Place
    <3> QED BY <3>1, <3>2
  <2> QED BY <1>3, <2>4, <2>5, <2>7, QuietStep
<1> QED BY <1>6, <1>7

LEMMA InitInv == Init => IInv
<1> SUFFICES ASSUME Init PROVE IInv
  OBVIOUS
<1> DEFINE first == [image |-> InitialImage, state |-> "ready"]
           all == [revision |-> 0, percent |-> 100]
<1>1. InitialImage \in Images
  BY DEF Pinned
<1>2. <<first>> \in Seq(Revision) /\ <<>> \in Seq(Revision)
  BY <1>1 DEF Revision
<1>3. <<all>> \in Seq(Target) /\ <<>> \in Seq(Target)
  BY DEF Target
<1>4. /\ revisions \in [Places -> {<<>>, <<first>>}]
      /\ traffic = [p \in Places |-> IF revisions[p] = <<>> THEN <<>> ELSE <<all>>]
      /\ desired = [e \in Envs |-> [s \in Services |-> InitialImage]]
      /\ history = <<>> /\ call = [c \in Calls |-> None]
  BY DEF Init
<1>5. StateOK
  <2>1. revisions \in [Places -> Seq(Revision)]
    <3> HIDE DEF first
    <3> QED BY <1>2, <1>4
  <2>2. traffic \in [Places -> Seq(Target)]
    <3> HIDE DEF all
    <3> QED BY <1>3, <1>4
  <2> QED BY <1>4, <2>1, <2>2 DEF StateOK
<1>6. ASSUME NEW p \in Places PROVE PlaceOK(p)
  <2>1. CASE revisions[p] = <<>>
    <3>1. traffic[p] = <<>>
      BY <1>4, <2>1
    <3>2. Percents(p) \in Seq(Nat) /\ Len(Percents(p)) = 0
      BY <3>1 DEF Percents
    <3>3. Total(Percents(p)) = 0
      <4>1. \A j \in 1 .. Len(Percents(p)) : Percents(p)[j] = 0
        BY <3>2
      <4> QED BY <3>2, <4>1, TotalOfNone
    <3>4. Len(revisions[p]) = 0 /\ DOMAIN traffic[p] = {}
      BY <2>1, <3>1
    <3>5. 0 <= MaxRevisions /\ 0 <= 100
      OBVIOUS
    <3> QED BY <2>1, <3>1, <3>3, <3>4, <3>5 DEF PlaceOK
  <2>2. CASE revisions[p] # <<>>
    <3>1. revisions[p] = <<first>> /\ traffic[p] = <<all>>
      BY <1>4, <2>2
    <3>2. Len(revisions[p]) = 1 /\ revisions[p] # <<>> /\ traffic[p] # <<>>
      BY <3>1
    <3>3. DOMAIN traffic[p] = {1} /\ traffic[p][1].revision = 0 /\ traffic[p][1].percent = 100
      BY <3>1
    <3>4. Percents(p) = [i \in {1} |-> 100]
      BY <3>3 DEF Percents
    <3>5. Percents(p) \in Seq(Nat) /\ Len(Percents(p)) = 1 /\ Percents(p)[1] = 100
      <4>1. {1} = 1 .. 1
        OBVIOUS
      <4>2. Percents(p) = [i \in 1 .. 1 |-> 100]
        BY <3>4, <4>1
      <4> QED BY <4>2
    <3>6. Total(Percents(p)) = 100
      <4>1. 1 \in 1 .. Len(Percents(p)) /\ \A j \in 1 .. Len(Percents(p)) : j # 1 => Percents(p)[j] = 0
        BY <3>5
      <4>2. Total(Percents(p)) = Percents(p)[1]
        BY <3>5, <4>1, TotalOfOne
      <4> QED BY <3>5, <4>2
    <3> QED BY <3>2, <3>3, <3>6 DEF PlaceOK
  <2> QED BY <2>1, <2>2
<1>7. \A c \in Calls, p \in Places : CallOK(c, p)
  BY <1>4 DEF CallOK, Concerns
<1> QED BY <1>5, <1>6, <1>7 DEF IInv

LEMMA NextInv == IInv /\ [Next]_vars => IInv'
<1> SUFFICES ASSUME IInv, [Next]_vars PROVE IInv'
  OBVIOUS
<1>1. ASSUME NEW e \in Busy, NEW s \in Services, EditManifest(e, s)
      PROVE  IInv'
  BY <1>1, EditManifestStep
<1>2. ASSUME NEW e \in Busy, NEW s \in Services, DeployOutside(Place(e, s))
      PROVE  IInv'
  <2>1. PICK p \in Places : p = Place(e, s)
    BY PlaceType
  <2> QED BY <1>2, <2>1, DeployOutsideStep
<1>3. ASSUME NEW e \in Busy, NEW s \in Services, DivideTraffic(Place(e, s))
      PROVE  IInv'
  <2>1. PICK p \in Places : p = Place(e, s)
    BY PlaceType
  <2> QED BY <1>3, <2>1, DivideTrafficStep
<1>4. ASSUME NEW e \in Busy, NEW s \in Services, Settle(Place(e, s))
      PROVE  IInv'
  <2>1. PICK p \in Places : p = Place(e, s)
    BY PlaceType
  <2> QED BY <1>4, <2>1, SettleStep
<1>5. ASSUME NEW e \in Busy, NEW s \in Services, NEW c \in Calls,
             Apply(c, e, s) \/ PreviewRollback(c, e, s)
      PROVE  IInv'
  BY <1>5, ApplyCallStep, PreviewRollbackStep
<1>6. ASSUME NEW c \in Calls,
             \/ FinishApply(c) \/ FailApply(c) \/ ConfirmRollback(c)
             \/ Route(c) \/ RecordRollback(c) \/ Abandon(c)
      PROVE  IInv'
  BY <1>6, RecordStep, EndStep, ConfirmRollbackStep, RouteStep
<1>7. CASE UNCHANGED vars
  <2>1. UNCHANGED <<desired, cloud, history, call>>
    BY <1>7 DEF vars
  <2>2. StateOK'
    BY <2>1 DEF IInv, StateOK, cloud
  <2> QED BY <2>1, <2>2, QuietStep
<1> QED BY <1>1, <1>2, <1>3, <1>4, <1>5, <1>6, <1>7 DEF Next

\* What the other theorems rest on, for every value of the constants.
THEOREM Invariance == Spec => []IInv
BY InitInv, NextInv, PTL DEF Spec

(***************************************************************************)
(* Rollbacks.                                                              *)
(***************************************************************************)
LEMMA AllServes ==
    ASSUME NEW p, NEW r \in Nat \ {0}, traffic'[p] = <<[revision |-> r, percent |-> 100]>>
    PROVE  Serving(p)' = r
<1> DEFINE split == <<[revision |-> r, percent |-> 100]>>
           largest == {i \in DOMAIN split :
                          \A j \in DOMAIN split : split[j].percent <= split[i].percent}
<1>1. DOMAIN split = {1} /\ split[1].revision = r /\ split[1].percent = 100 /\ split # <<>>
  OBVIOUS
<1>2. largest = {1}
  <2> HIDE DEF split
  <2> QED BY <1>1
<1>3. Max({1}) = 1
  <2>1. 1 \in Nat /\ {1} \in SUBSET (0 .. 1) /\ {1} # {}
    OBVIOUS
  <2>2. Max({1}) \in {1}
    BY <2>1, MaxExists
  <2> QED BY <2>2
<1>4. Serving(p)' = IF split = <<>> THEN LatestReady(p)'
                    ELSE Resolve(p, split[Max(largest)].revision)'
  BY DEF Serving
<1>5. Serving(p)' = Resolve(p, r)'
  <2> HIDE DEF split, largest
  <2> QED BY <1>1, <1>2, <1>3, <1>4
<1> QED BY <1>5 DEF Resolve

\* Only its own route makes a call one that records a rollback.
LEMMA OnlyRoute ==
    ASSUME IInv, [Next]_vars, NEW c \in Calls,
           call[c] # None, call[c].kind = "route",
           call'[c] # None, call'[c].kind = "record"
    PROVE  Route(c)
<1>1. call \in [Calls -> Call \cup {None}] /\ call[c] \in Call
  BY DEF IInv, StateOK
<1>2. [call[c] EXCEPT !.fresh = FALSE].kind = "route"
  BY <1>1 DEF Call
<1>3. ASSUME NEW p, NEW stale, stale[c] = call[c], Touch(p, stale)
      PROVE  FALSE
  <2>1. call'[c] \in {call[c], [call[c] EXCEPT !.fresh = FALSE]}
    BY <1>3 DEF Touch
  <2> QED BY <1>2, <2>1
<1>4. ASSUME call'[c] = call[c] PROVE FALSE
  BY <1>4
<1>5. ASSUME NEW e \in Busy, NEW s \in Services,
             EditManifest(e, s) \/ DeployOutside(Place(e, s))
               \/ DivideTraffic(Place(e, s)) \/ Settle(Place(e, s))
      PROVE  FALSE
  BY <1>3, <1>4, <1>5 DEF EditManifest, DeployOutside, DivideTraffic, Settle
<1>6. ASSUME NEW e \in Busy, NEW s \in Services, NEW d \in Calls,
             Apply(d, e, s)
      PROVE  FALSE
  <2> DEFINE stale == [call EXCEPT ![d] =
               [kind |-> "apply", env |-> e, service |-> s,
                to |-> Len(revisions[Place(e, s)]) + 1, shown |-> 0, fresh |-> FALSE]]
  <2>1. call[d] = None /\ Touch(Place(e, s), stale)
    BY <1>6 DEF Apply
  <2>2. stale[c] = call[c]
    BY <1>1, <2>1
  <2> HIDE DEF stale
  <2> QED BY <1>3, <2>1, <2>2
<1>7. ASSUME NEW e \in Busy, NEW s \in Services, NEW d \in Calls,
             PreviewRollback(d, e, s)
      PROVE  FALSE
  <2>1. call[d] = None /\ call'[c] \in {call[c], call'[d]} /\ d # c
    BY <1>7 DEF PreviewRollback
  <2>2. call'[c] = call[c]
    BY <1>1, <1>7, <2>1 DEF PreviewRollback
  <2> QED BY <1>4, <2>2
<1>8. ASSUME NEW d \in Calls, FinishApply(d) \/ FailApply(d) \/ RecordRollback(d) \/ Abandon(d)
      PROVE  FALSE
  <2>1. call' = [call EXCEPT ![d] = None]
    BY <1>8 DEF FinishApply, FailApply, RecordRollback, Abandon
  <2>2. call'[c] \in {call[c], None}
    BY <1>1, <2>1
  <2> QED BY <1>4, <2>2
<1>9. ASSUME NEW d \in Calls, ConfirmRollback(d)
      PROVE  FALSE
  <2>1. d # c
    BY <1>9 DEF ConfirmRollback
  <2>2. call'[c] = call[c]
    BY <1>1, <1>9, <2>1 DEF ConfirmRollback
  <2> QED BY <1>4, <2>2
<1>10. ASSUME NEW d \in Calls, Route(d), d # c
      PROVE  FALSE
  <2> DEFINE stale == [call EXCEPT ![d].kind = "record"]
  <2>1. PICK p : Touch(p, stale)
    BY <1>10 DEF Route
  <2>2. stale[c] = call[c]
    BY <1>1, <1>10
  <2> HIDE DEF stale
  <2> QED BY <1>3, <2>1, <2>2
<1>11. CASE UNCHANGED vars
  BY <1>4, <1>11 DEF vars
<1> QED BY <1>5, <1>6, <1>7, <1>8, <1>9, <1>10, <1>11 DEF Next

\* For every value of the constants, the preview shown before a confirm prompt
\* (rollback.go:21) and the plan the server derives again (server.go:180) are
\* the same unless the service has changed: what serves after the rollback is
\* what was confirmed, it is ready, and it is older than something that was
\* serving.
THEOREM RollsBackAsPlanned == Spec => RollsBackAsPreviewed
<1> DEFINE Step ==
      \A c \in Calls :
         call[c] # None /\ call[c].kind = "route" /\ call[c].fresh
           /\ call'[c] # None /\ call'[c].kind = "record"
         => \A p \in {Place(call[c].env, call[c].service)}, r \in {call[c].shown} :
              /\ Serving(p)' = r
              /\ revisions[p][r].state = "ready"
              /\ \E q \in DOMAIN revisions[p] :
                   q > r /\ TrafficByRevision(p, q) > 0
<1>1. ASSUME IInv, [Next]_vars PROVE Step
  <2> SUFFICES ASSUME NEW c \in Calls,
                      call[c] # None, call[c].kind = "route", call[c].fresh,
                      call'[c] # None, call'[c].kind = "record",
                      NEW p \in {Place(call[c].env, call[c].service)},
                      NEW r \in {call[c].shown}
               PROVE  /\ Serving(p)' = r
                      /\ revisions[p][r].state = "ready"
                      /\ \E q \in DOMAIN revisions[p] :
                           q > r /\ TrafficByRevision(p, q) > 0
    OBVIOUS
  <2>1. Route(c)
    BY <1>1, OnlyRoute
  <2>2. call[c] \in Call /\ p \in Places
    <3>1. call[c] \in Call
      BY <1>1 DEF IInv, StateOK
    <3> QED BY <3>1, PlaceType DEF Call
  <2>3. CallOK(c, p) /\ Concerns(c, p)
    BY <1>1, <2>2 DEF IInv, Concerns
  <2>4. /\ r = call[c].to /\ r \in Ready(p)
        /\ RollbackTarget(p) # None /\ r = RollbackTarget(p).to
    BY <2>3 DEF CallOK
  <2>5. \E q \in DOMAIN revisions[p] : q > r /\ TrafficByRevision(p, q) > 0
    BY <1>1, <2>2, <2>4, Planned
  <2>6. r \in Nat \ {0}
    <3>1. call[c].to \in 1 .. MaxRevisions
      BY <2>2 DEF Call
    <3>2. r \in 1 .. MaxRevisions
      BY <2>4, <3>1
    <3> QED BY <3>2
  <2>7. traffic'[p] = <<[revision |-> r, percent |-> 100]>>
    <3>1. traffic' = [traffic EXCEPT ![p] = <<[revision |-> r, percent |-> 100]>>]
      BY <2>1, <2>4 DEF Route
    <3>2. traffic \in [Places -> Seq(Target)]
      BY <1>1 DEF IInv, StateOK
    <3> QED BY <2>2, <3>1, <3>2
  <2> QED BY <2>4, <2>5, <2>6, <2>7, AllServes DEF Ready
<1>2. IInv /\ [Next]_vars => [Step]_vars
  BY <1>1
<1> QED BY <1>2, Invariance, PTL DEF Spec, RollsBackAsPreviewed

(***************************************************************************)
(* What the views are computed from.                                       *)
(***************************************************************************)
\* The share of each target that a revision has.
Part(p, r) ==
    [i \in DOMAIN traffic[p] |->
        IF Resolve(p, traffic[p][i].revision) = r THEN traffic[p][i].percent ELSE 0]

LEMMA Parts ==
    ASSUME IInv, NEW p \in Places, NEW r
    PROVE  /\ Part(p, r) \in Seq(Nat)
           /\ Len(Part(p, r)) = Len(traffic[p]) /\ Len(traffic[p]) \in Nat
           /\ DOMAIN traffic[p] = 1 .. Len(traffic[p])
           /\ TrafficByRevision(p, r) = Total(Part(p, r))
           /\ TrafficByRevision(p, r) \in 0 .. 100
<1> DEFINE n == Len(traffic[p])
<1>1. traffic[p] \in Seq(Target) /\ n \in Nat /\ DOMAIN traffic[p] = 1 .. n
  BY Numbered
<1>2. \A i \in 1 .. n : traffic[p][i].percent \in Nat
  <2>1. \A i \in 1 .. n : traffic[p][i] \in Target
    BY <1>1
  <2>2. \A i \in 1 .. n : traffic[p][i].percent \in 1 .. 100
    BY <2>1 DEF Target
  <2>3. 1 .. 100 \subseteq Nat
    OBVIOUS
  <2> QED BY <2>2, <2>3, Zenon
<1> HIDE DEF n
<1>0. \A f \in [1 .. n -> Nat] : f \in Seq(Nat) /\ Len(f) = n
  BY <1>1
<1>3. Part(p, r) \in [1 .. n -> Nat]
  <2>1. Part(p, r) = [i \in 1 .. n |->
           IF Resolve(p, traffic[p][i].revision) = r THEN traffic[p][i].percent ELSE 0]
    BY <1>1 DEF Part
  <2> QED BY <1>2, <2>1
<1>4. Percents(p) \in [1 .. n -> Nat]
  <2>1. Percents(p) = [i \in 1 .. n |-> traffic[p][i].percent]
    BY <1>1 DEF Percents
  <2> QED BY <1>2, <2>1
<1>5. \A i \in 1 .. n : Part(p, r)[i] <= Percents(p)[i]
  <2> SUFFICES ASSUME NEW i \in 1 .. n PROVE Part(p, r)[i] <= Percents(p)[i]
    OBVIOUS
  <2>1. /\ Part(p, r)[i] \in {0, traffic[p][i].percent}
        /\ Percents(p)[i] = traffic[p][i].percent
    BY <1>1 DEF Part, Percents
  <2> QED BY <1>2, <2>1
<1>6. Total(Part(p, r)) \in Nat /\ Total(Percents(p)) \in Nat
  BY <1>0, <1>3, <1>4, TotalBounds
<1>7. Total(Part(p, r)) <= Total(Percents(p))
  BY <1>0, <1>3, <1>4, <1>5, TotalMonotone
<1>8. TrafficByRevision(p, r) = Total(Part(p, r))
  BY DEF TrafficByRevision, Part
<1>9. Total(Percents(p)) <= 100
  BY TargetsReady
<1>10. TrafficByRevision(p, r) \in 0 .. 100
  BY <1>6, <1>7, <1>8, <1>9
<1> QED BY <1>0, <1>1, <1>3, <1>8, <1>10 DEF n

LEMMA MinOfTwo ==
    ASSUME NEW a \in Nat, NEW b \in Nat
    PROVE  Min({a, b}) \in {a, b} /\ Min({a, b}) <= a /\ Min({a, b}) <= b
<1>1. {a, b} \in SUBSET (0 .. (a + b)) /\ {a, b} # {} /\ a + b \in Nat
  OBVIOUS
<1> QED BY <1>1, MinExists

LEMMA RunsNamed ==
    ASSUME NEW e \in Envs, NEW s \in Services
    PROVE  /\ Managed(e)[RunName[e][s]] = s
           /\ DOMAIN Managed(e) = {RunName[e][t] : t \in Services}
           /\ RunName[e][s] \in Names
<1>1. Managed(e)[RunName[e][s]] = CHOOSE t \in Services : RunName[e][t] = RunName[e][s]
  BY DEF Managed
<1>2. \A t \in Services : RunName[e][t] = RunName[e][s] => t = s
  OBVIOUS
<1>3. (CHOOSE t \in Services : RunName[e][t] = RunName[e][s]) = s
  BY <1>2
<1> QED BY <1>1, <1>3 DEF Managed, Names

LEMMA DeployedType ==
    ASSUME IInv, NEW p \in Places
    PROVE  /\ Deployed(p).revision = Serving(p)
           /\ Serving(p) \in 0 .. MaxRevisions
           /\ Serving(p) # 0 => /\ Serving(p) \in DOMAIN revisions[p]
                                /\ revisions[p][Serving(p)].state = "ready"
                                /\ revisions[p][Serving(p)].image \in Images
           /\ Deployed(p).ready \in BOOLEAN
           /\ DigestOf(Deployed(p).image) \in Digests \cup {None}
           /\ Deployed(p).image = ImageOf(p, Serving(p))
<1>1. /\ Deployed(p).revision = Serving(p) /\ Deployed(p).image = ImageOf(p, Serving(p))
      /\ Deployed(p).ready = (revisions[p][Len(revisions[p])].state = "ready")
  BY DEF Deployed
<1>2. Serving(p) \in {0} \cup Ready(p) /\ Ready(p) \subseteq 1 .. MaxRevisions
      /\ Ready(p) \subseteq DOMAIN revisions[p]
  BY ServingReady, Numbered
<1>3. CASE Serving(p) = 0
  BY <1>1, <1>3 DEF ImageOf, DigestOf
<1>4. CASE Serving(p) # 0
  <2>1. Serving(p) \in Ready(p) /\ Serving(p) \in DOMAIN revisions[p]
    BY <1>2, <1>4
  <2>2. revisions[p][Serving(p)] \in Revision
    BY <2>1, Numbered
  <2>3. revisions[p][Serving(p)].image \in Images /\ revisions[p][Serving(p)].state = "ready"
    BY <2>1, <2>2 DEF Revision, Ready
  <2>4. DigestOf(Deployed(p).image) = Digest[revisions[p][Serving(p)].image]
    BY <1>1, <1>4, <2>3 DEF ImageOf, DigestOf
  <2> QED BY <1>1, <1>2, <2>1, <2>3, <2>4 DEF Digests
<1> QED BY <1>3, <1>4

LEMMA Wanted ==
    ASSUME IInv, NEW e \in Envs, NEW s \in Services
    PROVE  Digest[desired[e][s]] \in Digests /\ Digest[desired[e][s]] # None
<1>1. desired[e][s] \in Pinned
  BY DEF IInv, StateOK
<1> QED BY <1>1 DEF Pinned, Digests

\* A message is the row with the name of its state replaced.
LEMMA StatusRenamed ==
    ASSUME NEW row, NEW X, NEW Y, NEW F \in [X -> Y], NEW A, NEW B, NEW C, NEW D, NEW E, NEW G,
           row \in [service : A, runName : B, desired : C, actual : D,
                    revision : E, ready : G, state : X]
    PROVE  /\ [row EXCEPT !.state = F[@]] \in
                 [service : A, runName : B, desired : C, actual : D,
                  revision : E, ready : G, state : Y]
           /\ [row EXCEPT !.state = F[@]].service = row.service
           /\ [row EXCEPT !.state = F[@]].runName = row.runName
           /\ [row EXCEPT !.state = F[@]].desired = row.desired
           /\ [row EXCEPT !.state = F[@]].actual = row.actual
           /\ [row EXCEPT !.state = F[@]].revision = row.revision
           /\ [row EXCEPT !.state = F[@]].ready = row.ready
           /\ [row EXCEPT !.state = F[@]].state = F[row.state]
OBVIOUS

LEMMA StateNames ==
    /\ SyncStates \in [{"InSync", "Drift", "NotDeployed"} ->
         {"SYNC_STATE_IN_SYNC", "SYNC_STATE_DRIFT", "SYNC_STATE_NOT_DEPLOYED"}]
    /\ SyncStates["InSync"] = "SYNC_STATE_IN_SYNC"
    /\ SyncStates["Drift"] = "SYNC_STATE_DRIFT"
    /\ SyncStates["NotDeployed"] = "SYNC_STATE_NOT_DEPLOYED"
    /\ InventoryStates \in [{"InSync", "Drift", "NotDeployed", "Unmanaged"} ->
         {"INVENTORY_STATE_IN_SYNC", "INVENTORY_STATE_DRIFT",
          "INVENTORY_STATE_NOT_DEPLOYED", "INVENTORY_STATE_UNMANAGED"}]
    /\ InventoryStates["InSync"] = "INVENTORY_STATE_IN_SYNC"
    /\ InventoryStates["Drift"] = "INVENTORY_STATE_DRIFT"
    /\ InventoryStates["NotDeployed"] = "INVENTORY_STATE_NOT_DEPLOYED"
    /\ InventoryStates["Unmanaged"] = "INVENTORY_STATE_UNMANAGED"
BY DEF SyncStates, InventoryStates

\* What Status says of a service, field by field.
StatusSays(row, e, s, p) ==
    /\ row \in ServiceStatus /\ row.service = s /\ row.runName = RunName[e][s]
    /\ row.desired = Digest[desired[e][s]]
    /\ Exists(p) =>
         /\ row.actual = DigestOf(Deployed(p).image)
         /\ row.revision = Deployed(p).revision /\ row.ready = Deployed(p).ready
         /\ row.state =
              SyncStates[Comparison(DigestOf(Deployed(p).image), Digest[desired[e][s]])]
    /\ ~ Exists(p) => /\ row.actual = None /\ row.revision = 0 /\ row.ready = FALSE
                      /\ row.state = "SYNC_STATE_NOT_DEPLOYED"

LEMMA StatusFields ==
    ASSUME IInv, NEW e \in Envs, NEW s \in Services, NEW p, p = Place(e, s)
    PROVE  StatusSays(StatusMessage(e, s), e, s, p)
<1>1. p \in Places /\ RunName[e][s] \in Names /\ Digest[desired[e][s]] \in Digests
  BY PlaceType, RunsNamed, Wanted
<1> DEFINE d == Deployed(p)
<1>2. /\ d.revision \in 0 .. MaxRevisions /\ d.ready \in BOOLEAN
      /\ DigestOf(d.image) \in Digests \cup {None}
  BY <1>1, DeployedType
<1> HIDE DEF d
<1> DEFINE state == Comparison(DigestOf(d.image), Digest[desired[e][s]])
<1>3. state \in {"InSync", "Drift"}
  BY DEF Comparison
<1> HIDE DEF state
<1> DEFINE Row7 == [service : Services, runName : Names, desired : Digests,
                    actual : Digests \cup {None}, revision : 0 .. MaxRevisions, ready : BOOLEAN,
                    state : {"InSync", "Drift", "NotDeployed"}]
           row == Status(e, s)
<1>4. /\ row \in Row7 /\ row.service = s /\ row.runName = RunName[e][s]
      /\ row.desired = Digest[desired[e][s]]
      /\ Exists(p) => /\ row.actual = DigestOf(d.image) /\ row.revision = d.revision
                      /\ row.ready = d.ready /\ row.state = state
      /\ ~ Exists(p) => /\ row.actual = None /\ row.revision = 0
                        /\ row.ready = FALSE /\ row.state = "NotDeployed"
  <2>1. CASE Exists(p)
    <3>1. row = [service |-> s, runName |-> RunName[e][s],
                 desired |-> Digest[desired[e][s]], actual |-> DigestOf(d.image),
                 revision |-> d.revision, ready |-> d.ready, state |-> state]
      BY <2>1 DEF Status, d, state
    <3> HIDE DEF row
    <3> QED BY <1>1, <1>2, <1>3, <2>1, <3>1
  <2>2. CASE ~ Exists(p)
    <3>1. row = [service |-> s, runName |-> RunName[e][s],
                 desired |-> Digest[desired[e][s]], actual |-> None,
                 revision |-> 0, ready |-> FALSE, state |-> "NotDeployed"]
      BY <2>2 DEF Status
    <3> HIDE DEF row
    <3>2. 0 \in 0 .. MaxRevisions /\ FALSE \in BOOLEAN
      OBVIOUS
    <3>3. row \in Row7
      BY <1>1, <3>1, <3>2
    <3> HIDE DEF Row7
    <3> QED BY <2>2, <3>1, <3>3
  <2> QED BY <2>1, <2>2
<1>5. StatusMessage(e, s) = [row EXCEPT !.state = SyncStates[@]]
  BY DEF StatusMessage
<1> HIDE DEF row
<1> DEFINE X == {"InSync", "Drift", "NotDeployed"}
           Y == {"SYNC_STATE_IN_SYNC", "SYNC_STATE_DRIFT", "SYNC_STATE_NOT_DEPLOYED"}
<1>6. /\ StatusMessage(e, s) \in ServiceStatus
      /\ StatusMessage(e, s).service = row.service
      /\ StatusMessage(e, s).runName = row.runName
      /\ StatusMessage(e, s).desired = row.desired
      /\ StatusMessage(e, s).actual = row.actual
      /\ StatusMessage(e, s).revision = row.revision
      /\ StatusMessage(e, s).ready = row.ready
      /\ StatusMessage(e, s).state = SyncStates[row.state]
  <2>1. SyncStates \in [X -> Y]
    BY StateNames
  <2>2. row \in [service : Services, runName : Names, desired : Digests,
                actual : Digests \cup {None}, revision : 0 .. MaxRevisions, ready : BOOLEAN,
                state : X]
    BY <1>4
  <2>3. ServiceStatus =
          [service : Services, runName : Names, desired : Digests,
           actual : Digests \cup {None}, revision : 0 .. MaxRevisions, ready : BOOLEAN,
           state : Y]
    BY DEF ServiceStatus
  <2> HIDE DEF X, Y
  <2> QED BY <1>5, <2>1, <2>2, <2>3, StatusRenamed
<1> HIDE DEF X, Y, Row7
<1>7. CASE Exists(p)
  BY <1>4, <1>6, <1>7 DEF d, state, StatusSays
<1>8. CASE ~ Exists(p)
  BY <1>4, <1>6, <1>8, StateNames DEF StatusSays
<1> QED BY <1>7, <1>8

\* The item of a name in an inventory.
ItemOf(e, name) ==
    LET managed == Managed(e)
        wanted == Digest[desired[e][managed[name]]]
    IN IF name \notin DOMAIN managed THEN ActualItem(e, name)
       ELSE IF name \in ListServices(e) THEN Joined(ActualItem(e, name), managed[name], wanted)
       ELSE MissingItem(e, name, managed[name], wanted)

LEMMA Items ==
    ASSUME NEW e \in Envs
    PROVE  Inventory(e) = {ItemOf(e, name) : name \in ListServices(e) \cup DOMAIN Managed(e)}
BY DEF Inventory, ItemOf

InventoryRow == [
    env : Envs, service : Names, managed : BOOLEAN, manifest : Services \cup {None},
    desired : Digests \cup {None}, actual : Digests \cup {None},
    revision : 0 .. MaxRevisions, ready : BOOLEAN,
    state : {"InSync", "Drift", "NotDeployed", "Unmanaged"}]

LEMMA JoinedFields ==
    ASSUME NEW item \in InventoryRow, NEW s \in Services, NEW wanted \in Digests
    PROVE  LET joined == Joined(item, s, wanted)
           IN /\ joined \in InventoryRow
              /\ joined.service = item.service /\ joined.managed
              /\ joined.manifest = s /\ joined.desired = wanted
              /\ joined.actual = item.actual
              /\ joined.revision = item.revision /\ joined.ready = item.ready
              /\ joined.state = Comparison(item.actual, wanted)
<1> DEFINE X == {"InSync", "Drift", "NotDeployed", "Unmanaged"}
           D == Services \cup {None}
           E == Digests \cup {None}
<1>1. Comparison(item.actual, wanted) \in X /\ s \in D /\ wanted \in E
  BY DEF Comparison
<1>2. InventoryRow = [env : Envs, service : Names, managed : BOOLEAN, manifest : D,
                      desired : E, actual : E, revision : 0 .. MaxRevisions,
                      ready : BOOLEAN, state : X]
  BY DEF InventoryRow
<1> HIDE DEF X, D, E
<1> QED BY <1>1, <1>2 DEF Joined

\* What Inventory says of a name, field by field.
ItemSays(item, e, name, p) ==
    /\ item \in InventoryRow /\ item.service = name
    /\ item.managed <=> name \in DOMAIN Managed(e)
    /\ Exists(p) => /\ item.actual = DigestOf(Deployed(p).image)
                    /\ item.revision = Deployed(p).revision /\ item.ready = Deployed(p).ready
    /\ \A s \in Services : name = RunName[e][s] =>
         /\ item.manifest = s
         /\ item.desired = Digest[desired[e][s]]
         /\ Exists(p) =>
              item.state = Comparison(DigestOf(Deployed(p).image), Digest[desired[e][s]])
         /\ ~ Exists(p) => /\ item.actual = None /\ item.revision = 0
                           /\ item.ready = FALSE /\ item.state = "NotDeployed"

LEMMA ItemFields ==
    ASSUME IInv, NEW e \in Envs, NEW name \in Names, NEW p, p = <<Project[e], name>>
    PROVE  ItemSays(ItemOf(e, name), e, name, p)
<1> DEFINE d == Deployed(p)
           item == ItemOf(e, name)
           Live(row) == /\ row.actual = DigestOf(d.image)
                        /\ row.revision = d.revision /\ row.ready = d.ready
<1>1. p \in Places
  BY DEF Places
<1>2. /\ d.revision \in 0 .. MaxRevisions /\ d.ready \in BOOLEAN
      /\ DigestOf(d.image) \in Digests \cup {None}
  BY <1>1, DeployedType
<1> HIDE DEF d
<1>3. 0 \in 0 .. MaxRevisions /\ TRUE \in BOOLEAN /\ FALSE \in BOOLEAN
  OBVIOUS
<1>4. ActualItem(e, name) =
        [env |-> e, service |-> name, managed |-> FALSE, manifest |-> None,
         desired |-> None, actual |-> DigestOf(d.image), revision |-> d.revision,
         ready |-> d.ready, state |-> "Unmanaged"]
  BY DEF ActualItem, d
<1>5. Exists(p) <=> name \in ListServices(e)
  BY DEF ListServices
<1>6. CASE name \notin DOMAIN Managed(e)
  <2>1. item = ActualItem(e, name)
    BY <1>6 DEF ItemOf
  <2> HIDE DEF item
  <2>2. item \in InventoryRow
    BY <1>2, <1>3, <1>4, <2>1 DEF InventoryRow
  <2>3. item.service = name /\ ~ item.managed /\ Live(item)
    BY <1>4, <2>1
  <2>4. \A s \in Services : name # RunName[e][s]
    BY <1>6 DEF Managed
  <2> QED BY <2>2, <2>3, <2>4, <1>6 DEF d, item, ItemSays
<1>7. CASE name \in DOMAIN Managed(e)
  <2>1. PICK s \in Services : name = RunName[e][s]
    BY <1>7 DEF Managed
  <2>2. Managed(e)[name] = s /\ \A u \in Services : name = RunName[e][u] => u = s
    BY <2>1, RunsNamed
  <2>3. PICK wanted \in Digests : wanted = Digest[desired[e][s]]
    BY Wanted
  <2> DEFINE compared == Comparison(DigestOf(d.image), wanted)
  <2>4. compared \in {"InSync", "Drift"}
    BY DEF Comparison
  <2> HIDE DEF compared
  <2>5. /\ item \in InventoryRow /\ item.service = name /\ item.managed
        /\ item.manifest = s /\ item.desired = wanted
        /\ Exists(p) => Live(item) /\ item.state = compared
        /\ ~ Exists(p) => /\ item.actual = None /\ item.revision = 0
                          /\ item.ready = FALSE /\ item.state = "NotDeployed"
    <3>1. CASE Exists(p)
      <4>0. PICK actual : actual = ActualItem(e, name)
        OBVIOUS
      <4>1. item = Joined(actual, s, wanted)
        BY <1>5, <1>7, <2>2, <2>3, <3>1, <4>0 DEF ItemOf
      <4>2. actual \in InventoryRow /\ actual.service = name /\ Live(actual)
        BY <1>2, <1>3, <1>4, <4>0 DEF InventoryRow
      <4> HIDE DEF item
      <4>3. /\ Joined(actual, s, wanted) \in InventoryRow
            /\ Joined(actual, s, wanted).service = actual.service
            /\ Joined(actual, s, wanted).managed
            /\ Joined(actual, s, wanted).manifest = s
            /\ Joined(actual, s, wanted).desired = wanted
            /\ Joined(actual, s, wanted).actual = actual.actual
            /\ Joined(actual, s, wanted).revision = actual.revision
            /\ Joined(actual, s, wanted).ready = actual.ready
            /\ Joined(actual, s, wanted).state = Comparison(actual.actual, wanted)
        BY <4>2, JoinedFields
      <4>4. Comparison(actual.actual, wanted) = compared
        BY <4>2 DEF compared
      <4> QED BY <3>1, <4>1, <4>2, <4>3, <4>4
    <3>2. CASE ~ Exists(p)
      <4>1. item = MissingItem(e, name, s, wanted)
        BY <1>5, <1>7, <2>2, <2>3, <3>2 DEF ItemOf
      <4> HIDE DEF item
      <4>2. item =
              [env |-> e, service |-> name, managed |-> TRUE, manifest |-> s,
               desired |-> wanted, actual |-> None, revision |-> 0, ready |-> FALSE,
               state |-> "NotDeployed"]
        BY <4>1 DEF MissingItem
      <4>3. item \in InventoryRow
        BY <1>3, <4>2 DEF InventoryRow
      <4> QED BY <3>2, <4>2, <4>3
    <3> QED BY <3>1, <3>2
  <2> HIDE DEF item
  <2> QED BY <1>7, <2>2, <2>3, <2>5 DEF compared, d, item, ItemSays
<1> QED BY <1>6, <1>7

\* A message of the inventory is the item with the name of its state.
MessageOf(e, name) == [ItemOf(e, name) EXCEPT !.state = InventoryStates[@]]

MessageSays(message, item) ==
    /\ message \in InventoryItem
    /\ message.service = item.service
    /\ message.managed <=> item.managed
    /\ message.manifest = item.manifest /\ message.desired = item.desired
    /\ message.actual = item.actual
    /\ message.revision = item.revision /\ message.ready = item.ready
    /\ message.state = InventoryStates[item.state]

LEMMA MessageFields ==
    ASSUME IInv, NEW e \in Envs, NEW name \in Names
    PROVE  MessageSays(MessageOf(e, name), ItemOf(e, name))
<1>1. PICK item \in InventoryRow : item = ItemOf(e, name)
  <2>1. PICK p : p = <<Project[e], name>>
    OBVIOUS
  <2>2. ItemSays(ItemOf(e, name), e, name, p)
    BY <2>1, ItemFields
  <2> QED BY <2>2 DEF ItemSays
<1>2. MessageOf(e, name) = [item EXCEPT !.state = InventoryStates[@]]
  BY <1>1 DEF MessageOf
<1> DEFINE X == {"InSync", "Drift", "NotDeployed", "Unmanaged"}
           Y == {"INVENTORY_STATE_IN_SYNC", "INVENTORY_STATE_DRIFT",
                 "INVENTORY_STATE_NOT_DEPLOYED", "INVENTORY_STATE_UNMANAGED"}
           D == Services \cup {None}
           E == Digests \cup {None}
<1>3. InventoryRow = [env : Envs, service : Names, managed : BOOLEAN, manifest : D,
                      desired : E, actual : E, revision : 0 .. MaxRevisions,
                      ready : BOOLEAN, state : X]
  BY DEF InventoryRow
<1>4. InventoryItem = [env : Envs, service : Names, managed : BOOLEAN, manifest : D,
                       desired : E, actual : E, revision : 0 .. MaxRevisions,
                       ready : BOOLEAN, state : Y]
  BY DEF InventoryItem
<1>5. InventoryStates \in [X -> Y]
  BY StateNames
<1> HIDE DEF X, Y, D, E
<1>6. MessageSays([item EXCEPT !.state = InventoryStates[@]], item)
  BY <1>3, <1>4, <1>5 DEF MessageSays
<1> QED BY <1>1, <1>2, <1>6

LEMMA InventoryMessages ==
    ASSUME NEW e \in Envs
    PROVE  InventoryMessage(e) =
             {MessageOf(e, name) : name \in ListServices(e) \cup DOMAIN Managed(e)}
BY Items DEF InventoryMessage, MessageOf

\* The rows of a timeline, from the newest revision down.
TimelineRows(p, limit) == SubSeq(Listed(p), 1, Min({limit, Len(revisions[p])}))

RowsSay(rows, p, limit) ==
    LET n == Len(revisions[p])
        m == Min({limit, n})
    IN /\ m \in 0 .. n /\ Len(rows) = m /\ DOMAIN rows = 1 .. m
       /\ \A k \in 1 .. m :
            /\ n + 1 - k \in 1 .. n
            /\ rows[k].revision = n + 1 - k
            /\ rows[k].image = revisions[p][n + 1 - k].image
            /\ rows[k].ready \in BOOLEAN
            /\ rows[k].ready <=> revisions[p][n + 1 - k].state = "ready"
            /\ rows[k].percent = TrafficByRevision(p, n + 1 - k)

LEMMA RowsFields ==
    ASSUME IInv, NEW p \in Places, NEW limit \in Nat
    PROVE  RowsSay(TimelineRows(p, limit), p, limit)
<1> DEFINE n == Len(revisions[p])
           rows == TimelineRows(p, limit)
           m == Min({limit, n})
           R == {Listed(p)[k] : k \in 1 .. n}
<1>1. n \in Nat /\ DOMAIN revisions[p] = 1 .. n
  BY Numbered
<1>2. m \in 0 .. n /\ m \in Nat
  <2>1. m \in {limit, n} /\ m <= n
    BY <1>1, MinOfTwo
  <2> HIDE DEF m, n
  <2> QED BY <1>1, <2>1
<1>3. \A k \in 1 .. n :
        Listed(p)[k] = [revision |-> n + 1 - k, image |-> revisions[p][n + 1 - k].image,
                        ready |-> revisions[p][n + 1 - k].state = "ready",
                        percent |-> TrafficByRevision(p, n + 1 - k)]
  BY <1>1 DEF Listed
<1>4. Listed(p) \in Seq(R) /\ Len(Listed(p)) = n
  <2>1. DOMAIN Listed(p) = 1 .. n /\ Listed(p) = [k \in 1 .. n |-> Listed(p)[k]]
    BY <1>1 DEF Listed
  <2>2. Listed(p) \in [1 .. n -> R]
    BY <2>1
  <2> HIDE DEF R, n
  <2> QED BY <1>1, <2>2
<1>5. rows = SubSeq(Listed(p), 1, m)
  BY DEF TimelineRows
<1>6. Len(rows) = m /\ DOMAIN rows = 1 .. m /\ \A k \in 1 .. m : rows[k] = Listed(p)[k]
  <2> HIDE DEF R, n, m, rows
  <2> QED BY <1>1, <1>2, <1>4, <1>5
<1>7. ASSUME NEW k \in 1 .. m
      PROVE  /\ n + 1 - k \in 1 .. n
             /\ rows[k].revision = n + 1 - k
             /\ rows[k].image = revisions[p][n + 1 - k].image
             /\ rows[k].ready \in BOOLEAN
             /\ rows[k].ready <=> revisions[p][n + 1 - k].state = "ready"
             /\ rows[k].percent = TrafficByRevision(p, n + 1 - k)
  <2> HIDE DEF n, m, rows
  <2>1. n + 1 - k \in 1 .. n /\ k \in 1 .. n
    BY <1>1, <1>2
  <2>0. PICK b \in {revisions[p][n + 1 - k].state = "ready"} : TRUE
    OBVIOUS
  <2>2. rows[k] = [revision |-> n + 1 - k, image |-> revisions[p][n + 1 - k].image,
                   ready |-> b, percent |-> TrafficByRevision(p, n + 1 - k)]
    <3>1. rows[k] = Listed(p)[k]
      BY <1>6
    <3>2. Listed(p)[k] = [revision |-> n + 1 - k, image |-> revisions[p][n + 1 - k].image,
                          ready |-> revisions[p][n + 1 - k].state = "ready",
                          percent |-> TrafficByRevision(p, n + 1 - k)]
      BY <1>3, <2>1
    <3>3. b = (revisions[p][n + 1 - k].state = "ready")
      BY <2>0, Zenon
    <3> QED BY <3>1, <3>2, <3>3, Zenon
  <2>3. rows[k].ready = b /\ b \in BOOLEAN
    <3>1. b \in BOOLEAN
      BY <2>0, Zenon
    <3>2. rows[k].ready = b
      BY <2>2
    <3> QED BY <3>1, <3>2
  <2>4. /\ rows[k].revision = n + 1 - k
        /\ rows[k].image = revisions[p][n + 1 - k].image
        /\ rows[k].percent = TrafficByRevision(p, n + 1 - k)
    BY <2>2
  <2>5. rows[k].ready \in BOOLEAN
    BY <2>3
  <2>6. rows[k].ready <=> revisions[p][n + 1 - k].state = "ready"
    BY <2>0, <2>3, Zenon
  <2> QED BY <2>1, <2>4, <2>5, <2>6
<1> HIDE DEF R
<1> QED BY <1>2, <1>6, <1>7 DEF RowsSay

\* The entries of a timeline, field by field.
EntriesSay(entries, e, s, p, limit) ==
    LET n == Len(revisions[p])
        m == Min({limit, n})
    IN /\ entries \in Seq(TimelineEntry)
       /\ m \in 0 .. n /\ Len(entries) = m /\ DOMAIN entries = 1 .. m
       /\ \A k \in 1 .. m :
            /\ n + 1 - k \in 1 .. n
            /\ entries[k].revision = n + 1 - k
            /\ entries[k].current <=> n + 1 - k = CurrentRevision(TimelineRows(p, limit))
            /\ entries[k].desired <=>
                 DigestOf(revisions[p][n + 1 - k].image) = Digest[desired[e][s]]

LEMMA EntryFields ==
    ASSUME IInv, NEW e \in Envs, NEW s \in Services, NEW p, p = Place(e, s), Exists(p),
           NEW limit \in Nat, NEW l, l = IF limit = 0 THEN DefaultLimit ELSE limit
    PROVE  l \in Nat /\ EntriesSay(TimelineMessage(e, s, limit), e, s, p, l)
<1> DEFINE n == Len(revisions[p])
           rows == TimelineRows(p, l)
           m == Min({l, n})
           entries == TimelineMessage(e, s, limit)
           current == CurrentRevision(rows)
<1>1. p \in Places /\ l \in Nat /\ n \in Nat /\ n <= MaxRevisions
  BY PlaceType, Numbered
<1>2. /\ m \in 0 .. n /\ Len(rows) = m /\ DOMAIN rows = 1 .. m
      /\ \A k \in 1 .. m :
           /\ n + 1 - k \in 1 .. n
           /\ rows[k].revision = n + 1 - k
           /\ rows[k].image = revisions[p][n + 1 - k].image
           /\ rows[k].ready \in BOOLEAN
           /\ rows[k].percent = TrafficByRevision(p, n + 1 - k)
  <2>1. RowsSay(rows, p, l)
    BY <1>1, RowsFields
  <2> HIDE DEF rows
  <2> QED BY <2>1 DEF RowsSay
<1>3. entries = [k \in DOMAIN rows |->
          [revision |-> rows[k].revision, digest |-> DigestOf(rows[k].image),
           ready |-> rows[k].ready, percent |-> rows[k].percent,
           current |-> rows[k].revision = current,
           desired |-> DigestOf(rows[k].image) = Digest[desired[e][s]]]]
  BY DEF TimelineMessage, Timeline, ServiceTimeline, TimelineRows
<1> HIDE DEF n, rows, m, entries, current
<1>4. DOMAIN entries = 1 .. m
  BY <1>2, <1>3
<1>5. ASSUME NEW k \in 1 .. m
      PROVE  /\ entries[k] \in TimelineEntry
             /\ entries[k].revision = n + 1 - k
             /\ entries[k].current <=> n + 1 - k = current
             /\ entries[k].desired <=>
                  DigestOf(revisions[p][n + 1 - k].image) = Digest[desired[e][s]]
  <2> DEFINE r == n + 1 - k
             wanted == DigestOf(rows[k].image) = Digest[desired[e][s]]
             marked == rows[k].revision = current
  <2>1. /\ r \in 1 .. n /\ rows[k].revision = r /\ rows[k].image = revisions[p][r].image
        /\ rows[k].percent = TrafficByRevision(p, r)
    BY <1>2
  <2>2. DigestOf(rows[k].image) \in Digests \cup {None}
    <3>1. revisions[p][r] \in Revision
      BY <1>1, <2>1, Numbered DEF n
    <3>2. rows[k].image \in Images
      BY <2>1, <3>1 DEF Revision
    <3> QED BY <3>2 DEF DigestOf, Digests
  <2>3. rows[k].percent \in 0 .. 100
    <3> HIDE DEF r
    <3>1. TrafficByRevision(p, r) \in 0 .. 100
      BY <1>1, Parts
    <3> QED BY <2>1, <3>1
  <2>4. rows[k].ready \in BOOLEAN
    BY <1>2
  <2>5. rows[k].revision \in 1 .. MaxRevisions
    <3> HIDE DEF r
    <3> QED BY <1>1, <2>1
  <2>6. PICK w \in {wanted} : TRUE
    OBVIOUS
  <2>7. PICK c \in {marked} : TRUE
    OBVIOUS
  <2>8. w \in BOOLEAN /\ c \in BOOLEAN /\ (w <=> wanted) /\ (c <=> marked)
    BY <2>6, <2>7, Zenon
  <2>9. entries[k] =
          [revision |-> rows[k].revision, digest |-> DigestOf(rows[k].image),
           ready |-> rows[k].ready, percent |-> rows[k].percent,
           current |-> c, desired |-> w]
    <3>1. c = marked /\ w = wanted
      BY <2>6, <2>7, Zenon
    <3> QED BY <1>2, <1>3, <3>1, Zenon
  <2>10. entries[k].current <=> marked
    BY <2>8, <2>9
  <2>11. entries[k].desired <=> wanted
    BY <2>8, <2>9
  <2>12. entries[k] \in TimelineEntry /\ entries[k].revision = r
    <3> HIDE DEF r, wanted, marked
    <3> QED BY <2>1, <2>2, <2>3, <2>4, <2>5, <2>8, <2>9 DEF TimelineEntry
  <2> QED BY <2>1, <2>10, <2>11, <2>12
<1>6. entries \in Seq(TimelineEntry) /\ Len(entries) = m
  <2>1. entries \in [1 .. m -> TimelineEntry]
    BY <1>3, <1>4, <1>5
  <2> QED BY <1>1, <1>2, <2>1
<1> QED BY <1>1, <1>2, <1>4, <1>5, <1>6 DEF n, rows, m, entries, current, EntriesSay

\* With a limit of MaxRows the whole activity of an environment is listed.
LEMMA ActivityFields ==
    ASSUME IInv, NEW e \in Envs
    PROVE  LET mine == NewestFirst(history, e)
               entries == ActivityMessage(e, MaxRows)
           IN /\ mine \in Seq(Row) /\ entries \in Seq(HistoryEntry)
              /\ Len(entries) = Len(mine) /\ DOMAIN entries = 1 .. Len(mine)
              /\ \A k \in 1 .. Len(mine) :
                   /\ entries[k].service = mine[k].service
                   /\ entries[k].digest = mine[k].digest
                   /\ entries[k].revision = mine[k].revision
<1> DEFINE mine == NewestFirst(history, e)
           n == Len(mine)
           entries == ActivityMessage(e, MaxRows)
<1>1. history \in Seq(Row) /\ Len(history) \in Nat /\ Len(history) <= MaxRows
  BY DEF IInv, StateOK
<1>2. mine \in Seq(Row) /\ Len(mine) <= Len(history)
  BY <1>1, ListedRows
<1> HIDE DEF mine
<1>3. n \in Nat /\ n <= MaxRows
  BY <1>1, <1>2
<1>4. Min({MaxRows, n}) = n
  <2> HIDE DEF n
  <2>1. MaxRows \in Nat
    OBVIOUS
  <2>2. Min({MaxRows, n}) \in {MaxRows, n} /\ Min({MaxRows, n}) <= n
    BY <1>3, <2>1, MinOfTwo
  <2> QED BY <1>3, <2>1, <2>2
<1>5. Activity(e, MaxRows) = SubSeq(mine, 1, n)
  BY <1>4 DEF Activity, mine
<1>6. SubSeq(mine, 1, n) = mine
  BY <1>2, <1>3
<1>7. entries = [k \in 1 .. n |-> [mine[k] EXCEPT !.action = Actions[@]]]
  <2>1. DOMAIN mine = 1 .. n
    BY <1>2
  <2> QED BY <1>5, <1>6, <2>1 DEF ActivityMessage
<1>8. Actions \in [{"apply", "rollback"} -> {"ACTION_APPLY", "ACTION_ROLLBACK"}]
  BY DEF Actions
<1> HIDE DEF entries, n
<1>9. ASSUME NEW k \in 1 .. n
      PROVE  /\ entries[k] \in HistoryEntry
             /\ entries[k].service = mine[k].service
             /\ entries[k].digest = mine[k].digest
             /\ entries[k].revision = mine[k].revision
  <2>1. PICK row \in Row : row = mine[k]
    BY <1>2, <1>3 DEF n
  <2>2. entries[k] = [row EXCEPT !.action = Actions[@]]
    BY <1>7, <2>1
  <2>3. row \in [action : {"apply", "rollback"}, env : Envs, service : Services,
                 digest : Digests \cup {None}, revision : 0 .. MaxRevisions]
    BY DEF Row, Digests
  <2> DEFINE X == {"apply", "rollback"}
             Y == {"ACTION_APPLY", "ACTION_ROLLBACK"}
             D == Digests \cup {None}
             R == 0 .. MaxRevisions
  <2>4. row \in [action : X, env : Envs, service : Services, digest : D, revision : R]
    BY <2>3
  <2>5. HistoryEntry = [action : Y, env : Envs, service : Services, digest : D, revision : R]
    BY DEF HistoryEntry
  <2>6. Actions \in [X -> Y]
    BY <1>8
  <2> HIDE DEF X, Y, D, R
  <2>7. LET entry == [row EXCEPT !.action = Actions[@]]
        IN /\ entry \in [action : Y, env : Envs, service : Services, digest : D, revision : R]
           /\ entry.service = row.service /\ entry.digest = row.digest
           /\ entry.revision = row.revision
    BY <2>4, <2>6
  <2> QED BY <2>1, <2>2, <2>5, <2>7
<1>10. entries \in Seq(HistoryEntry) /\ Len(entries) = n /\ DOMAIN entries = 1 .. n
  <2>1. entries \in [1 .. n -> HistoryEntry]
    BY <1>7, <1>9
  <2> QED BY <1>3, <2>1
<1> QED BY <1>2, <1>9, <1>10 DEF mine, n, entries

LEMMA TypesFollow == IInv => TypeOK
<1> SUFFICES ASSUME IInv PROVE TypeOK
  OBVIOUS
<1>1. ASSUME NEW e \in Envs PROVE InventoryMessage(e) \subseteq InventoryItem
  <2>1. \A name \in Names : MessageOf(e, name) \in InventoryItem
    BY MessageFields DEF MessageSays
  <2>2. ListServices(e) \cup DOMAIN Managed(e) \subseteq Names
    BY DEF ListServices, Managed, Names
  <2> QED BY <2>1, <2>2, InventoryMessages
<1>2. ASSUME NEW e \in Envs PROVE ActivityMessage(e, MaxRows) \in Seq(HistoryEntry)
  BY ActivityFields
<1>3. ASSUME NEW e \in Envs, NEW s \in Services
      PROVE  /\ StatusMessage(e, s) \in ServiceStatus
             /\ TimelineMessage(e, s, 0) \in Seq(TimelineEntry) \cup {None}
  <2>1. PICK p \in Places : p = Place(e, s)
    BY PlaceType
  <2>2. StatusMessage(e, s) \in ServiceStatus
    BY <2>1, StatusFields DEF StatusSays
  <2>3. CASE Exists(p)
    <3>1. 0 \in Nat
      OBVIOUS
    <3>2. PICK l : l = IF 0 = 0 THEN DefaultLimit ELSE 0
      OBVIOUS
    <3>3. EntriesSay(TimelineMessage(e, s, 0), e, s, p, l)
      BY <2>1, <2>3, <3>1, <3>2, EntryFields
    <3>4. TimelineMessage(e, s, 0) \in Seq(TimelineEntry)
      BY <3>3 DEF EntriesSay
    <3> QED BY <2>2, <3>4
  <2>4. CASE ~ Exists(p)
    <3>1. TimelineMessage(e, s, 0) = None
      BY <2>1, <2>4 DEF TimelineMessage
    <3> QED BY <2>2, <3>1
  <2> QED BY <2>3, <2>4
<1> QED BY <1>1, <1>2, <1>3 DEF TypeOK, IInv, StateOK

\* For every value of the constants, the state and the answers of the server
\* have their types (wataridori.proto, convert.go): every state of a row has
\* its name in the interface, a percentage is one, and an entry of a timeline
\* names a revision.
THEOREM TypeCorrect == Spec => []TypeOK
BY Invariance, TypesFollow, PTL

(***************************************************************************)
(* The views.                                                              *)
(***************************************************************************)
\* What ViewsAgree asks of the item and the Status row of a manifest.
Agree(item, row, s) ==
    /\ item.managed /\ item.manifest = s
    /\ item.desired = row.desired /\ item.actual = row.actual
    /\ item.revision = row.revision /\ item.ready = row.ready
    /\ item.state = "INVENTORY_STATE_IN_SYNC" <=> row.state = "SYNC_STATE_IN_SYNC"
    /\ item.state = "INVENTORY_STATE_NOT_DEPLOYED" <=> row.state = "SYNC_STATE_NOT_DEPLOYED"

LEMMA RowsAgree ==
    ASSUME IInv, NEW e \in Envs, NEW s \in Services
    PROVE  Agree(MessageOf(e, RunName[e][s]), StatusMessage(e, s), s)
<1>1. PICK name \in Names : name = RunName[e][s]
  BY RunsNamed
<1>2. PICK p \in Places : p = Place(e, s) /\ p = <<Project[e], name>>
  BY <1>1, PlaceType DEF Place
<1>3. PICK row : row = StatusMessage(e, s)
  OBVIOUS
<1>4. PICK item : item = ItemOf(e, name)
  OBVIOUS
<1>5. PICK message : message = MessageOf(e, name)
  OBVIOUS
<1>6. name \in DOMAIN Managed(e)
  BY <1>1 DEF Managed
<1>7. PICK d : d = Deployed(p)
  OBVIOUS
<1> DEFINE state == Comparison(DigestOf(d.image), Digest[desired[e][s]])
<1>8. /\ message.service = name /\ message.managed
      /\ message.manifest = s /\ message.desired = Digest[desired[e][s]]
      /\ Exists(p) => /\ message.actual = DigestOf(d.image)
                      /\ message.revision = d.revision /\ message.ready = d.ready
                      /\ message.state = InventoryStates[state]
      /\ ~ Exists(p) => /\ message.actual = None /\ message.revision = 0
                        /\ message.ready = FALSE
                        /\ message.state = InventoryStates["NotDeployed"]
  <2>1. /\ item.service = name
        /\ item.managed <=> name \in DOMAIN Managed(e)
        /\ Exists(p) => /\ item.actual = DigestOf(d.image)
                        /\ item.revision = d.revision /\ item.ready = d.ready
        /\ item.manifest = s
        /\ item.desired = Digest[desired[e][s]]
        /\ Exists(p) => item.state = state
        /\ ~ Exists(p) => /\ item.actual = None /\ item.revision = 0
                          /\ item.ready = FALSE /\ item.state = "NotDeployed"
    <3>1. ItemSays(item, e, name, p)
      BY <1>2, <1>4, ItemFields
    <3> QED BY <1>1, <1>7, <3>1 DEF ItemSays
  <2>2. /\ message.service = item.service
        /\ message.managed <=> item.managed
        /\ message.manifest = item.manifest /\ message.desired = item.desired
        /\ message.actual = item.actual
        /\ message.revision = item.revision /\ message.ready = item.ready
        /\ message.state = InventoryStates[item.state]
    <3>1. MessageSays(message, item)
      BY <1>4, <1>5, MessageFields
    <3> QED BY <3>1 DEF MessageSays
  <2> HIDE DEF state
  <2> QED BY <1>6, <2>1, <2>2
<1>9. /\ row.runName = name /\ row.desired = Digest[desired[e][s]]
      /\ Exists(p) => /\ row.actual = DigestOf(d.image) /\ row.revision = d.revision
                      /\ row.ready = d.ready /\ row.state = SyncStates[state]
      /\ ~ Exists(p) => /\ row.actual = None /\ row.revision = 0
                        /\ row.ready = FALSE /\ row.state = "SYNC_STATE_NOT_DEPLOYED"
  <2>1. StatusSays(row, e, s, p)
    BY <1>2, <1>3, StatusFields
  <2> QED BY <1>1, <1>7, <2>1 DEF StatusSays
<1>10. state \in {"InSync", "Drift"}
  BY DEF Comparison
<1> HIDE DEF state
<1>11. CASE Exists(p)
  <2>1. /\ message.state = "INVENTORY_STATE_IN_SYNC" <=> row.state = "SYNC_STATE_IN_SYNC"
        /\ message.state = "INVENTORY_STATE_NOT_DEPLOYED"
             <=> row.state = "SYNC_STATE_NOT_DEPLOYED"
    BY <1>8, <1>9, <1>10, <1>11, StateNames
  <2> QED BY <1>1, <1>3, <1>5, <1>8, <1>9, <1>11, <2>1 DEF Agree
<1>12. CASE ~ Exists(p)
  <2>1. /\ message.state = "INVENTORY_STATE_NOT_DEPLOYED"
        /\ row.state = "SYNC_STATE_NOT_DEPLOYED"
    BY <1>8, <1>9, <1>12, StateNames
  <2> QED BY <1>1, <1>3, <1>5, <1>8, <1>9, <1>12, <2>1 DEF Agree
<1> QED BY <1>11, <1>12

LEMMA ViewsFollow == IInv => ViewsAgree
<1> SUFFICES ASSUME IInv, NEW e \in Envs
             PROVE  /\ \A s \in Services :
                         LET mine == {item \in InventoryMessage(e) :
                                          item.service = StatusMessage(e, s).runName}
                         IN /\ Cardinality(mine) = 1
                            /\ \A item \in mine : Agree(item, StatusMessage(e, s), s)
                    /\ \A item \in InventoryMessage(e) :
                         item.managed <=> \E s \in Services : RunName[e][s] = item.service
  BY DEF ViewsAgree, Agree
<1> DEFINE names == ListServices(e) \cup DOMAIN Managed(e)
<1>1. InventoryMessage(e) = {MessageOf(e, name) : name \in names}
  BY InventoryMessages
<1>2. names \subseteq Names
  BY DEF ListServices, Managed, Names
<1>3. \A name \in Names :
        /\ MessageOf(e, name).service = name
        /\ MessageOf(e, name).managed <=> name \in DOMAIN Managed(e)
  <2> SUFFICES ASSUME NEW name \in Names
               PROVE  /\ MessageOf(e, name).service = name
                      /\ MessageOf(e, name).managed <=> name \in DOMAIN Managed(e)
    OBVIOUS
  <2>1. PICK p : p = <<Project[e], name>>
    OBVIOUS
  <2>2. /\ ItemOf(e, name).service = name
        /\ ItemOf(e, name).managed <=> name \in DOMAIN Managed(e)
    <3>1. ItemSays(ItemOf(e, name), e, name, p)
      BY <2>1, ItemFields
    <3> QED BY <3>1 DEF ItemSays
  <2>3. /\ MessageOf(e, name).service = ItemOf(e, name).service
        /\ MessageOf(e, name).managed <=> ItemOf(e, name).managed
    <3>1. MessageSays(MessageOf(e, name), ItemOf(e, name))
      BY MessageFields
    <3> QED BY <3>1 DEF MessageSays
  <2> QED BY <2>2, <2>3
<1>4. ASSUME NEW item \in InventoryMessage(e)
      PROVE  item.managed <=> \E s \in Services : RunName[e][s] = item.service
  <2>1. PICK name \in Names : item = MessageOf(e, name)
    BY <1>1, <1>2
  <2>2. name \in DOMAIN Managed(e) <=> \E s \in Services : RunName[e][s] = name
    BY DEF Managed
  <2> QED BY <1>3, <2>1, <2>2
<1>5. ASSUME NEW s \in Services
      PROVE  LET row == StatusMessage(e, s)
             IN {item \in InventoryMessage(e) : item.service = row.runName}
                  = {MessageOf(e, RunName[e][s])}
  <2>1. StatusMessage(e, s).runName = RunName[e][s]
    <3>1. PICK p : p = Place(e, s)
      OBVIOUS
    <3>2. StatusSays(StatusMessage(e, s), e, s, p)
      BY <3>1, StatusFields
    <3> QED BY <3>2 DEF StatusSays
  <2>2. RunName[e][s] \in names /\ RunName[e][s] \in Names
    BY DEF Managed, Names
  <2> HIDE DEF names
  <2> QED BY <1>1, <1>2, <1>3, <2>1, <2>2
<1> HIDE DEF names
<1>6. ASSUME NEW s \in Services
      PROVE  LET mine == {item \in InventoryMessage(e) :
                              item.service = StatusMessage(e, s).runName}
             IN /\ Cardinality(mine) = 1
                /\ \A item \in mine : Agree(item, StatusMessage(e, s), s)
  <2>1. Cardinality({MessageOf(e, RunName[e][s])}) = 1
    BY FS_Singleton
  <2>2. Agree(MessageOf(e, RunName[e][s]), StatusMessage(e, s), s)
    BY RowsAgree
  <2> QED BY <1>5, <2>1, <2>2
<1> QED BY <1>4, <1>6

\* For every value of the constants, Inventory and Status agree: every manifest
\* has one item, which says what its Status row says, and what is listed without
\* a manifest is nothing the environment's manifests name.
THEOREM OneItemPerManifest == Spec => []ViewsAgree
BY Invariance, ViewsFollow, PTL

LEMMA OnlyOne ==
    ASSUME NEW n \in Nat, NEW i \in 0 .. n
    PROVE  Max({i}) = i /\ Min({i}) = i
<1>1. {i} \in SUBSET (0 .. n) /\ {i} # {}
  OBVIOUS
<1>2. Max({i}) \in {i}
  BY <1>1, MaxExists
<1>3. Min({i}) \in {i}
  BY <1>1, MinExists
<1> QED BY <1>2, <1>3

\* What clearly serves has one target, the largest.
LEMMA ClearServes ==
    ASSUME IInv, NEW p \in Places, NEW r \in DOMAIN revisions[p], ClearlyServes(p, r)
    PROVE  Serving(p) = r
<1> DEFINE split == traffic[p]
           n == Len(split)
           at(i) == Resolve(p, split[i].revision)
           largest == {i \in DOMAIN split :
                          \A j \in DOMAIN split : split[j].percent <= split[i].percent}
<1>1. n \in Nat /\ DOMAIN split = 1 .. n /\ split \in Seq(Target)
  BY Numbered
<1>2. \A i \in 1 .. n : split[i].percent \in Nat
  <2>1. \A i \in 1 .. n : split[i] \in Target
    BY <1>1
  <2>2. \A i \in 1 .. n : split[i].percent \in 1 .. 100
    BY <2>1 DEF Target
  <2>3. 1 .. 100 \subseteq Nat
    OBVIOUS
  <2> HIDE DEF n, split
  <2> QED BY <2>2, <2>3
<1>3. r \in Nat \ {0} /\ DOMAIN revisions[p] = 1 .. Len(revisions[p])
  BY Numbered
<1>4. \A q : /\ Part(p, q) \in Seq(Nat) /\ Len(Part(p, q)) = n
             /\ TrafficByRevision(p, q) = Total(Part(p, q))
             /\ TrafficByRevision(p, q) \in 0 .. 100
  BY Parts
<1>5. \A q, i : i \in 1 .. n => Part(p, q)[i] = IF at(i) = q THEN split[i].percent ELSE 0
  BY <1>1 DEF Part
<1>6. /\ TrafficByRevision(p, r) > 0
      /\ \A q \in DOMAIN revisions[p] \ {r} :
           TrafficByRevision(p, q) < TrafficByRevision(p, r)
      /\ \A i, j \in 1 .. n : at(i) = at(j) => i = j
  BY <1>1 DEF ClearlyServes
<1> HIDE DEF split, n, at
<1>7. PICK i \in 1 .. n : at(i) = r
  <2> SUFFICES ASSUME \A i \in 1 .. n : at(i) # r PROVE FALSE
    OBVIOUS
  <2>1. \A i \in 1 .. n : Part(p, r)[i] = 0
    BY <1>5
  <2>2. Total(Part(p, r)) = 0
    BY <1>4, <2>1, TotalOfNone
  <2> QED BY <1>4, <1>6, <2>2
<1>8. TrafficByRevision(p, r) = split[i].percent
  <2>1. \A j \in 1 .. n : j # i => Part(p, r)[j] = 0
    BY <1>5, <1>6, <1>7
  <2>2. Total(Part(p, r)) = Part(p, r)[i]
    BY <1>4, <2>1, TotalOfOne
  <2> QED BY <1>4, <1>5, <1>7, <2>2
<1>9. \A j \in 1 .. n : at(j) \in DOMAIN revisions[p]
  <2>1. \A j \in 1 .. n : split[j].revision \in {0} \cup Ready(p)
    BY <1>1, TargetsReady DEF split
  <2>2. LatestReady(p) \in {0} \cup Ready(p) /\ (LatestReady(p) = 0 <=> Ready(p) = {})
    BY ServingReady
  <2>3. Ready(p) # {}
    BY <1>3, <1>7, <2>1, <2>2 DEF at, Resolve
  <2>4. Ready(p) \subseteq DOMAIN revisions[p]
    BY DEF Ready
  <2> QED BY <2>1, <2>2, <2>3, <2>4 DEF at, Resolve
<1>10. ASSUME NEW j \in 1 .. n, j # i
       PROVE  split[j].percent < split[i].percent
  <2>1. PICK q \in DOMAIN revisions[p] \ {r} : q = at(j)
    BY <1>6, <1>7, <1>9, <1>10
  <2>2. Part(p, q)[j] = split[j].percent
    BY <1>5, <2>1
  <2>3. Part(p, q)[j] <= Total(Part(p, q))
    BY <1>4, TotalBounds
  <2>4. TrafficByRevision(p, q) < split[i].percent
    BY <1>6, <1>8
  <2>5. TrafficByRevision(p, q) = Total(Part(p, q)) /\ TrafficByRevision(p, q) \in 0 .. 100
    BY <1>4
  <2> QED BY <1>2, <2>2, <2>3, <2>4, <2>5
<1>11. largest = {i}
  <2>1. i \in largest
    BY <1>1, <1>2, <1>10
  <2>2. \A j \in largest : j = i
    BY <1>1, <1>2, <1>10
  <2> HIDE DEF largest
  <2> QED BY <2>1, <2>2
<1>12. Max({i}) = i
  <2>1. i \in 0 .. n
    BY <1>1
  <2> QED BY <1>1, <2>1, OnlyOne
<1>13. split # <<>>
  BY <1>1, <1>7 DEF n
<1>14. Serving(p) = Resolve(p, split[Max(largest)].revision)
  BY <1>13 DEF Serving, split
<1> HIDE DEF largest
<1> QED BY <1>7, <1>11, <1>12, <1>14 DEF at

LEMMA DriftFollows == IInv => DriftExplained
<1> SUFFICES ASSUME IInv, NEW e \in Envs, NEW s \in Services, NEW p \in {Place(e, s)},
                    NEW r \in DOMAIN revisions[p], ClearlyServes(p, r)
             PROVE  /\ StatusMessage(e, s).revision = r
                    /\ \A limit \in 0 .. MaxRevisions :
                         LET entries == TimelineMessage(e, s, limit) IN
                         Len(entries) > Len(revisions[p]) - r =>
                         \A k \in DOMAIN entries :
                           /\ entries[k].current <=> entries[k].revision = r
                           /\ entries[k].current =>
                                (entries[k].desired
                                   <=> StatusMessage(e, s).state = "SYNC_STATE_IN_SYNC")
  BY DEF DriftExplained
<1> DEFINE n == Len(revisions[p])
<1>1. p \in Places /\ p = Place(e, s)
  BY PlaceType
<1>2. n \in Nat /\ r \in 1 .. n /\ r # 0
  BY <1>1, Numbered
<1>3. Exists(p)
  BY <1>2 DEF Exists
<1>4. Deployed(p).revision = r /\ Deployed(p).image = revisions[p][r].image
  <2>1. Serving(p) = r
    BY <1>1, ClearServes
  <2> QED BY <1>1, <1>2, <2>1, DeployedType DEF ImageOf
<1> DEFINE insync == DigestOf(revisions[p][r].image) = Digest[desired[e][s]]
<1>5. /\ StatusMessage(e, s).revision = r
      /\ StatusMessage(e, s).state = "SYNC_STATE_IN_SYNC" <=> insync
  <2>1. StatusSays(StatusMessage(e, s), e, s, p)
    BY <1>1, StatusFields
  <2>2. /\ StatusMessage(e, s).revision = r
        /\ StatusMessage(e, s).state =
             SyncStates[Comparison(DigestOf(revisions[p][r].image), Digest[desired[e][s]])]
    BY <1>3, <1>4, <2>1 DEF StatusSays
  <2>3. Comparison(DigestOf(revisions[p][r].image), Digest[desired[e][s]]) =
          IF insync THEN "InSync" ELSE "Drift"
    BY DEF Comparison
  <2> HIDE DEF insync
  <2> QED BY <2>2, <2>3, StateNames
<1> HIDE DEF insync
<1>6. ASSUME NEW limit \in 0 .. MaxRevisions, Len(TimelineMessage(e, s, limit)) > n - r
      PROVE  \A k \in DOMAIN TimelineMessage(e, s, limit) :
               LET entry == TimelineMessage(e, s, limit)[k]
               IN /\ entry.current <=> entry.revision = r
                  /\ entry.current => (entry.desired <=> insync)
  <2>1. limit \in Nat
    OBVIOUS
  <2>2. PICK l \in Nat : l = IF limit = 0 THEN DefaultLimit ELSE limit
    BY <2>1
  <2>3. PICK m : m = Min({l, n})
    OBVIOUS
  <2>4. PICK rows : rows = TimelineRows(p, l)
    OBVIOUS
  <2> DEFINE entries == TimelineMessage(e, s, limit)
  <2>5. /\ Len(entries) = m /\ DOMAIN entries = 1 .. m /\ m \in 0 .. n
        /\ \A k \in 1 .. m :
             /\ entries[k].revision = n + 1 - k
             /\ entries[k].current <=> n + 1 - k = CurrentRevision(rows)
             /\ entries[k].desired <=>
                  DigestOf(revisions[p][n + 1 - k].image) = Digest[desired[e][s]]
    <3>1. EntriesSay(entries, e, s, p, l)
      BY <1>1, <1>3, <2>1, <2>2, EntryFields
    <3> HIDE DEF entries
    <3> QED BY <2>3, <2>4, <3>1 DEF EntriesSay
  <2>6. /\ DOMAIN rows = 1 .. m
        /\ \A k \in 1 .. m : /\ n + 1 - k \in 1 .. n
                             /\ rows[k].revision = n + 1 - k
                             /\ rows[k].percent = TrafficByRevision(p, n + 1 - k)
    <3>1. RowsSay(rows, p, l)
      BY <1>1, <2>2, <2>4, RowsFields
    <3> QED BY <2>3, <3>1 DEF RowsSay
  <2>7. CurrentRevision(rows) = r
    <3> DEFINE served == {k \in DOMAIN rows : rows[k].percent > 0}
               largest == {k \in served : \A j \in served : rows[j].percent <= rows[k].percent}
               at == n + 1 - r
    <3>1. at \in 1 .. m /\ n + 1 - at = r
      <4>1. m > n - r
        BY <1>6, <2>5
      <4>2. m \in Nat /\ n \in Nat /\ r \in 1 .. n
        BY <1>2, <2>5
      <4> HIDE DEF entries, n
      <4> QED BY <4>1, <4>2
    <3> HIDE DEF at
    <3>2. rows[at].percent = TrafficByRevision(p, r) /\ rows[at].revision = r
      BY <2>6, <3>1
    <3>3. TrafficByRevision(p, r) > 0 /\ TrafficByRevision(p, r) \in 0 .. 100
      BY <1>1, Parts DEF ClearlyServes
    <3>4. ASSUME NEW k \in 1 .. m, k # at
          PROVE  /\ rows[k].percent <= rows[at].percent
                 /\ ~(rows[at].percent <= rows[k].percent)
      <4>1. PICK q \in DOMAIN revisions[p] \ {r} : q = n + 1 - k
        <5>1. n + 1 - k \in 1 .. n
          BY <2>6
        <5>2. n + 1 - k # r
          <6>1. k \in Nat /\ m \in Nat /\ at \in Nat
            BY <2>5, <3>1
          <6> HIDE DEF entries, n
          <6> QED BY <1>2, <3>1, <3>4, <6>1
        <5>3. DOMAIN revisions[p] = 1 .. n
          BY <1>1, Numbered
        <5> HIDE DEF n
        <5> QED BY <5>1, <5>2, <5>3
      <4>2. TrafficByRevision(p, q) < TrafficByRevision(p, r)
        BY DEF ClearlyServes
      <4>3. TrafficByRevision(p, q) \in 0 .. 100
        BY <1>1, Parts
      <4>4. rows[k].percent = TrafficByRevision(p, q)
        BY <2>6, <4>1
      <4> QED BY <3>2, <3>3, <4>2, <4>3, <4>4
    <3>5. at \in served
      BY <2>6, <3>1, <3>2, <3>3
    <3>6. largest = {at}
      <4>1. \A k \in served : rows[k].percent <= rows[at].percent
        <5> SUFFICES ASSUME NEW k \in served
                     PROVE  rows[k].percent <= rows[at].percent
          OBVIOUS
        <5>1. k \in 1 .. m
          BY <2>6
        <5>2. rows[at].percent \in 0 .. 100
          BY <3>2, <3>3
        <5>3. CASE k = at
          BY <5>2, <5>3
        <5>4. CASE k # at
          BY <3>4, <5>1, <5>4
        <5> QED BY <5>3, <5>4
      <4>2. \A k \in largest : k = at
        <5> SUFFICES ASSUME NEW k \in largest, k # at
                     PROVE  FALSE
          OBVIOUS
        <5>1. k \in 1 .. m /\ rows[at].percent <= rows[k].percent
          BY <2>6, <3>5
        <5> HIDE DEF largest, served
        <5> QED BY <3>4, <5>1
      <4>3. at \in largest
        <5> HIDE DEF served
        <5> QED BY <3>5, <4>1
      <4> HIDE DEF largest
      <4> QED BY <4>2, <4>3
    <3>7. Min({at}) = at
      <4>1. at \in 0 .. n
        BY <2>5, <3>1
      <4> QED BY <1>2, <4>1, OnlyOne
    <3>8. CurrentRevision(rows) = IF served = {} THEN 0 ELSE rows[Min(largest)].revision
      BY DEF CurrentRevision
    <3> HIDE DEF served, largest
    <3> QED BY <3>2, <3>5, <3>6, <3>7, <3>8
  <2> HIDE DEF entries, n
  <2>8. ASSUME NEW k \in 1 .. m
        PROVE  /\ entries[k].current <=> entries[k].revision = r
               /\ entries[k].current => (entries[k].desired <=> insync)
    BY <2>5, <2>7 DEF insync
  <2> QED BY <2>5, <2>8 DEF entries
<1> QED BY <1>5, <1>6

\* For every value of the constants, the revision that clearly serves is the
\* one Status names, and unless the limit has cut it off it is the one entry of
\* the timeline marked current, which is marked desired exactly when Status
\* says in sync.
THEOREM DriftIsExplained == Spec => []DriftExplained
BY Invariance, DriftFollows, PTL
=============================================================================
