--------------------------- MODULE SubsequenceProofs ---------------------------
(***************************************************************************)
(* What Keep leaves of a sequence: theorems for every sequence and every   *)
(* set of positions.                                                       *)
(***************************************************************************)
EXTENDS Subsequence, TLAPS, FiniteSetTheorems, SequenceTheorems,
        WellFoundedInduction

UpTo(K, n) == {j \in K : j <= n}

LEMMA Counted ==
  ASSUME NEW n \in Nat
  PROVE  IsFiniteSet(1 .. n) /\ Cardinality(1 .. n) = n
BY FS_Interval

LEMMA UpToFinite ==
  ASSUME NEW K \in SUBSET Int, IsFiniteSet(K), NEW k \in Int
  PROVE  /\ Cardinality(K) \in Nat
         /\ IsFiniteSet(UpTo(K, k)) /\ Cardinality(UpTo(K, k)) \in Nat
         /\ Cardinality(UpTo(K, k)) <= Cardinality(K)
<1>1. UpTo(K, k) \in SUBSET K
  BY DEF UpTo
<1> QED BY <1>1, FS_Subset, FS_CardinalityType

\* Between two positions of K their number grows.
LEMMA UpToGrows ==
  ASSUME NEW K \in SUBSET Int, IsFiniteSet(K),
         NEW k \in Int, NEW l \in K, k < l
  PROVE  Cardinality(UpTo(K, k)) < Cardinality(UpTo(K, l))
<1>0. l \in Int /\ \A j \in K : j \in Int
  OBVIOUS
<1>1. /\ UpTo(K, k) \subseteq UpTo(K, l)
      /\ l \in UpTo(K, l) /\ l \notin UpTo(K, k)
  <2>1. \A j \in K : j <= k => j <= l
    BY <1>0
  <2>2. l <= l /\ ~(l <= k)
    BY <1>0
  <2> QED BY <2>1, <2>2 DEF UpTo
<1>2. /\ IsFiniteSet(UpTo(K, l)) /\ Cardinality(UpTo(K, l)) \in Nat
      /\ Cardinality(UpTo(K, k)) \in Nat
  BY <1>0, UpToFinite
<1>3. Cardinality(UpTo(K, k)) <= Cardinality(UpTo(K, l))
  BY <1>1, <1>2, FS_Subset
<1>4. Cardinality(UpTo(K, k)) # Cardinality(UpTo(K, l))
  BY <1>1, <1>2, FS_Subset
<1> QED BY <1>2, <1>3, <1>4

LEMMA PositionsFinite ==
  ASSUME NEW n \in Nat, NEW K \in SUBSET (1 .. n)
  PROVE  /\ K \in SUBSET Int /\ IsFiniteSet(K)
         /\ Cardinality(K) \in Nat /\ Cardinality(K) <= n
<1>1. IsFiniteSet(1 .. n) /\ Cardinality(1 .. n) = n
  BY FS_Interval
<1>2. IsFiniteSet(K) /\ Cardinality(K) <= n
  BY <1>1, FS_Subset
<1>3. K \in SUBSET Int
  OBVIOUS
<1> QED BY <1>2, <1>3, FS_CardinalityType

LEMMA LeastNumber ==
  ASSUME NEW M \in SUBSET Nat, M # {}
  PROVE  \E m \in M : \A y \in M : ~(y < m)
<1>1. PICK m \in M : \A y \in M : ~(<<y, m>> \in OpToRel(<, Nat))
  BY NatLessThanWellFounded, WFMin
<1> QED BY <1>1 DEF OpToRel

\* Every number up to that of K is that of the positions up to one of them:
\* the least position up to which there are that many.
LEMMA NthExists ==
  ASSUME NEW n \in Nat, NEW K \in SUBSET (1 .. n), NEW a \in 1 .. Cardinality(K)
  PROVE  \E k \in K : Cardinality(UpTo(K, k)) = a
<1> DEFINE M == {m \in Nat : Cardinality(UpTo(K, m)) >= a}
<1>0. /\ K \in SUBSET Int /\ IsFiniteSet(K)
      /\ \A k \in K : 1 <= k /\ k <= n
      /\ Cardinality(K) \in Nat /\ a \in Nat /\ 1 <= a /\ a <= Cardinality(K)
  BY PositionsFinite
<1>1. \A m \in Int : /\ IsFiniteSet(UpTo(K, m))
                     /\ Cardinality(UpTo(K, m)) \in Nat
  BY <1>0, UpToFinite
<1>2. UpTo(K, n) = K
  BY <1>0 DEF UpTo
<1>3. M \in SUBSET Nat /\ n \in M
  BY <1>0, <1>2
<1>4. PICK m \in M : \A y \in M : ~(y < m)
  BY <1>3, LeastNumber
<1>5. m \in Nat /\ Cardinality(UpTo(K, m)) >= a
  BY <1>4
<1>6. m # 0
  <2>1. UpTo(K, 0) = {}
    <3>1. \A j \in K : ~(j <= 0)
      BY <1>0
    <3> QED BY <3>1 DEF UpTo
  <2>2. Cardinality(UpTo(K, 0)) = 0
    BY <2>1, FS_EmptySet
  <2> QED BY <1>0, <1>5, <2>2
<1> DEFINE p == m - 1
<1>7. p \in Nat /\ ~(Cardinality(UpTo(K, p)) >= a)
  <2>1. p \in Nat /\ p < m
    BY <1>5, <1>6
  <2>2. p \notin M
    BY <1>4, <2>1
  <2> QED BY <2>1, <2>2
<1>8. \A j \in K : j <= m <=> j <= p \/ j = m
  BY <1>0, <1>5
<1> HIDE DEF p, M
<1>9. m \in K
  <2>1. CASE m \notin K
    <3>1. UpTo(K, m) = UpTo(K, p)
      BY <1>8, <2>1 DEF UpTo
    <3> QED BY <1>5, <1>7, <3>1
  <2> QED BY <2>1
<1>10. UpTo(K, m) = UpTo(K, p) \cup {m}
  BY <1>8, <1>9 DEF UpTo
<1>11. m \notin UpTo(K, p)
  BY <1>5 DEF UpTo, p
<1>12. IsFiniteSet(UpTo(K, p)) /\ Cardinality(UpTo(K, p)) \in Nat
  BY <1>1, <1>7
<1>13. Cardinality(UpTo(K, m)) = Cardinality(UpTo(K, p)) + 1
  BY <1>10, <1>11, <1>12, FS_AddElement
<1>14. Cardinality(UpTo(K, m)) = a
  BY <1>0, <1>5, <1>7, <1>12, <1>13
<1> QED BY <1>9, <1>14

LEMMA NthIs ==
  ASSUME NEW n \in Nat, NEW K \in SUBSET (1 .. n)
  PROVE  /\ \A a \in 1 .. Cardinality(K) :
              Nth(K, a) \in K /\ Cardinality(UpTo(K, Nth(K, a))) = a
         /\ \A a, b \in 1 .. Cardinality(K) : a < b => Nth(K, a) < Nth(K, b)
         /\ \A k \in K : \E a \in 1 .. Cardinality(K) : Nth(K, a) = k
<1>1. \A a \in 1 .. Cardinality(K) :
        Nth(K, a) \in K /\ Cardinality(UpTo(K, Nth(K, a))) = a
  BY NthExists, SMTT(30) DEF Nth, UpTo
<1>2. K \in SUBSET Int /\ IsFiniteSet(K) /\ Cardinality(K) \in Nat
  BY PositionsFinite
<1>3. \A k, l \in K : k < l => Cardinality(UpTo(K, k)) < Cardinality(UpTo(K, l))
  BY <1>2, UpToGrows
<1>4. ASSUME NEW a \in 1 .. Cardinality(K), NEW b \in 1 .. Cardinality(K), a < b
      PROVE  Nth(K, a) < Nth(K, b)
  <2> DEFINE x == Nth(K, a)
             y == Nth(K, b)
  <2>1. /\ x \in K /\ x \in Int /\ Cardinality(UpTo(K, x)) = a
        /\ y \in K /\ y \in Int /\ Cardinality(UpTo(K, y)) = b
    BY <1>1, <1>2
  <2>2. a \in Int /\ b \in Int
    BY <1>2
  <2> HIDE DEF x, y
  <2>3. ~(y < x)
    BY <1>3, <1>4, <2>1, <2>2
  <2>4. x # y
    BY <1>4, <2>1, <2>2
  <2>5. x < y
    BY <2>1, <2>3, <2>4
  <2> QED BY <2>5 DEF x, y
<1>5. ASSUME NEW k \in K
      PROVE  \E a \in 1 .. Cardinality(K) : Nth(K, a) = k
  <2> DEFINE a == Cardinality(UpTo(K, k))
             x == Nth(K, a)
  <2>0. k \in Int
    BY <1>2
  <2>1. a \in 1 .. Cardinality(K)
    <3>1. k \in UpTo(K, k)
      BY <2>0 DEF UpTo
    <3>2. IsFiniteSet(UpTo(K, k)) /\ a \in Nat /\ a <= Cardinality(K)
      BY <1>2, <2>0, UpToFinite
    <3>3. a # 0
      BY <3>1, <3>2, FS_EmptySet
    <3> QED BY <1>2, <3>2, <3>3
  <2>2. x \in K /\ x \in Int /\ Cardinality(UpTo(K, x)) = a
    BY <1>1, <1>2, <2>1
  <2>3. a \in Int
    BY <1>2, <2>1
  <2> HIDE DEF x, a
  <2>4. Cardinality(UpTo(K, k)) = a
    BY DEF a
  <2>5. ~(x < k) /\ ~(k < x)
    BY <1>3, <2>2, <2>3, <2>4
  <2>6. x = k
    BY <2>0, <2>2, <2>5
  <2> QED BY <2>1, <2>6 DEF x
<1> QED BY <1>1, <1>4, <1>5

\* Keep leaves the elements at K, in their order.
LEMMA KeepIs ==
  ASSUME NEW T, NEW s \in Seq(T), NEW K \in SUBSET (DOMAIN s)
  PROVE  /\ Keep(s, K) \in Seq(T)
         /\ Len(Keep(s, K)) = Cardinality(K)
         /\ Len(Keep(s, K)) <= Len(s)
         /\ \A a \in DOMAIN Keep(s, K) :
              Nth(K, a) \in K /\ Keep(s, K)[a] = s[Nth(K, a)]
         /\ \A a, b \in DOMAIN Keep(s, K) : a < b => Nth(K, a) < Nth(K, b)
         /\ \A k \in K : \E a \in DOMAIN Keep(s, K) : Keep(s, K)[a] = s[k]
<1> DEFINE n == Len(s)
           r == Keep(s, K)
<1>1. n \in Nat /\ DOMAIN s = 1 .. n /\ \A k \in 1 .. n : s[k] \in T
  BY LenProperties, ElementOfSeq
<1>2. K \in SUBSET (1 .. n)
  BY <1>1
<1>3. Cardinality(K) \in Nat /\ Cardinality(K) <= n
  BY <1>1, <1>2, PositionsFinite
<1>4. /\ \A a \in 1 .. Cardinality(K) : Nth(K, a) \in K
      /\ \A a, b \in 1 .. Cardinality(K) : a < b => Nth(K, a) < Nth(K, b)
      /\ \A k \in K : \E a \in 1 .. Cardinality(K) : Nth(K, a) = k
  BY <1>1, <1>2, NthIs
<1>5. r = [a \in 1 .. Cardinality(K) |-> s[Nth(K, a)]]
  BY DEF Keep
<1> HIDE DEF r, n
<1>6. r \in [1 .. Cardinality(K) -> T]
  BY <1>1, <1>2, <1>4, <1>5
<1>7. r \in Seq(T) /\ Len(r) = Cardinality(K) /\ DOMAIN r = 1 .. Cardinality(K)
  BY <1>3, <1>6
<1>8. \A a \in DOMAIN r : Nth(K, a) \in K /\ r[a] = s[Nth(K, a)]
  BY <1>4, <1>5, <1>7
<1>9. \A k \in K : \E a \in DOMAIN r : r[a] = s[k]
  BY <1>4, <1>7, <1>8
<1> QED BY <1>3, <1>4, <1>7, <1>8, <1>9 DEF r, n

\* The number of positions up to one of them tells which it is.
LEMMA NthUnique ==
  ASSUME NEW K \in SUBSET Int, IsFiniteSet(K), NEW k \in K
  PROVE  Nth(K, Cardinality(UpTo(K, k))) = k
<1> DEFINE a == Cardinality(UpTo(K, k))
           x == Nth(K, a)
<1>1. \A i, j \in K : i < j => Cardinality(UpTo(K, i)) < Cardinality(UpTo(K, j))
  BY UpToGrows
<1>2. \A j \in K : j \in Int /\ Cardinality(UpTo(K, j)) \in Nat
  BY UpToFinite
<1>3. x \in K /\ Cardinality(UpTo(K, x)) = a
  BY DEF Nth, UpTo
<1> HIDE DEF x
<1>4. ~(x < k) /\ ~(k < x)
  BY <1>1, <1>2, <1>3
<1>5. x = k
  BY <1>2, <1>3, <1>4
<1> QED BY <1>5 DEF x

\* What the positions up to one of them are, if one more or one less is kept.
LEMMA UpToWithout ==
  ASSUME NEW K \in SUBSET Int, IsFiniteSet(K), NEW h \in K, NEW k \in Int
  PROVE  Cardinality(UpTo(K \ {h}, k))
           = IF h <= k THEN Cardinality(UpTo(K, k)) - 1
             ELSE Cardinality(UpTo(K, k))
<1>1. UpTo(K \ {h}, k) = UpTo(K, k) \ {h}
  BY DEF UpTo
<1>2. IsFiniteSet(UpTo(K, k)) /\ Cardinality(UpTo(K, k)) \in Nat
  BY UpToFinite
<1>3. h \in Int /\ (h \in UpTo(K, k) <=> h <= k)
  BY DEF UpTo
<1>4. CASE h <= k
  <2>1. h \in UpTo(K, k)
    BY <1>3, <1>4
  <2>2. Cardinality(UpTo(K, k) \ {h}) = Cardinality(UpTo(K, k)) - 1
    BY <1>2, <2>1, FS_RemoveElement
  <2> QED BY <1>1, <1>4, <2>2
<1>5. CASE ~(h <= k)
  <2>1. UpTo(K, k) \ {h} = UpTo(K, k)
    BY <1>3, <1>5
  <2> QED BY <1>1, <1>5, <2>1
<1> QED BY <1>4, <1>5

\* All of the positions.
LEMMA KeepAll ==
  ASSUME NEW T, NEW s \in Seq(T)
  PROVE  Keep(s, DOMAIN s) = s
<1> DEFINE n == Len(s)
           K == DOMAIN s
<1>1. n \in Nat /\ K = 1 .. n /\ \A k \in 1 .. n : s[k] \in T
  BY LenProperties, ElementOfSeq
<1>2. s = [k \in 1 .. n |-> s[k]]
  BY <1>1
<1>3. K \in SUBSET Int /\ IsFiniteSet(K) /\ Cardinality(K) = n
  <2>1. IsFiniteSet(1 .. n) /\ Cardinality(1 .. n) = n
    BY <1>1, Counted
  <2>2. 1 .. n \in SUBSET Int
    BY <1>1
  <2> QED BY <1>1, <2>1, <2>2
<1>4. ASSUME NEW k \in 1 .. n PROVE Nth(K, k) = k
  <2>1. k \in Int /\ 1 <= k /\ k <= n /\ k \in K
    BY <1>1
  <2>2. UpTo(K, k) = 1 .. k
    BY <1>1, <2>1 DEF UpTo
  <2>3. Cardinality(UpTo(K, k)) = k
    BY <2>1, <2>2, FS_Interval
  <2> HIDE DEF K
  <2> QED BY <1>3, <2>1, <2>3, NthUnique
<1>5. Keep(s, K) = [k \in 1 .. n |-> s[k]]
  BY <1>3, <1>4 DEF Keep
<1> QED BY <1>2, <1>5

\* The positions of a longer sequence, with or without its last element.
LEMMA KeepMore ==
  ASSUME NEW T, NEW s \in Seq(T), NEW x \in T, NEW K \in SUBSET (DOMAIN s)
  PROVE  /\ Keep(Append(s, x), K) = Keep(s, K)
         /\ Keep(Append(s, x), K \cup {Len(s) + 1}) = Append(Keep(s, K), x)
<1> DEFINE n == Len(s)
           l == Append(s, x)
           J == K \cup {n + 1}
           c == Cardinality(K)
<1>1. n \in Nat /\ DOMAIN s = 1 .. n
  BY LenProperties
<1>2. /\ l \in Seq(T) /\ Len(l) = n + 1 /\ l[n + 1] = x
      /\ \A k \in 1 .. n : l[k] = s[k]
  BY AppendProperties
<1> HIDE DEF l, n
<1>3. /\ K \in SUBSET (1 .. n) /\ J \in SUBSET Int
      /\ \A k \in K : k \in Int /\ 1 <= k /\ k <= n
      /\ n + 1 \notin K
  BY <1>1
<1>4. K \in SUBSET Int /\ IsFiniteSet(K) /\ c \in Nat
  BY <1>1, <1>3, PositionsFinite
<1>5. IsFiniteSet(J) /\ Cardinality(J) = c + 1
  BY <1>3, <1>4, FS_AddElement
<1>6. \A a \in 1 .. c : Nth(K, a) \in K /\ Cardinality(UpTo(K, Nth(K, a))) = a
  BY <1>1, <1>3, NthIs
<1>7. \A a \in 1 .. c : l[Nth(K, a)] = s[Nth(K, a)]
  BY <1>2, <1>3, <1>6
<1>8. Keep(l, K) = Keep(s, K)
  BY <1>7 DEF Keep
<1>9. ASSUME NEW a \in 1 .. c PROVE Nth(J, a) = Nth(K, a)
  <2> DEFINE k == Nth(K, a)
  <2>1. k \in K /\ Cardinality(UpTo(K, k)) = a /\ ~(n + 1 <= k)
    BY <1>1, <1>3, <1>6
  <2> HIDE DEF k
  <2>2. UpTo(J, k) = UpTo(K, k)
    BY <2>1 DEF UpTo
  <2>3. k \in J
    BY <2>1
  <2> HIDE DEF J
  <2>4. Nth(J, Cardinality(UpTo(J, k))) = k
    BY <1>3, <1>5, <2>3, NthUnique
  <2> QED BY <2>1, <2>2, <2>4 DEF k
<1>10. Nth(J, c + 1) = n + 1
  <2>1. \A j \in J : j <= n + 1
    BY <1>1, <1>3
  <2>2. UpTo(J, n + 1) = J
    BY <2>1 DEF UpTo
  <2>3. n + 1 \in J
    OBVIOUS
  <2> HIDE DEF J
  <2> QED BY <1>3, <1>5, <2>2, <2>3, NthUnique
<1>11. Keep(l, J) = [a \in 1 .. c + 1 |-> l[Nth(J, a)]]
  BY <1>5 DEF Keep
<1>12. Keep(s, K) \in Seq(T) /\ Len(Keep(s, K)) = c
  BY KeepIs
<1>13. /\ Append(Keep(s, K), x) \in Seq(T)
       /\ Len(Append(Keep(s, K), x)) = c + 1
       /\ \A a \in 1 .. c : Append(Keep(s, K), x)[a] = Keep(s, K)[a]
       /\ Append(Keep(s, K), x)[c + 1] = x
  BY <1>12, AppendProperties
<1>14. \A a \in 1 .. c : Keep(s, K)[a] = s[Nth(K, a)]
  BY DEF Keep
<1>15. Append(Keep(s, K), x)
         = [a \in 1 .. c + 1 |-> Append(Keep(s, K), x)[a]]
  BY <1>4, <1>13, LenProperties
<1>16. ASSUME NEW a \in 1 .. c + 1
       PROVE  l[Nth(J, a)] = Append(Keep(s, K), x)[a]
  <2>1. CASE a \in 1 .. c
    BY <1>7, <1>9, <1>13, <1>14, <2>1
  <2>2. CASE a = c + 1
    BY <1>2, <1>10, <1>13, <2>2
  <2>3. a \in 1 .. c \/ a = c + 1
    BY <1>4
  <2> QED BY <2>1, <2>2, <2>3
<1>17. Keep(l, J) = Append(Keep(s, K), x)
  BY <1>11, <1>15, <1>16
<1> QED BY <1>8, <1>17 DEF l, n

\* One position less: the elements after it move up.
LEMMA KeepLess ==
  ASSUME NEW T, NEW s \in Seq(T), NEW K \in SUBSET (DOMAIN s)
  PROVE  \A h \in K : \E m \in 1 .. Cardinality(K) :
           /\ Keep(s, K)[m] = s[h]
           /\ \A a \in 1 .. Cardinality(K) - 1 :
                Keep(s, K \ {h})[a] = Keep(s, K)[IF a < m THEN a ELSE a + 1]
<1> TAKE h \in K
<1> DEFINE c == Cardinality(K)
           m == Cardinality(UpTo(K, h))
           J == K \ {h}
<1>1. Len(s) \in Nat /\ DOMAIN s = 1 .. Len(s)
  BY LenProperties
<1>2. K \in SUBSET (1 .. Len(s))
  BY <1>1
<1>3. K \in SUBSET Int /\ IsFiniteSet(K) /\ c \in Nat
  BY <1>1, <1>2, PositionsFinite
<1>4. h \in Int /\ m \in Nat /\ m <= c /\ IsFiniteSet(UpTo(K, h))
  BY <1>3, UpToFinite
<1>5. m # 0
  <2>1. h \in UpTo(K, h)
    BY <1>4 DEF UpTo
  <2> QED BY <1>4, <2>1, FS_EmptySet
<1>6. m \in 1 .. c
  BY <1>3, <1>4, <1>5
<1>7. J \in SUBSET Int /\ IsFiniteSet(J) /\ Cardinality(J) = c - 1
  BY <1>3, FS_RemoveElement
<1>8. Nth(K, m) = h
  BY <1>3, NthUnique
<1>9. /\ \A a \in 1 .. c : /\ Nth(K, a) \in K
                           /\ Cardinality(UpTo(K, Nth(K, a))) = a
      /\ \A a, b \in 1 .. c : a < b => Nth(K, a) < Nth(K, b)
  BY <1>1, <1>2, NthIs
<1>10. ASSUME NEW a \in 1 .. c, a # m
       PROVE  Nth(J, IF a < m THEN a ELSE a - 1) = Nth(K, a)
  <2> DEFINE k == Nth(K, a)
             b == IF a < m THEN a ELSE a - 1
  <2>1. k \in K /\ k \in Int /\ Cardinality(UpTo(K, k)) = a
    BY <1>3, <1>9
  <2>2. a < m => k < h
    BY <1>6, <1>8, <1>9
  <2>3. m < a => h < k
    BY <1>6, <1>8, <1>9
  <2>4. a \in Int /\ m \in Int /\ (a < m \/ m < a)
    BY <1>3, <1>4, <1>10
  <2>5. k # h
    BY <1>4, <2>1, <2>2, <2>3, <2>4
  <2> HIDE DEF k
  <2>6. Cardinality(UpTo(J, k)) = IF h <= k THEN a - 1 ELSE a
    BY <1>3, <2>1, UpToWithout
  <2>7. Cardinality(UpTo(J, k)) = b
    BY <1>4, <2>1, <2>2, <2>3, <2>4, <2>6
  <2>8. k \in J
    BY <2>1, <2>5
  <2> HIDE DEF J, b
  <2>9. Nth(J, Cardinality(UpTo(J, k))) = k
    BY <1>7, <2>8, NthUnique
  <2> QED BY <2>7, <2>9 DEF k, b
<1>11. ASSUME NEW a \in 1 .. c - 1
       PROVE  Keep(s, J)[a] = Keep(s, K)[IF a < m THEN a ELSE a + 1]
  <2>1. a \in 1 .. c /\ a + 1 \in 1 .. c /\ a \in Int
    BY <1>3
  <2>2. Keep(s, J)[a] = s[Nth(J, a)]
    BY <1>7 DEF Keep
  <2>3. Keep(s, K)[a] = s[Nth(K, a)] /\ Keep(s, K)[a + 1] = s[Nth(K, a + 1)]
    BY <2>1 DEF Keep
  <2>4. CASE a < m
    <3>1. a # m
      BY <1>4, <2>1, <2>4
    <3>2. Nth(J, a) = Nth(K, a)
      BY <1>10, <2>1, <2>4, <3>1
    <3> QED BY <2>2, <2>3, <2>4, <3>2
  <2>5. CASE ~(a < m)
    <3>1. a + 1 # m /\ ~(a + 1 < m) /\ a + 1 - 1 = a
      BY <1>4, <2>1, <2>5
    <3> DEFINE e == a + 1
    <3>2. Nth(J, IF e < m THEN e ELSE e - 1) = Nth(K, e)
      <4>1. e \in 1 .. c /\ e # m
        BY <2>1, <3>1
      <4> HIDE DEF e, J
      <4> QED BY <1>10, <4>1
    <3>3. (IF e < m THEN e ELSE e - 1) = a
      BY <3>1
    <3>4. Nth(J, a) = Nth(K, a + 1)
      BY <3>2, <3>3
    <3> QED BY <2>2, <2>3, <2>5, <3>4
  <2> QED BY <2>4, <2>5
<1>12. Keep(s, K)[m] = s[h]
  BY <1>6, <1>8 DEF Keep
<1> HIDE DEF m
<1> QED BY <1>6, <1>11, <1>12

\* What SubSeq leaves at the end and at the beginning of a sequence.
LEMMA SubSeqIs ==
  ASSUME NEW T, NEW s \in Seq(T), NEW m \in Nat, m # 0,
         NEW b \in Nat, b <= Len(s), NEW r, r = SubSeq(s, m, b)
  PROVE  /\ r \in Seq(T)
         /\ Len(r) = IF m <= b THEN b - m + 1 ELSE 0
         /\ \A k \in 1 .. Len(r) : r[k] = s[m - 1 + k]
<1>1. \A k \in m .. b : s[k] \in T
  BY ElementOfSeq, LenProperties
<1>2. /\ r \in Seq(T)
      /\ Len(r) = IF m <= b THEN b - m + 1 ELSE 0
      /\ \A k \in 1 .. b - m + 1 : r[k] = s[m + k - 1]
  BY <1>1, SubSeqProperties
<1>3. ASSUME NEW k \in 1 .. Len(r) PROVE r[k] = s[m - 1 + k]
  <2>1. k \in 1 .. b - m + 1 /\ m + k - 1 = m - 1 + k
    BY <1>2
  <2> QED BY <1>2, <2>1
<1> QED BY <1>2, <1>3

LEMMA SuffixIs ==
  ASSUME NEW T, NEW s \in Seq(T), NEW o \in Nat,
         NEW r, r = SubSeq(s, o + 1, Len(s))
  PROVE  /\ r \in Seq(T)
         /\ Len(r) = IF o <= Len(s) THEN Len(s) - o ELSE 0
         /\ \A k \in 1 .. Len(r) : r[k] = s[o + k]
<1>1. PICK n \in Nat : n = Len(s)
  BY LenProperties
<1>2. PICK m \in Nat : m = o + 1
  OBVIOUS
<1>3. r = SubSeq(s, m, n)
  BY <1>1, <1>2
<1>4. /\ r \in Seq(T)
      /\ Len(r) = IF m <= n THEN n - m + 1 ELSE 0
      /\ \A k \in 1 .. Len(r) : r[k] = s[m - 1 + k]
  BY <1>1, <1>2, <1>3, SubSeqIs
<1>5. Len(r) = IF o <= n THEN n - o ELSE 0
  BY <1>1, <1>2, <1>4
<1>6. ASSUME NEW k \in 1 .. Len(r) PROVE r[k] = s[o + k]
  <2>1. m - 1 + k = o + k
    BY <1>2
  <2> QED BY <1>4, <2>1
<1> QED BY <1>1, <1>4, <1>5, <1>6

LEMMA PrefixIs ==
  ASSUME NEW T, NEW s \in Seq(T), NEW n \in Nat, n <= Len(s),
         NEW r, r = SubSeq(s, 1, n)
  PROVE  /\ r \in Seq(T)
         /\ Len(r) = n
         /\ \A k \in 1 .. n : r[k] = s[k]
<1>1. PICK m \in Nat : m = 1
  OBVIOUS
<1>2. r = SubSeq(s, m, n)
  BY <1>1
<1>3. /\ r \in Seq(T)
      /\ Len(r) = IF m <= n THEN n - m + 1 ELSE 0
      /\ \A k \in 1 .. Len(r) : r[k] = s[m - 1 + k]
  BY <1>1, <1>2, SubSeqIs
<1>4. Len(r) = n
  BY <1>1, <1>3
<1>5. ASSUME NEW k \in 1 .. n PROVE r[k] = s[k]
  <2>1. m - 1 + k = k
    BY <1>1
  <2> QED BY <1>3, <1>4, <2>1
<1> QED BY <1>3, <1>4, <1>5
=============================================================================
