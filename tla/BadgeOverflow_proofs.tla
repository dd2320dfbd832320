-------------------------- MODULE BadgeOverflow_proofs --------------------------
(***************************************************************************)
(* Theorems about BadgeOverflow, for any number of selects, values,        *)
(* layouts, widths and events.                                             *)
(***************************************************************************)
EXTENDS BadgeOverflow, FiniteSetTheorems, SequenceTheorems, NaturalsInduction,
        WellFoundedInduction, TLAPS

(***************************************************************************)
(* Numbers and sequences.                                                  *)
(***************************************************************************)
LEMMA LeastNumber ==
  ASSUME NEW S \in SUBSET Nat, S # {}
  PROVE  \E x \in S : \A y \in S : x <= y
<1> DEFINE R == OpToRel(<, Nat)
<1>1. IsWellFoundedOn(R, Nat)
  BY NatLessThanWellFounded
<1>2. PICK x \in S : \A y \in S : <<y, x>> \notin R
  <2> HIDE DEF R
  <2> QED BY <1>1, WFMin
<1>3. \A y \in S : ~(y < x)
  BY <1>2 DEF OpToRel
<1> QED BY <1>3

LEMMA GreatestNumber ==
  ASSUME NEW n \in Nat, NEW S \in SUBSET (0..n), S # {}
  PROVE  \E x \in S : \A y \in S : y <= x
<1> DEFINE Down == {n - x : x \in S}
<1>1. Down \in SUBSET Nat /\ Down # {}
  <2>1. \A x \in S : n - x \in Nat
    OBVIOUS
  <2>2. PICK x \in S : TRUE
    OBVIOUS
  <2>3. n - x \in Down
    OBVIOUS
  <2> QED BY <2>1, <2>3
<1>2. PICK d \in Down : \A e \in Down : d <= e
  BY <1>1, LeastNumber
<1>3. PICK x \in S : d = n - x
  OBVIOUS
<1>4. \A y \in S : n - x <= n - y
  BY <1>2, <1>3
<1>5. \A y \in S : y <= x
  BY <1>4
<1> QED BY <1>5

(* From one place to the next, up to the last.                             *)
LEMMA UpToTheLast ==
  ASSUME NEW n \in Nat, NEW S, 0 \in S, \A k \in 1..n : k - 1 \in S => k \in S
  PROVE  \A k \in 0..n : k \in S
<1> DEFINE Out == {k \in 0..n : k \notin S}
<1> SUFFICES ASSUME Out # {} PROVE FALSE
  OBVIOUS
<1>0. Out \in SUBSET Nat
  OBVIOUS
<1>1. PICK k \in Out : \A j \in Out : k <= j
  BY <1>0, LeastNumber
<1>2. k # 0 /\ k \in 0..n /\ k \notin S
  OBVIOUS
<1>3. k - 1 \in 0..n /\ k \in 1..n /\ k - 1 \notin Out
  BY <1>1, <1>2
<1> QED BY <1>2, <1>3

(* Without: the places that are left are counted, and every one up to their *)
(* number has a place.                                                     *)
Left(seq, gone) == {i \in 1..Len(seq) : seq[i] \notin gone}
UpTo(left, i) == {j \in left : j <= i}

LEMMA RankStep ==
  ASSUME NEW n \in Nat, NEW left \in SUBSET (1..n)
  PROVE  /\ IsFiniteSet(left) /\ Cardinality(left) \in 0..n
         /\ \A i \in 0..n : /\ IsFiniteSet(UpTo(left, i))
                            /\ Cardinality(UpTo(left, i)) \in 0..i
         /\ Cardinality(UpTo(left, n)) = Cardinality(left)
         /\ \A i \in 1..n :
              Cardinality(UpTo(left, i)) =
                IF i \in left THEN Cardinality(UpTo(left, i - 1)) + 1
                ELSE Cardinality(UpTo(left, i - 1))
<1>1. \A m \in 0..n : IsFiniteSet(1..m) /\ Cardinality(1..m) = m
  BY FS_Interval
<1>0. \A j \in left : j \in 1..n
  OBVIOUS
<1>2. \A i \in 0..n : /\ IsFiniteSet(UpTo(left, i))
                      /\ Cardinality(UpTo(left, i)) \in 0..i
  <2> TAKE i \in 0..n
  <2>1. UpTo(left, i) \in SUBSET (1..i)
    <3> SUFFICES ASSUME NEW j \in UpTo(left, i) PROVE j \in 1..i
      OBVIOUS
    <3> QED BY <1>0 DEF UpTo
  <2>2. IsFiniteSet(UpTo(left, i)) /\ Cardinality(UpTo(left, i)) <= i
    BY <2>1, <1>1, FS_Subset
  <2> QED BY <2>2, FS_CardinalityType
<1>3. UpTo(left, n) = left
  <2>1. \A j \in left : j <= n
    BY <1>0
  <2> QED BY <2>1 DEF UpTo
<1>4. \A i \in 1..n :
        Cardinality(UpTo(left, i)) =
          IF i \in left THEN Cardinality(UpTo(left, i - 1)) + 1
          ELSE Cardinality(UpTo(left, i - 1))
  <2> TAKE i \in 1..n
  <2>1. i - 1 \in 0..n /\ i \notin UpTo(left, i - 1)
    BY DEF UpTo
  <2>2. CASE i \in left
    <3>1. UpTo(left, i) = UpTo(left, i - 1) \cup {i}
      <4>1. \A j \in left : j <= i <=> j <= i - 1 \/ j = i
        BY <1>0
      <4> QED BY <2>2, <4>1 DEF UpTo
    <3> QED BY <3>1, <2>1, <2>2, <1>2, FS_AddElement
  <2>3. CASE i \notin left
    <3>1. UpTo(left, i) = UpTo(left, i - 1)
      <4>1. \A j \in left : j <= i <=> j <= i - 1
        BY <1>0, <2>3
      <4> QED BY <4>1 DEF UpTo
    <3> QED BY <3>1, <2>3
  <2> QED BY <2>2, <2>3
<1>5. IsFiniteSet(left) /\ Cardinality(left) \in 0..n
  BY <1>2, <1>3
<1> QED BY <1>2, <1>3, <1>4, <1>5

LEMMA EveryRank ==
  ASSUME NEW n \in Nat, NEW left \in SUBSET (1..n), NEW k \in 1..Cardinality(left)
  PROVE  \E i \in left : Cardinality(UpTo(left, i)) = k
<1> DEFINE Far == {i \in 0..n : k <= Cardinality(UpTo(left, i))}
<1>0. /\ Cardinality(left) \in 0..n
      /\ \A i \in 0..n : Cardinality(UpTo(left, i)) \in 0..i
      /\ Cardinality(UpTo(left, n)) = Cardinality(left)
      /\ \A i \in 1..n :
           Cardinality(UpTo(left, i)) =
             IF i \in left THEN Cardinality(UpTo(left, i - 1)) + 1
             ELSE Cardinality(UpTo(left, i - 1))
  BY RankStep
<1>1. n \in Far /\ Far \in SUBSET Nat
  BY <1>0
<1>2. PICK i \in Far : \A j \in Far : i <= j
  BY <1>1, LeastNumber
<1>3. i # 0
  BY <1>0
<1>4. i \in 1..n /\ i - 1 \in 0..n /\ i - 1 \notin Far
  BY <1>2, <1>3
<1>5. Cardinality(UpTo(left, i - 1)) < k
  BY <1>4, <1>0
<1>6. k <= Cardinality(UpTo(left, i))
  OBVIOUS
<1>7. i \in left /\ Cardinality(UpTo(left, i)) = Cardinality(UpTo(left, i - 1)) + 1
  BY <1>0, <1>4, <1>5, <1>6
<1>8. Cardinality(UpTo(left, i)) = k
  BY <1>0, <1>4, <1>5, <1>6, <1>7
<1> QED BY <1>7, <1>8

LEMMA WithoutIs ==
  ASSUME NEW S, NEW seq \in Seq(S), NEW gone
  PROVE  /\ Without(seq, gone) \in Seq(S)
         /\ Len(Without(seq, gone)) = Cardinality(Left(seq, gone))
         /\ Len(Without(seq, gone)) <= Len(seq)
         /\ \A k \in 1..Len(Without(seq, gone)) :
              \E i \in Left(seq, gone) :
                /\ Cardinality(UpTo(Left(seq, gone), i)) = k
                /\ Without(seq, gone)[k] = seq[i]
<1> DEFINE left == Left(seq, gone)
           At(k) == CHOOSE i \in left : Cardinality(UpTo(left, i)) = k
           new == [k \in 1..Cardinality(left) |-> seq[At(k)]]
<1>1. left \in SUBSET (1..Len(seq)) /\ Len(seq) \in Nat
  BY DEF Left
<1>2. Without(seq, gone) = new
  BY DEF Without, Left, UpTo
<1>3. Cardinality(left) \in Nat /\ Cardinality(left) <= Len(seq)
  <2> HIDE DEF left
  <2> QED BY <1>1, RankStep
<1>4. \A k \in 1..Cardinality(left) :
        At(k) \in left /\ Cardinality(UpTo(left, At(k))) = k
  <2> HIDE DEF left
  <2> QED BY <1>1, EveryRank
<1>5. \A k \in 1..Cardinality(left) : seq[At(k)] \in S
  BY <1>4, <1>1
<1> HIDE DEF left, At
<1>6. new \in Seq(S) /\ Len(new) = Cardinality(left)
  BY <1>3, <1>5
<1>7. \A k \in 1..Cardinality(left) : new[k] = seq[At(k)]
  OBVIOUS
<1>8. \A k \in 1..Len(new) :
        \E i \in left : Cardinality(UpTo(left, i)) = k /\ new[k] = seq[i]
  BY <1>4, <1>6, <1>7
<1> HIDE DEF new
<1> QED BY <1>2, <1>3, <1>6, <1>8 DEF left

LEMMA RankOnce ==
  ASSUME NEW n \in Nat, NEW left \in SUBSET (1..n), NEW i \in left, NEW j \in left,
         Cardinality(UpTo(left, i)) = Cardinality(UpTo(left, j))
  PROVE  i = j
<1>0. /\ IsFiniteSet(left) /\ Cardinality(left) \in 0..n
      /\ \A m \in 0..n : /\ IsFiniteSet(UpTo(left, m))
                         /\ Cardinality(UpTo(left, m)) \in 0..m
      /\ Cardinality(UpTo(left, n)) = Cardinality(left)
      /\ \A m \in 1..n :
           Cardinality(UpTo(left, m)) =
             IF m \in left THEN Cardinality(UpTo(left, m - 1)) + 1
             ELSE Cardinality(UpTo(left, m - 1))
  BY RankStep
<1>1. ASSUME NEW x \in left, NEW y \in left, x < y
      PROVE  Cardinality(UpTo(left, x)) < Cardinality(UpTo(left, y))
  <2>1. x \in 1..n /\ y \in 1..n /\ y - 1 \in 0..n /\ x \in 0..n /\ y \in 0..n
    OBVIOUS
  <2>2. /\ IsFiniteSet(UpTo(left, y - 1))
        /\ Cardinality(UpTo(left, y)) = Cardinality(UpTo(left, y - 1)) + 1
        /\ Cardinality(UpTo(left, x)) \in 0..x
        /\ Cardinality(UpTo(left, y - 1)) \in 0..(y - 1)
    BY <1>0, <2>1
  <2>3. \A k \in left : k <= x => k <= y - 1
    BY <1>1, <2>1
  <2>4. UpTo(left, x) \subseteq UpTo(left, y - 1)
    BY <2>3 DEF UpTo
  <2>5. Cardinality(UpTo(left, x)) <= Cardinality(UpTo(left, y - 1))
    BY <2>2, <2>4, FS_Subset
  <2> QED BY <2>2, <2>5
<1>2. i \in 1..n /\ j \in 1..n
  OBVIOUS
<1>3. \A x \in left : Cardinality(UpTo(left, x)) \in Nat
  <2> TAKE x \in left
  <2>1. x \in 0..n
    OBVIOUS
  <2> QED BY <1>0, <2>1
<1> QED BY <1>1, <1>2, <1>3

(* And it is the only sequence with every one that is left at its place.   *)
LEMMA WithoutAt ==
  ASSUME NEW S, NEW seq \in Seq(S), NEW gone, NEW i \in Left(seq, gone)
  PROVE  LET k == Cardinality(UpTo(Left(seq, gone), i))
         IN k \in 1..Len(Without(seq, gone)) /\ Without(seq, gone)[k] = seq[i]
<1> DEFINE left == Left(seq, gone)
           n == Len(seq)
           new == Without(seq, gone)
           k == Cardinality(UpTo(left, i))
<1>1. left \in SUBSET (1..n) /\ n \in Nat
  BY DEF Left
<1>2. /\ Len(new) = Cardinality(left)
      /\ \A m \in 1..Len(new) : \E j \in left : /\ Cardinality(UpTo(left, j)) = m
                                                /\ new[m] = seq[j]
  BY WithoutIs
<1>3. i \in left
  OBVIOUS
<1> HIDE DEF left, new, n
<1>4. k \in 1..Cardinality(left)
  <2>1. i \in 1..n /\ i - 1 \in 0..n /\ i \in 0..n
    BY <1>1, <1>3
  <2>2. /\ IsFiniteSet(left) /\ Cardinality(left) \in 0..n
        /\ k \in 0..i /\ k = Cardinality(UpTo(left, i - 1)) + 1
        /\ Cardinality(UpTo(left, i - 1)) \in 0..(i - 1)
    <3>1. /\ IsFiniteSet(left) /\ Cardinality(left) \in 0..n
          /\ \A m \in 0..n : /\ IsFiniteSet(UpTo(left, m))
                             /\ Cardinality(UpTo(left, m)) \in 0..m
          /\ Cardinality(UpTo(left, n)) = Cardinality(left)
          /\ \A m \in 1..n :
               Cardinality(UpTo(left, m)) =
                 IF m \in left THEN Cardinality(UpTo(left, m - 1)) + 1
                 ELSE Cardinality(UpTo(left, m - 1))
      BY <1>1, RankStep
    <3> QED BY <1>3, <2>1, <3>1
  <2>3. UpTo(left, i) \subseteq left
    BY DEF UpTo
  <2>4. k <= Cardinality(left)
    BY <2>2, <2>3, FS_Subset
  <2> HIDE DEF k
  <2> QED BY <2>2, <2>4
<1>5. PICK j \in left : Cardinality(UpTo(left, j)) = k /\ new[k] = seq[j]
  BY <1>2, <1>4
<1>6. i = j
  BY <1>1, <1>3, <1>5, RankOnce
<1> QED BY <1>2, <1>4, <1>5, <1>6 DEF left, new

LEMMA WithoutOnly ==
  ASSUME NEW S, NEW seq \in Seq(S), NEW gone, NEW w \in Seq(S),
         Len(w) = Cardinality(Left(seq, gone)),
         \A i \in Left(seq, gone) : w[Cardinality(UpTo(Left(seq, gone), i))] = seq[i]
  PROVE  Without(seq, gone) = w
<1> DEFINE left == Left(seq, gone)
           new == Without(seq, gone)
<1>1. /\ new \in Seq(S) /\ Len(new) = Len(w)
      /\ \A m \in 1..Len(new) : \E j \in left : /\ Cardinality(UpTo(left, j)) = m
                                                /\ new[m] = seq[j]
  BY WithoutIs
<1>2. \A j \in left : w[Cardinality(UpTo(left, j))] = seq[j]
  OBVIOUS
<1> HIDE DEF left, new
<1>3. \A m \in 1..Len(new) : new[m] = w[m]
  BY <1>1, <1>2
<1>4. new = w
  BY <1>1, <1>3
<1> QED BY <1>4 DEF new

(* All of them left, or none, or one sequence after another.               *)
LEMMA FirstOnesStay ==
  ASSUME NEW S, NEW seq \in Seq(S), NEW gone, NEW v \in 0..Len(seq),
         Left(seq, gone) = 1..v
  PROVE  /\ Len(Without(seq, gone)) = v
         /\ \A k \in 1..v : Without(seq, gone)[k] = seq[k]
<1> DEFINE new == Without(seq, gone)
<1>1. v \in Nat /\ \A i \in 1..v : UpTo(1..v, i) = 1..i
  BY DEF UpTo
<1>2. \A i \in 0..v : Cardinality(1..i) = i
  BY <1>1, FS_Interval
<1>3. \A i \in 1..v : Cardinality(UpTo(1..v, i)) = i
  BY <1>1, <1>2
<1>4. Len(new) = v
  BY <1>1, <1>2, WithoutIs
<1>5. \A k \in 1..v : \E i \in 1..v : Cardinality(UpTo(1..v, i)) = k /\ new[k] = seq[i]
  BY <1>4, WithoutIs
<1> HIDE DEF new
<1>6. \A k \in 1..v : new[k] = seq[k]
  BY <1>3, <1>5
<1> QED BY <1>4, <1>6 DEF new

LEMMA NoneGoes ==
  ASSUME NEW S, NEW seq \in Seq(S), NEW gone, \A i \in 1..Len(seq) : seq[i] \notin gone
  PROVE  Without(seq, gone) = seq
<1>1. Left(seq, gone) = 1..Len(seq) /\ Len(seq) \in 0..Len(seq)
  BY DEF Left
<1>2. /\ Len(Without(seq, gone)) = Len(seq)
      /\ \A k \in 1..Len(seq) : Without(seq, gone)[k] = seq[k]
  BY <1>1, FirstOnesStay
<1>3. Without(seq, gone) \in Seq(S)
  BY WithoutIs
<1> QED BY <1>2, <1>3

LEMMA AllGo ==
  ASSUME NEW S, NEW seq \in Seq(S), NEW gone, \A i \in 1..Len(seq) : seq[i] \in gone
  PROVE  Without(seq, gone) = <<>>
<1>1. Left(seq, gone) = {}
  BY DEF Left
<1>2. Len(Without(seq, gone)) = 0 /\ Without(seq, gone) \in Seq(S)
  BY <1>1, WithoutIs, FS_EmptySet
<1> QED BY <1>2

LEMMA WithoutBoth ==
  ASSUME NEW S, NEW s \in Seq(S), NEW t \in Seq(S), NEW gone
  PROVE  Without(s \o t, gone) = Without(s, gone) \o Without(t, gone)
<1> DEFINE m == Len(s)
           k == Len(t)
           both == s \o t
           ls == Left(s, gone)
           lt == Left(t, gone)
           l == Left(both, gone)
           rs(i) == Cardinality(UpTo(ls, i))
           rt(j) == Cardinality(UpTo(lt, j))
           r(i) == Cardinality(UpTo(l, i))
           ws == Without(s, gone)
           wt == Without(t, gone)
<1>1. /\ m \in Nat /\ k \in Nat /\ both \in Seq(S) /\ Len(both) = m + k
      /\ \A i \in 1..m : both[i] = s[i]
      /\ \A j \in 1..k : both[m + j] = t[j]
  OBVIOUS
<1>2. ls \in SUBSET (1..m) /\ lt \in SUBSET (1..k)
  BY DEF Left
<1>3. /\ l \in SUBSET (1..(m + k))
      /\ \A i \in 1..m : i \in l <=> i \in ls
      /\ \A j \in 1..k : m + j \in l <=> j \in lt
  <2> HIDE DEF both, m, k
  <2>1. l = {i \in 1..(m + k) : both[i] \notin gone}
    BY <1>1 DEF Left
  <2>2. ls = {i \in 1..m : s[i] \notin gone} /\ lt = {j \in 1..k : t[j] \notin gone}
    BY DEF Left, m, k
  <2>3. \A i \in 1..m : i \in 1..(m + k)
    BY <1>1
  <2>4. \A j \in 1..k : m + j \in 1..(m + k)
    BY <1>1
  <2> HIDE DEF l, ls, lt
  <2> QED BY <1>1, <2>1, <2>2, <2>3, <2>4
<1>4. /\ ws \in Seq(S) /\ Len(ws) = Cardinality(ls)
      /\ wt \in Seq(S) /\ Len(wt) = Cardinality(lt)
  BY WithoutIs
<1>5. /\ \A i \in ls : rs(i) \in 1..Len(ws) /\ ws[rs(i)] = s[i]
      /\ \A j \in lt : rt(j) \in 1..Len(wt) /\ wt[rt(j)] = t[j]
  BY WithoutAt
<1> HIDE DEF m, k, both, ls, lt, l, ws, wt
<1>6. \A i \in 0..m : UpTo(l, i) = UpTo(ls, i)
  <2> TAKE i \in 0..m
  <2>1. \A j \in l : j <= i => j \in 1..m
    BY <1>1, <1>3
  <2>2. \A j \in ls : j \in 1..m
    BY <1>2
  <2> QED BY <1>3, <2>1, <2>2 DEF UpTo
<1>7. /\ IsFiniteSet(lt) /\ Cardinality(lt) \in 0..k
      /\ \A i \in 0..k : /\ IsFiniteSet(UpTo(lt, i))
                         /\ Cardinality(UpTo(lt, i)) \in 0..i
      /\ Cardinality(UpTo(lt, k)) = Cardinality(lt)
      /\ \A i \in 1..k :
           Cardinality(UpTo(lt, i)) =
             IF i \in lt THEN Cardinality(UpTo(lt, i - 1)) + 1
             ELSE Cardinality(UpTo(lt, i - 1))
  BY <1>1, <1>2, RankStep
<1>8. /\ IsFiniteSet(l) /\ Cardinality(l) \in 0..(m + k)
      /\ \A i \in 0..(m + k) : /\ IsFiniteSet(UpTo(l, i))
                               /\ Cardinality(UpTo(l, i)) \in 0..i
      /\ Cardinality(UpTo(l, (m + k))) = Cardinality(l)
      /\ \A i \in 1..(m + k) :
           Cardinality(UpTo(l, i)) =
             IF i \in l THEN Cardinality(UpTo(l, i - 1)) + 1
             ELSE Cardinality(UpTo(l, i - 1))
  <2> DEFINE n == m + k
  <2>1. n \in Nat /\ l \in SUBSET (1..n)
    BY <1>1, <1>3
  <2> HIDE DEF n
  <2>2. /\ IsFiniteSet(l) /\ Cardinality(l) \in 0..n
        /\ \A i \in 0..n : /\ IsFiniteSet(UpTo(l, i))
                           /\ Cardinality(UpTo(l, i)) \in 0..i
        /\ Cardinality(UpTo(l, n)) = Cardinality(l)
        /\ \A i \in 1..n :
             Cardinality(UpTo(l, i)) =
               IF i \in l THEN Cardinality(UpTo(l, i - 1)) + 1
               ELSE Cardinality(UpTo(l, i - 1))
    BY <2>1, RankStep
  <2> QED BY <2>2 DEF n
<1>9. Cardinality(ls) \in Nat /\ Cardinality(UpTo(ls, m)) = Cardinality(ls)
  BY <1>1, <1>2, RankStep
<1>10. \A j \in 0..k : r(m + j) = Cardinality(ls) + rt(j)
  <2> DEFINE T == {j \in 0..k : r(m + j) = Cardinality(ls) + rt(j)}
  <2>1. 0 \in T
    <3>1. r(m) = rs(m) /\ rs(m) = Cardinality(ls) /\ Cardinality(ls) \in Nat
      BY <1>1, <1>6, <1>9
    <3>2. rt(0) = 0
      <4>1. 0 \in 0..k /\ rt(0) \in 0..0
        BY <1>1, <1>7
      <4> QED BY <4>1
    <3> QED BY <1>1, <3>1, <3>2
  <2>2. ASSUME NEW j \in 1..k, j - 1 \in T PROVE j \in T
    <3>1. m + j \in 1..(m + k) /\ (m + j) - 1 = m + (j - 1) /\ m + k \in Nat
      BY <1>1
    <3>2. r(m + j) = IF m + j \in l THEN r(m + (j - 1)) + 1 ELSE r(m + (j - 1))
      BY <1>8, <3>1
    <3>3. rt(j) = IF j \in lt THEN rt(j - 1) + 1 ELSE rt(j - 1)
      BY <1>7
    <3>4. Cardinality(ls) \in Nat /\ rt(j - 1) \in Nat
      <4>1. j - 1 \in 0..k
        BY <1>1
      <4>2. rt(j - 1) \in 0..(j - 1)
        BY <4>1, <1>7
      <4> QED BY <1>9, <4>2
    <3>5. r(m + (j - 1)) = Cardinality(ls) + rt(j - 1)
      BY <2>2
    <3>6. m + j \in l <=> j \in lt
      BY <1>3
    <3>7. r(m + j) = Cardinality(ls) + rt(j)
      <4> HIDE DEF r, rt
      <4> QED BY <3>2, <3>3, <3>4, <3>5, <3>6
    <3> QED BY <3>7
  <2> HIDE DEF T
  <2>3. \A j \in 1..k : j - 1 \in T => j \in T
    BY <2>2
  <2>4. \A j \in 0..k : j \in T
    BY <1>1, <2>1, <2>3, UpToTheLast
  <2> QED BY <2>4 DEF T
<1>11. Cardinality(l) = Cardinality(ls) + Cardinality(lt)
  <2>1. r(m + k) = Cardinality(l) /\ rt(k) = Cardinality(lt)
    BY <1>7, <1>8
  <2>2. k \in 0..k
    BY <1>1
  <2> QED BY <1>10, <2>1, <2>2
<1> DEFINE w == ws \o wt
<1>12. /\ w \in Seq(S) /\ Len(w) = Len(ws) + Len(wt)
       /\ \A i \in 1..Len(ws) : w[i] = ws[i]
       /\ \A j \in 1..Len(wt) : w[Len(ws) + j] = wt[j]
  <2>1. /\ w \in Seq(S) /\ Len(w) = Len(ws) + Len(wt)
        /\ \A i \in 1..(Len(ws) + Len(wt)) :
             w[i] = IF i <= Len(ws) THEN ws[i] ELSE wt[i - Len(ws)]
    BY <1>4, ConcatProperties
  <2>2. Len(ws) \in Nat /\ Len(wt) \in Nat
    BY <1>4
  <2> HIDE DEF w
  <2>3. ASSUME NEW i \in 1..Len(ws) PROVE w[i] = ws[i]
    BY <2>1, <2>2
  <2>4. ASSUME NEW j \in 1..Len(wt) PROVE w[Len(ws) + j] = wt[j]
    <3>1. /\ Len(ws) + j \in 1..(Len(ws) + Len(wt)) /\ ~(Len(ws) + j <= Len(ws))
          /\ (Len(ws) + j) - Len(ws) = j
      BY <2>2
    <3> QED BY <2>1, <3>1
  <2> QED BY <2>1, <2>3, <2>4
<1> HIDE DEF w
<1>13. ASSUME NEW i \in l PROVE w[r(i)] = both[i]
  <2>1. i \in 1..(m + k)
    BY <1>3
  <2>2. CASE i <= m
    <3>1. i \in 1..m /\ i \in 0..m /\ i \in ls
      BY <1>1, <1>3, <2>1, <2>2
    <3>2. r(i) = rs(i)
      BY <1>6, <3>1
    <3> QED BY <1>1, <1>5, <1>12, <3>1, <3>2
  <2>3. CASE ~(i <= m)
    <3>1. i - m \in 1..k /\ i - m \in 0..k /\ i = m + (i - m)
      BY <1>1, <2>1, <2>3
    <3> DEFINE j == i - m
    <3> HIDE DEF j
    <3>2. j \in 1..k /\ j \in 0..k /\ i = m + j
      BY <3>1 DEF j
    <3>3. j \in lt /\ r(i) = Len(ws) + rt(j)
      BY <1>3, <1>4, <1>10, <3>2
    <3>4. rt(j) \in 1..Len(wt) /\ wt[rt(j)] = t[j] /\ both[i] = t[j]
      BY <1>1, <1>5, <3>2, <3>3
    <3>5. w[Len(ws) + rt(j)] = wt[rt(j)]
      <4> HIDE DEF rt
      <4> QED BY <1>12, <3>4
    <3> QED BY <3>3, <3>4, <3>5
  <2> QED BY <2>2, <2>3
<1>14. Without(both, gone) = w
  <2>1. Len(w) = Cardinality(Left(both, gone))
    BY <1>4, <1>11, <1>12 DEF l
  <2>2. \A i \in Left(both, gone) : w[Cardinality(UpTo(Left(both, gone), i))] = both[i]
    BY <1>13 DEF l
  <2> QED BY <1>1, <1>12, <2>1, <2>2, WithoutOnly
<1> QED BY <1>14 DEF both, w, ws, wt

(***************************************************************************)
(* Badges: an unspoiled one has its own place in the tab order, or keeps   *)
(* it for later; an attended one does what suits its being hidden.         *)
(***************************************************************************)
Unspoiled(x) ==
  \/ x.tab = "own" /\ x.kept = "no"
  \/ x.tab = "-1" /\ x.kept = "own"
Attended(x) ==
  IF x.hidden THEN x.tab = "-1" /\ x.kept = "own" ELSE x.tab = "own" /\ x.kept = "no"

LEMMA HideBadge ==
  ASSUME NEW x \in Badge, NEW h \in BOOLEAN
  PROVE  /\ SetHidden(x, h) \in Badge
         /\ SetHidden(x, h).hidden = h
         /\ SetHidden(x, h).value = x.value /\ SetHidden(x, h).seen = x.seen
         /\ Unspoiled(x) => Attended(SetHidden(x, h))
<1>1. CASE h
  BY <1>1 DEF SetHidden, Conceal, Remembered, Badge, Tabs, Unspoiled, Attended
<1>2. CASE ~h
  BY <1>2 DEF SetHidden, Reveal, Badge, Tabs, Unspoiled, Attended
<1> QED BY <1>1, <1>2

LEMMA HideOverflow ==
  ASSUME NEW x \in OverflowBadge, NEW h \in BOOLEAN
  PROVE  /\ SetHidden(x, h) \in OverflowBadge
         /\ SetHidden(x, h).hidden = h
         /\ SetHidden(x, h).text = x.text /\ SetHidden(x, h).said = x.said
         /\ SetHidden(x, h).cache = x.cache
         /\ Unspoiled(x) => Attended(SetHidden(x, h))
<1>1. CASE h
  BY <1>1 DEF SetHidden, Conceal, Remembered, OverflowBadge, Tabs, Unspoiled, Attended
<1>2. CASE ~h
  BY <1>2 DEF SetHidden, Reveal, OverflowBadge, Tabs, Unspoiled, Attended
<1> QED BY <1>1, <1>2

LEMMA HideAll ==
  ASSUME NEW badges \in Seq(Badge), NEW v \in Nat
  PROVE  /\ SetAllHidden(badges, v) \in Seq(Badge)
         /\ Len(SetAllHidden(badges, v)) = Len(badges)
         /\ \A i \in 1..Len(badges) :
              /\ SetAllHidden(badges, v)[i].hidden = (i > v)
              /\ SetAllHidden(badges, v)[i].value = badges[i].value
              /\ SetAllHidden(badges, v)[i].seen = badges[i].seen
              /\ Unspoiled(badges[i]) => Attended(SetAllHidden(badges, v)[i])
<1> DEFINE new == [i \in 1..Len(badges) |-> SetHidden(badges[i], i > v)]
<1>1. \A i \in 1..Len(badges) : badges[i] \in Badge /\ (i > v) \in BOOLEAN
  OBVIOUS
<1>2. \A i \in 1..Len(badges) : SetHidden(badges[i], i > v) \in Badge
  BY <1>1, HideBadge
<1>3. new \in Seq(Badge) /\ Len(new) = Len(badges)
  BY <1>2
<1>4. \A i \in 1..Len(badges) : new[i] = SetHidden(badges[i], i > v)
  OBVIOUS
<1>5. SetAllHidden(badges, v) = new
  BY DEF SetAllHidden
<1> HIDE DEF new
<1>6. \A i \in 1..Len(badges) :
        /\ new[i].hidden = (i > v)
        /\ new[i].value = badges[i].value /\ new[i].seen = badges[i].seen
        /\ Unspoiled(badges[i]) => Attended(new[i])
  <2> TAKE i \in 1..Len(badges)
  <2>1. badges[i] \in Badge /\ (i > v) \in BOOLEAN
    BY <1>1
  <2> DEFINE h == i > v
  <2>2. new[i] = SetHidden(badges[i], h) /\ h \in BOOLEAN
    BY <2>1, <1>4
  <2> HIDE DEF h
  <2>3. /\ new[i].hidden = h
        /\ new[i].value = badges[i].value /\ new[i].seen = badges[i].seen
        /\ Unspoiled(badges[i]) => Attended(new[i])
    BY <2>1, <2>2, HideBadge
  <2> QED BY <2>3 DEF h
<1> QED BY <1>3, <1>5, <1>6

(***************************************************************************)
(* Measuring: widths that are remembered belong to one of the layouts, and *)
(* in a current container to today's.                                      *)
(***************************************************************************)
CurrentOver(over) == \A e \in over.cache : e[3] = layout
Current(b) ==
  /\ \A i \in 1..Len(b.badges) : b.badges[i].seen \in {None, layout}
  /\ b.over # None => CurrentOver(b.over)

LEMMA MeasureIs ==
  ASSUME NEW badges \in Seq(Badge), layout \in Layouts
  PROVE  /\ Measure(badges) \in Seq(Badge)
         /\ Len(Measure(badges)) = Len(badges)
         /\ \A i \in 1..Len(badges) :
              /\ Measure(badges)[i].hidden = badges[i].hidden
              /\ Measure(badges)[i].value = badges[i].value
              /\ Measure(badges)[i].seen =
                   IF badges[i].seen = None THEN layout ELSE badges[i].seen
              /\ Unspoiled(badges[i]) => Unspoiled(Measure(badges)[i])
<1> DEFINE one(x) == [x EXCEPT !.seen = IF x.seen = None THEN layout ELSE x.seen]
           new == [i \in 1..Len(badges) |-> one(badges[i])]
<1>1. \A x \in Badge :
        /\ one(x) \in Badge /\ one(x).hidden = x.hidden /\ one(x).value = x.value
        /\ one(x).seen = (IF x.seen = None THEN layout ELSE x.seen)
        /\ Unspoiled(x) => Unspoiled(one(x))
  BY DEF Badge, Measurement, Unspoiled
<1>2. Measure(badges) = new
  BY DEF Measure
<1> HIDE DEF one
<1>3. new \in Seq(Badge) /\ Len(new) = Len(badges)
  BY <1>1
<1>4. \A i \in 1..Len(badges) : new[i] = one(badges[i]) /\ badges[i] \in Badge
  OBVIOUS
<1> HIDE DEF new
<1> QED BY <1>1, <1>2, <1>3, <1>4

LEMMA MeasuredAtIs ==
  ASSUME NEW over \in OverflowBadge, NEW count, layout \in Layouts
  PROVE  /\ MeasuredAt(over, count) \in Layouts
         /\ CurrentOver(over) => MeasuredAt(over, count) = layout
<1> DEFINE cached == {l \in Layouts : <<over.text, count, l>> \in over.cache}
<1>1. MeasuredAt(over, count) = IF cached = {} THEN layout ELSE CHOOSE l \in cached : TRUE
  BY DEF MeasuredAt
<1>2. cached # {} => (CHOOSE l \in cached : TRUE) \in cached
  OBVIOUS
<1>3. CurrentOver(over) => \A l \in cached : l = layout
  <2> SUFFICES ASSUME CurrentOver(over), NEW l \in cached PROVE l = layout
    OBVIOUS
  <2>1. <<over.text, count, l>>[3] = layout
    BY DEF CurrentOver
  <2> QED BY <2>1
<1>4. cached \subseteq Layouts
  OBVIOUS
<1> HIDE DEF cached
<1> QED BY <1>1, <1>2, <1>3, <1>4

LEMMA MeasuredIs ==
  ASSUME NEW over \in OverflowBadge, NEW count \in Nat, layout \in Layouts
  PROVE  LET new == Measured(over, count)
         IN /\ new \in OverflowBadge
            /\ new.text = over.text /\ new.said = over.said /\ new.hidden = over.hidden
            /\ Unspoiled(over) => Unspoiled(new)
            /\ CurrentOver(over) => CurrentOver(new)
<1> DEFINE more == {<<over.text, n, MeasuredAt(over, n)>> : n \in 1..count}
           cache == over.cache \cup more
           new == [over EXCEPT !.cache = cache]
<1>1. Measured(over, count) = new
  BY DEF Measured, OverflowBadge
<1>2. more \subseteq Nat \X Nat \X Layouts
  <2> SUFFICES ASSUME NEW n \in 1..count
               PROVE  <<over.text, n, MeasuredAt(over, n)>> \in Nat \X Nat \X Layouts
    OBVIOUS
  <2>1. MeasuredAt(over, n) \in Layouts
    BY MeasuredAtIs
  <2>2. over.text \in Nat
    BY DEF OverflowBadge
  <2> QED BY <2>1, <2>2
<1>3. CurrentOver(over) => \A e \in more : e[3] = layout
  <2> SUFFICES ASSUME CurrentOver(over), NEW n \in 1..count
               PROVE  <<over.text, n, MeasuredAt(over, n)>>[3] = layout
    OBVIOUS
  <2>1. MeasuredAt(over, n) = layout
    BY MeasuredAtIs
  <2> QED BY <2>1
<1> HIDE DEF more
<1>4. cache \subseteq Nat \X Nat \X Layouts
  BY <1>2 DEF OverflowBadge
<1>5. CurrentOver(over) => \A e \in cache : e[3] = layout
  BY <1>3 DEF CurrentOver
<1> HIDE DEF cache
<1>6. new \in OverflowBadge
  BY <1>4 DEF OverflowBadge
<1>7. /\ new.text = over.text /\ new.said = over.said /\ new.hidden = over.hidden
      /\ new.tab = over.tab /\ new.kept = over.kept /\ new.cache = cache
  BY DEF OverflowBadge
<1> HIDE DEF new
<1> QED BY <1>1, <1>5, <1>6, <1>7 DEF Unspoiled, CurrentOver

(***************************************************************************)
(* updateContainer.                                                        *)
(***************************************************************************)
LEMMA VisibleIs ==
  ASSUME NEW s, NEW badges \in Seq(Badge), NEW over
  PROVE  LET n == Len(badges)
             v == VisibleCount(s, badges, over)
         IN /\ v \in 0..n
            /\ Room[s][layout] <= 0 => v = n
            /\ ~(Room[s][layout] <= 0) =>
                 /\ v = 0 \/ Fits(s, badges, over, v)
                 /\ \A k \in (v + 1)..n : ~Fits(s, badges, over, k)
<1> DEFINE n == Len(badges)
           fit == {k \in 0..n : Fits(s, badges, over, k) \/ k = 0}
           good(k) == /\ k = 0 \/ Fits(s, badges, over, k)
                      /\ \A other \in (k + 1)..n : ~Fits(s, badges, over, other)
<1>1. n \in Nat
  OBVIOUS
<1>2. \E k \in 0..n : good(k)
  <2>1. fit \in SUBSET (0..n) /\ 0 \in fit
    BY <1>1
  <2>2. PICK k \in fit : \A j \in fit : j <= k
    BY <1>1, <2>1, GreatestNumber
  <2>3. ASSUME NEW other \in (k + 1)..n PROVE ~Fits(s, badges, over, other)
    <3>1. other \in 0..n /\ ~(other <= k)
      BY <1>1
    <3> QED BY <3>1, <2>2
  <2> QED BY <2>3
<1>3. VisibleCount(s, badges, over) =
        IF Room[s][layout] <= 0 THEN n ELSE CHOOSE k \in 0..n : good(k)
  BY DEF VisibleCount
<1>4. LET c == CHOOSE k \in 0..n : good(k) IN c \in 0..n /\ good(c)
  <2> HIDE DEF good, n
  <2> QED BY <1>2
<1>5. CASE Room[s][layout] <= 0
  BY <1>1, <1>3, <1>5
<1>6. CASE ~(Room[s][layout] <= 0)
  <2> DEFINE c == CHOOSE k \in 0..n : good(k)
  <2>1. VisibleCount(s, badges, over) = c
    BY <1>3, <1>6
  <2>2. c \in 0..n /\ good(c)
    BY <1>4
  <2> HIDE DEF c
  <2> QED BY <2>1, <2>2, <1>6
<1> QED BY <1>5, <1>6

LEMMA EnsureIs ==
  ASSUME NEW b \in Box
  PROVE  /\ EnsureOverflowBadge(b) \in OverflowBadge
         /\ (b.over # None => Unspoiled(b.over)) => Unspoiled(EnsureOverflowBadge(b))
         /\ Current(b) => CurrentOver(EnsureOverflowBadge(b))
<1>1. CASE b.over = None
  <2>1. Len(b.badges) \in Nat
    BY DEF Box
  <2>2. FreshOverflowBadge(Len(b.badges)) \in OverflowBadge
    BY <2>1 DEF FreshOverflowBadge, OverflowBadge, Tabs
  <2> QED BY <1>1, <2>2 DEF EnsureOverflowBadge, FreshOverflowBadge, Unspoiled, CurrentOver
<1>2. CASE b.over # None
  <2>1. b.over \in OverflowBadge
    BY <1>2 DEF Box
  <2> QED BY <1>2, <2>1 DEF EnsureOverflowBadge, Current
<1> QED BY <1>1, <1>2

(* A box as the reachable states have it.                                  *)
BoxTyped(b) == b \in Box /\ Len(b.badges) <= MaxBadges

LEMMA RelabelledIs ==
  ASSUME NEW s, NEW b, BoxTyped(b), layout \in Layouts
  PROVE  LET over == Relabelled(s, b)
         IN /\ over \in OverflowBadge
            /\ (b.over # None => Unspoiled(b.over)) => Unspoiled(over)
            /\ Current(b) => CurrentOver(over)
<1> DEFINE old == EnsureOverflowBadge(b)
           f == FirstOverflow(s, b)
           m == Measured(old, f)
<1>1. /\ old \in OverflowBadge
      /\ (b.over # None => Unspoiled(b.over)) => Unspoiled(old)
      /\ Current(b) => CurrentOver(old)
  BY EnsureIs DEF BoxTyped
<1>2. b.badges \in Seq(Badge)
  BY DEF BoxTyped, Box
<1>3. Measure(b.badges) \in Seq(Badge) /\ Len(Measure(b.badges)) = Len(b.badges)
  BY <1>2, MeasureIs
<1>4. VisibleCount(s, Measure(b.badges), old) \in 0..Len(b.badges)
  BY <1>3, VisibleIs
<1>5. f \in Nat
  BY <1>2, <1>4 DEF FirstOverflow
<1> HIDE DEF old, f
<1>6. /\ m \in OverflowBadge
      /\ Unspoiled(old) => Unspoiled(m)
      /\ CurrentOver(old) => CurrentOver(m)
  BY <1>1, <1>5, MeasuredIs
<1> HIDE DEF m
<1>7. /\ Labelled(m, f) \in OverflowBadge
      /\ Unspoiled(m) => Unspoiled(Labelled(m, f))
      /\ CurrentOver(m) => CurrentOver(Labelled(m, f))
  BY <1>5, <1>6 DEF Labelled, OverflowBadge, Unspoiled, CurrentOver
<1>8. Relabelled(s, b) = IF f = 0 THEN m ELSE Labelled(m, f)
  BY DEF Relabelled, old, f, m
<1> QED BY <1>1, <1>6, <1>7, <1>8

LEMMA NoOverflowIs ==
  ASSUME NEW over \in OverflowBadge
  PROVE  LET new == NoOverflow(over)
         IN /\ new \in OverflowBadge /\ new.hidden = TRUE
            /\ Unspoiled(over) => Attended(new)
            /\ CurrentOver(over) => CurrentOver(new)
<1> DEFINE x == SetHidden(over, TRUE)
<1>1. /\ x \in OverflowBadge /\ x.hidden = TRUE /\ x.cache = over.cache
      /\ Unspoiled(over) => Attended(x)
  BY HideOverflow
<1>2. NoOverflow(over) = [x EXCEPT !.said = 0, !.width = 0]
  BY DEF NoOverflow
<1> HIDE DEF x
<1> DEFINE new == [x EXCEPT !.said = 0, !.width = 0]
<1>3. /\ new \in OverflowBadge /\ new.hidden = x.hidden /\ new.cache = x.cache
      /\ new.tab = x.tab /\ new.kept = x.kept
  BY <1>1 DEF OverflowBadge
<1> HIDE DEF new
<1>4. NoOverflow(over) = new
  BY <1>2 DEF new
<1> QED BY <1>1, <1>3, <1>4 DEF Attended, CurrentOver

Tells(x, over, v, k) ==
  /\ x \in OverflowBadge /\ x.hidden = FALSE
  /\ x.text = k /\ x.said = k /\ x.at = v /\ x.width = Plus[k][layout]
  /\ Unspoiled(over) => Attended(x)
  /\ CurrentOver(over) => CurrentOver(x)

LEMMA OverflowIs ==
  ASSUME NEW over \in OverflowBadge, NEW v \in Nat, NEW k \in 1..MaxBadges,
         layout \in Layouts
  PROVE  Tells(Overflow(over, v, k), over, v, k)
<1> DEFINE y == Labelled(over, k)
           x == SetHidden(y, FALSE)
<1>1. /\ y \in OverflowBadge /\ y.text = k /\ y.said = k
      /\ Unspoiled(over) => Unspoiled(y)
      /\ CurrentOver(over) => CurrentOver(y)
  <2>1. k \in Nat
    BY BadgeAssumption
  <2>2. /\ y \in OverflowBadge /\ y.text = k /\ y.said = k
        /\ y.tab = over.tab /\ y.kept = over.kept /\ y.cache = over.cache
    BY <2>1 DEF Labelled, OverflowBadge
  <2> HIDE DEF y
  <2> QED BY <2>2 DEF Unspoiled, CurrentOver
<1> HIDE DEF y
<1>2. /\ x \in OverflowBadge /\ x.hidden = FALSE /\ x.cache = y.cache
      /\ x.text = k /\ x.said = k
      /\ Unspoiled(y) => Attended(x)
  BY <1>1, HideOverflow
<1>3. Overflow(over, v, k) = [x EXCEPT !.width = Plus[k][layout], !.at = v]
  BY DEF Overflow, x, y
<1>4. Plus[k][layout] \in Nat
  BY BadgeAssumption
<1> HIDE DEF x
<1> QED BY <1>1, <1>2, <1>3, <1>4 DEF OverflowBadge, Attended, CurrentOver, Tells

LEMMA UpdateIs ==
  ASSUME NEW s \in Selects, NEW b, BoxTyped(b), layout \in Layouts
  PROVE  LET new == UpdateContainer(s, b)
             n == Len(b.badges)
             v == n - new.count
         IN /\ BoxTyped(new) /\ Len(new.badges) = n
            /\ new.observed = b.observed /\ new.count \in 0..n
            /\ \A i \in 1..n :
                 /\ new.badges[i].value = b.badges[i].value
                 /\ new.badges[i].hidden = (i > v)
                 /\ new.badges[i].seen \in {b.badges[i].seen, layout}
                 /\ Unspoiled(b.badges[i]) => Attended(new.badges[i])
            /\ new.over \in OverflowBadge /\ new.over.hidden = (v = n)
            /\ (b.over # None => Unspoiled(b.over)) => Attended(new.over)
            /\ Current(b) => CurrentOver(new.over)
            /\ v < n => /\ new.over.at = v /\ new.over.text = n - v
                        /\ new.over.said = n - v
                        /\ new.over.width = Plus[n - v][layout]
            /\ n <= 1 => v = n
            /\ n > 1 => v = VisibleCount(s, Measure(b.badges), Relabelled(s, b))
<1> DEFINE n == Len(b.badges)
           new == UpdateContainer(s, b)
<1>0. /\ b \in Box /\ b.badges \in Seq(Badge) /\ n \in Nat /\ n <= MaxBadges
      /\ MaxBadges \in Nat
  BY BadgeAssumption DEF BoxTyped, Box
<1> DEFINE Told(x, v) ==
      /\ x \in OverflowBadge /\ x.hidden = (v = n)
      /\ (b.over # None => Unspoiled(b.over)) => Attended(x)
      /\ Current(b) => CurrentOver(x)
      /\ v < n => /\ x.at = v /\ x.text = n - v /\ x.said = n - v
                  /\ x.width = Plus[n - v][layout]
<1>1. ASSUME NEW badges \in Seq(Badge), Len(badges) = n, NEW over, NEW v \in 0..n,
             Told(over, v),
             new = [b EXCEPT !.badges = SetAllHidden(badges, v), !.count = n - v, !.over = over],
             \A i \in 1..n : /\ badges[i].value = b.badges[i].value
                             /\ badges[i].seen \in {b.badges[i].seen, layout}
                             /\ Unspoiled(b.badges[i]) => Unspoiled(badges[i])
      PROVE  /\ BoxTyped(new) /\ Len(new.badges) = n
             /\ new.observed = b.observed /\ n - new.count = v /\ new.count \in 0..n
             /\ new.over = over
             /\ \A i \in 1..n :
                  /\ new.badges[i].value = b.badges[i].value
                  /\ new.badges[i].hidden = (i > v)
                  /\ new.badges[i].seen \in {b.badges[i].seen, layout}
                  /\ Unspoiled(b.badges[i]) => Attended(new.badges[i])
  <2> DEFINE hid == SetAllHidden(badges, v)
  <2>1. /\ hid \in Seq(Badge) /\ Len(hid) = n
        /\ \A i \in 1..n :
             /\ hid[i].hidden = (i > v)
             /\ hid[i].value = badges[i].value /\ hid[i].seen = badges[i].seen
             /\ Unspoiled(badges[i]) => Attended(hid[i])
    BY <1>1, HideAll
  <2> HIDE DEF hid
  <2>2. over \in OverflowBadge
    BY <1>1
  <2>3. n - v \in 0..n /\ n - (n - v) = v /\ n - v \in Nat
    BY <1>0
  <2>4. new = [b EXCEPT !.badges = hid, !.count = n - v, !.over = over]
    BY <1>1 DEF hid
  <2> HIDE DEF new, Told
  <2>5. /\ new \in Box /\ new.badges = hid /\ new.count = n - v /\ new.over = over
        /\ new.observed = b.observed
    <3> HIDE DEF n
    <3> QED BY <1>0, <2>1, <2>2, <2>3, <2>4 DEF Box
  <2>6. BoxTyped(new)
    BY <2>5, <2>1, <1>0 DEF BoxTyped
  <2>7. \A i \in 1..n :
          /\ hid[i].value = b.badges[i].value
          /\ hid[i].hidden = (i > v)
          /\ hid[i].seen \in {b.badges[i].seen, layout}
          /\ Unspoiled(b.badges[i]) => Attended(hid[i])
    BY <1>1, <2>1
  <2> HIDE DEF n
  <2> QED BY <2>1, <2>3, <2>5, <2>6, <2>7
<1>2. CASE n <= 1
  <2> DEFINE v == n
             over == NoOverflow(EnsureOverflowBadge(b))
  <2>1. new = [b EXCEPT !.badges = SetAllHidden(b.badges, v), !.count = n - v, !.over = over]
    BY <1>0, <1>2 DEF UpdateContainer
  <2>2. /\ over \in OverflowBadge /\ over.hidden = TRUE
        /\ (b.over # None => Unspoiled(b.over)) => Attended(over)
        /\ Current(b) => CurrentOver(over)
    <3> DEFINE e == EnsureOverflowBadge(b)
    <3>1. /\ e \in OverflowBadge
          /\ (b.over # None => Unspoiled(b.over)) => Unspoiled(e)
          /\ Current(b) => CurrentOver(e)
      BY <1>0, EnsureIs
    <3> HIDE DEF e
    <3>2. /\ NoOverflow(e) \in OverflowBadge /\ NoOverflow(e).hidden = TRUE
          /\ Unspoiled(e) => Attended(NoOverflow(e))
          /\ CurrentOver(e) => CurrentOver(NoOverflow(e))
      BY <3>1, NoOverflowIs
    <3> QED BY <3>1, <3>2 DEF e
  <2>3. Told(over, v)
    <3>1. ~(v < n) /\ (v = n) = TRUE
      BY <1>0
    <3> HIDE DEF over, v
    <3> QED BY <3>1, <2>2
  <2>4. /\ \A i \in 1..n :
             /\ b.badges[i].value = b.badges[i].value
             /\ b.badges[i].seen \in {b.badges[i].seen, layout}
             /\ Unspoiled(b.badges[i]) => Unspoiled(b.badges[i])
        /\ v \in 0..n
    BY <1>0
  <2> HIDE DEF over, new, Told, v
  <2>5. /\ BoxTyped(new) /\ Len(new.badges) = n
        /\ new.observed = b.observed /\ n - new.count = v /\ new.count \in 0..n
        /\ new.over = over
        /\ \A i \in 1..n :
             /\ new.badges[i].value = b.badges[i].value
             /\ new.badges[i].hidden = (i > v)
             /\ new.badges[i].seen \in {b.badges[i].seen, layout}
             /\ Unspoiled(b.badges[i]) => Attended(new.badges[i])
    BY <1>0, <1>1, <2>1, <2>3, <2>4
  <2> USE DEF Told
  <2> QED BY <1>0, <1>2, <2>3, <2>5 DEF new, v
<1>3. CASE ~(n <= 1)
  <2> DEFINE badges == Measure(b.badges)
             over == Relabelled(s, b)
             v == VisibleCount(s, badges, over)
             m == Measured(over, n - v)
             last == IF v = n THEN NoOverflow(m) ELSE Overflow(m, v, n - v)
  <2>1. new = [b EXCEPT !.badges = SetAllHidden(badges, v), !.count = n - v, !.over = last]
    BY <1>3 DEF UpdateContainer
  <2>2. /\ badges \in Seq(Badge) /\ Len(badges) = n
        /\ \A i \in 1..n :
             /\ badges[i].value = b.badges[i].value
             /\ badges[i].seen \in {b.badges[i].seen, layout}
             /\ Unspoiled(b.badges[i]) => Unspoiled(badges[i])
    BY <1>0, MeasureIs
  <2>3. /\ over \in OverflowBadge
        /\ (b.over # None => Unspoiled(b.over)) => Unspoiled(over)
        /\ Current(b) => CurrentOver(over)
    BY RelabelledIs
  <2>4. v \in 0..n
    <3> HIDE DEF over
    <3> QED BY <2>2, VisibleIs
  <2> HIDE DEF badges, over, v
  <2>5. n - v \in Nat /\ (v # n => n - v \in 1..MaxBadges) /\ v \in Nat
    <3> HIDE DEF n
    <3> QED BY <1>0, <2>4
  <2>6. /\ m \in OverflowBadge
        /\ Unspoiled(over) => Unspoiled(m)
        /\ CurrentOver(over) => CurrentOver(m)
    BY <2>3, <2>5, MeasuredIs
  <2> HIDE DEF m
  <2>7. Told(last, v)
    <3>1. CASE v = n
      <4>1. /\ NoOverflow(m) \in OverflowBadge /\ NoOverflow(m).hidden = TRUE
            /\ Unspoiled(m) => Attended(NoOverflow(m))
            /\ CurrentOver(m) => CurrentOver(NoOverflow(m))
        BY <2>6, NoOverflowIs
      <4>2. last = NoOverflow(m) /\ ~(v < n)
        BY <3>1, <1>0
      <4> HIDE DEF last
      <4> QED BY <3>1, <4>1, <4>2, <2>3, <2>6
    <3>2. CASE v # n
      <4> DEFINE k == n - v
      <4>1. k \in 1..MaxBadges
        BY <2>5, <3>2
      <4> HIDE DEF k
      <4>2. /\ Overflow(m, v, k) \in OverflowBadge /\ Overflow(m, v, k).hidden = FALSE
            /\ Overflow(m, v, k).text = k /\ Overflow(m, v, k).said = k
            /\ Overflow(m, v, k).at = v /\ Overflow(m, v, k).width = Plus[k][layout]
            /\ Unspoiled(m) => Attended(Overflow(m, v, k))
            /\ CurrentOver(m) => CurrentOver(Overflow(m, v, k))
        <5>1. v \in Nat /\ m \in OverflowBadge
          BY <2>5, <2>6
        <5>2. Tells(Overflow(m, v, k), m, v, k)
          BY <4>1, <5>1, OverflowIs
        <5> QED BY <5>2 DEF Tells
      <4>3. last = Overflow(m, v, k)
        BY <3>2 DEF k
      <4> HIDE DEF last
      <4> QED BY <3>2, <4>2, <4>3, <2>3, <2>6 DEF k
    <3> QED BY <3>1, <3>2
  <2> HIDE DEF last, new, Told
  <2>8. /\ BoxTyped(new) /\ Len(new.badges) = n
        /\ new.observed = b.observed /\ n - new.count = v /\ new.count \in 0..n
        /\ new.over = last
        /\ \A i \in 1..n :
             /\ new.badges[i].value = b.badges[i].value
             /\ new.badges[i].hidden = (i > v)
             /\ new.badges[i].seen \in {b.badges[i].seen, layout}
             /\ Unspoiled(b.badges[i]) => Attended(new.badges[i])
    BY <1>1, <2>1, <2>2, <2>4, <2>7
  <2> USE DEF Told
  <2> QED BY <1>3, <2>7, <2>8 DEF new, v, badges, over
<1> QED BY <1>2, <1>3

(* The widths that are used are today's.                                   *)
LEMMA FitsIsNeed ==
  ASSUME NEW s \in Selects, NEW badges \in Seq(Badge), NEW over \in OverflowBadge,
         layout \in Layouts, CurrentOver(over), NEW b, Len(b.badges) = Len(badges),
         \A i \in 1..Len(badges) : /\ badges[i].seen = layout
                                   /\ b.badges[i].value = badges[i].value,
         NEW k \in 0..Len(badges)
  PROVE  Fits(s, badges, over, k) <=> Need(b, k) <= Room[s][layout]
<1> DEFINE n == Len(badges)
           mine == [i \in 1..n |-> Natural[badges[i].value][badges[i].seen]]
           today == [i \in 1..n |-> Natural[b.badges[i].value][layout]]
           plus == IF k = n THEN 0 ELSE Plus[n - k][layout]
           gaps == IF k = n THEN Greatest(0, n - 1) ELSE k
           items == k + (IF k < n THEN 1 ELSE 0)
<1>1. n \in Nat
  OBVIOUS
<1>2. mine = today
  OBVIOUS
<1>3. OverflowWidth(over, n - k) = Plus[n - k][layout]
  BY MeasuredAtIs DEF OverflowWidth
<1>4. (IF k < n THEN OverflowWidth(over, n - k) ELSE 0) = plus
  BY <1>1, <1>3
<1>5. Greatest(0, items - 1) = gaps
  BY <1>1 DEF Greatest
<1>6. Fits(s, badges, over, k) =
        (WidthSums(mine)[k] + (IF k < n THEN OverflowWidth(over, n - k) ELSE 0)
           + Greatest(0, items - 1) * Gap <= Room[s][layout])
  BY DEF Fits
<1>7. Need(b, k) = WidthSums(today)[k] + plus + gaps * Gap
  BY DEF Need
<1> HIDE DEF mine, today, plus, gaps, items, n
<1> QED BY <1>2, <1>4, <1>5, <1>6, <1>7

LEMMA UpdateArranges ==
  ASSUME NEW s \in Selects, NEW b, BoxTyped(b), layout \in Layouts, Current(b)
  PROVE  /\ Arranged(s, UpdateContainer(s, b))
         /\ Current(UpdateContainer(s, b))
<1> DEFINE n == Len(b.badges)
           new == UpdateContainer(s, b)
           v == n - new.count
           badges == Measure(b.badges)
           over == Relabelled(s, b)
<1>1. /\ BoxTyped(new) /\ Len(new.badges) = n /\ new.count \in 0..n
      /\ \A i \in 1..n :
           /\ new.badges[i].value = b.badges[i].value
           /\ new.badges[i].hidden = (i > v)
           /\ new.badges[i].seen \in {b.badges[i].seen, layout}
      /\ new.over \in OverflowBadge /\ new.over.hidden = (v = n)
      /\ CurrentOver(new.over)
      /\ v < n => /\ new.over.at = v /\ new.over.text = n - v
                  /\ new.over.said = n - v
                  /\ new.over.width = Plus[n - v][layout]
      /\ n <= 1 => v = n
      /\ n > 1 => v = VisibleCount(s, badges, over)
  BY UpdateIs
<1>2. b.badges \in Seq(Badge) /\ n \in Nat
  BY DEF BoxTyped, Box
<1>3. /\ badges \in Seq(Badge) /\ Len(badges) = n
      /\ \A i \in 1..n : /\ badges[i].value = b.badges[i].value
                         /\ badges[i].seen = layout
  <2>1. /\ badges \in Seq(Badge) /\ Len(badges) = n
        /\ \A i \in 1..n : /\ badges[i].value = b.badges[i].value
                           /\ badges[i].seen =
                                IF b.badges[i].seen = None THEN layout ELSE b.badges[i].seen
    BY <1>2, MeasureIs
  <2>2. \A i \in 1..n : b.badges[i].seen \in {None, layout}
    BY DEF Current
  <2> HIDE DEF badges, n
  <2> QED BY <2>1, <2>2
<1>4. over \in OverflowBadge /\ CurrentOver(over)
  BY RelabelledIs
<1>5. v \in 0..n
  <2> HIDE DEF n, new
  <2> QED BY <1>1, <1>2
<1>6. \A k \in 0..n : Fits(s, badges, over, k) <=> Need(new, k) <= Room[s][layout]
  <2> TAKE k \in 0..n
  <2> HIDE DEF badges, over, new, v
  <2>1. /\ Len(new.badges) = Len(badges) /\ k \in 0..Len(badges)
        /\ \A i \in 1..Len(badges) : /\ badges[i].seen = layout
                                     /\ new.badges[i].value = badges[i].value
    BY <1>1, <1>3
  <2> QED BY <1>3, <1>4, <2>1, FitsIsNeed
<1>7. Room[s][layout] \in Nat
  BY BadgeAssumption
<1>8. n > 1 => /\ Room[s][layout] <= 0 => v = n
               /\ ~(Room[s][layout] <= 0) =>
                    /\ v = 0 \/ Fits(s, badges, over, v)
                    /\ \A k \in (v + 1)..n : ~Fits(s, badges, over, k)
  <2> HIDE DEF badges, over, new, v
  <2>1. n > 1 => v = VisibleCount(s, badges, over)
    BY <1>1
  <2> DEFINE c == VisibleCount(s, badges, over)
  <2>2. /\ Room[s][layout] <= 0 => c = Len(badges)
        /\ ~(Room[s][layout] <= 0) =>
             /\ c = 0 \/ Fits(s, badges, over, c)
             /\ \A k \in (c + 1)..Len(badges) : ~Fits(s, badges, over, k)
    BY <1>3, VisibleIs
  <2> HIDE DEF c
  <2>3. n > 1 => v = c
    BY <2>1 DEF c
  <2> QED BY <1>3, <2>2, <2>3
<1>9. new.over # None
  BY <1>1, NoneAssumption
<1>10. HiddenOf(new) = (v + 1)..n
  <2> HIDE DEF n, new, v
  <2>1. HiddenOf(new) = {i \in 1..n : new.badges[i].hidden}
    BY <1>1 DEF HiddenOf
  <2>2. \A i \in 1..n : new.badges[i].hidden <=> i > v
    BY <1>1
  <2>3. \A i \in 1..n : i > v <=> i \in (v + 1)..n
    BY <1>2, <1>5
  <2>4. (v + 1)..n \subseteq 1..n
    BY <1>2, <1>5
  <2> QED BY <2>1, <2>2, <2>3, <2>4
<1>11. Current(new)
  <2>1. \A i \in 1..n : b.badges[i].seen \in {None, layout}
    BY DEF Current
  <2> HIDE DEF n, new, v
  <2> QED BY <1>1, <2>1 DEF Current
<1>12. Arranged(s, new)
  <2>1. /\ Len(new.badges) = n /\ n - new.count = v
        /\ new.over.hidden <=> v = n
    BY <1>1
  <2>2. n > 1 /\ Room[s][layout] > 0 =>
          /\ Need(new, v) <= Room[s][layout] \/ v = 0
          /\ \A k \in (v + 1)..n : ~(Need(new, k) <= Room[s][layout])
    <3> HIDE DEF n, new, v, badges, over
    <3> SUFFICES ASSUME n > 1, Room[s][layout] > 0
                 PROVE  /\ Need(new, v) <= Room[s][layout] \/ v = 0
                        /\ \A k \in (v + 1)..n : ~(Need(new, k) <= Room[s][layout])
      OBVIOUS
    <3>1. ~(Room[s][layout] <= 0)
      BY <1>7
    <3>2. \A k \in (v + 1)..n : k \in 0..n
      BY <1>2, <1>5
    <3>3. /\ v = 0 \/ Fits(s, badges, over, v)
          /\ \A k \in (v + 1)..n : ~Fits(s, badges, over, k)
      BY <1>8, <3>1
    <3>4. Need(new, v) <= Room[s][layout] \/ v = 0
      BY <3>3, <1>5, <1>6
    <3>5. \A k \in (v + 1)..n : ~(Need(new, k) <= Room[s][layout])
      BY <3>2, <3>3, <1>6
    <3> QED BY <3>4, <3>5
  <2>3. n <= 1 \/ Room[s][layout] = 0 => v = n
    <3> HIDE DEF n, new, v, badges, over
    <3> QED BY <1>1, <1>2, <1>7, <1>8
  <2>4. v < n => /\ new.over.at = v
                 /\ new.over.text = n - v /\ new.over.said = n - v
                 /\ new.over.width = Plus[n - v][layout]
    BY <1>1
  <2>5. Arranged(s, new) <=>
          /\ new.over # None
          /\ HiddenOf(new) = (v + 1)..Len(new.badges)
          /\ new.over.hidden <=> v = Len(new.badges)
          /\ Len(new.badges) > 1 /\ Room[s][layout] > 0 =>
               /\ Need(new, v) <= Room[s][layout] \/ v = 0
               /\ \A k \in (v + 1)..Len(new.badges) : ~(Need(new, k) <= Room[s][layout])
          /\ Len(new.badges) <= 1 \/ Room[s][layout] = 0 => v = Len(new.badges)
          /\ v < Len(new.badges) =>
               /\ new.over.at = v
               /\ new.over.text = Len(new.badges) - v
               /\ new.over.said = Len(new.badges) - v
               /\ new.over.width = Plus[Len(new.badges) - v][layout]
    <3>1. v = Len(new.badges) - new.count
      BY <2>1
    <3> HIDE DEF n, new, v
    <3> QED BY <3>1 DEF Arranged
  <2> HIDE DEF n, new, v
  <2> QED BY <1>9, <1>10, <2>1, <2>2, <2>3, <2>4, <2>5
<1> QED BY <1>11, <1>12

(***************************************************************************)
(* Containers that are made or edited by the select.                       *)
(***************************************************************************)
Plain(x) == x.seen = None /\ Attended(x)
Blank(b) ==
  /\ BoxTyped(b) /\ \A i \in 1..Len(b.badges) : Plain(b.badges[i])
  /\ b.over = None /\ ~b.observed
Kept(new, old) ==
  /\ BoxTyped(new) /\ new.observed = old.observed
  /\ \A k \in 1..Len(new.badges) :
       \/ Plain(new.badges[k])
       \/ \E j \in 1..Len(old.badges) : new.badges[k] = old.badges[j]
  /\ new.over # None =>
       /\ old.over # None
       /\ new.over.hidden = old.over.hidden /\ new.over.tab = old.over.tab
       /\ new.over.kept = old.over.kept /\ new.over.cache = old.over.cache
Named(b) == [i \in 1..Len(b.badges) |-> b.badges[i].value]

LEMMA FreshBoxIs ==
  ASSUME NEW state \in Seq(Values), Len(state) <= MaxBadges
  PROVE  /\ Blank(FreshBox(state)) /\ FreshBox(state) # None
         /\ Named(FreshBox(state)) = state
<1> DEFINE badges == [i \in 1..Len(state) |-> FreshBadge(state[i])]
           new == [badges |-> badges, over |-> None, count |-> 0, observed |-> FALSE]
<1>1. \A v \in Values : FreshBadge(v) \in Badge /\ Plain(FreshBadge(v))
                        /\ FreshBadge(v).value = v
  BY DEF FreshBadge, Badge, Tabs, Measurement, Plain, Attended
<1>2. \A i \in 1..Len(state) : state[i] \in Values
  OBVIOUS
<1>3. badges \in Seq(Badge) /\ Len(badges) = Len(state)
  BY <1>1, <1>2
<1>4. \A i \in 1..Len(state) : Plain(badges[i]) /\ badges[i].value = state[i]
  BY <1>1, <1>2
<1>5. FreshBox(state) = new
  BY DEF FreshBox
<1> HIDE DEF badges
<1>6. new \in Box
  BY <1>3 DEF Box
<1>7. /\ new.badges = badges /\ new.over = None /\ new.observed = FALSE
  OBVIOUS
<1> HIDE DEF new
<1>8. Blank(new) /\ new # None
  BY <1>3, <1>4, <1>6, <1>7, NoneAssumption DEF Blank, BoxTyped
<1>9. Named(new) = [i \in 1..Len(state) |-> state[i]]
  BY <1>3, <1>4, <1>7 DEF Named
<1>10. state = [i \in 1..Len(state) |-> state[i]]
  OBVIOUS
<1> QED BY <1>5, <1>8, <1>9, <1>10

LEMMA WithBadgeIs ==
  ASSUME NEW b, BoxTyped(b), NEW v \in Values, Len(b.badges) < MaxBadges
  PROVE  /\ Kept(WithBadge(b, v), b) /\ WithBadge(b, v) # None
         /\ Named(WithBadge(b, v)) = Append(Named(b), v)
<1> DEFINE n == Len(b.badges)
           badges == Append(b.badges, FreshBadge(v))
           new == [b EXCEPT !.badges = badges]
<1>1. FreshBadge(v) \in Badge /\ Plain(FreshBadge(v)) /\ FreshBadge(v).value = v
  BY DEF FreshBadge, Badge, Tabs, Measurement, Plain, Attended
<1>2. b \in Box /\ b.badges \in Seq(Badge) /\ n \in Nat
  BY DEF BoxTyped, Box
<1>3. /\ badges \in Seq(Badge) /\ Len(badges) = n + 1
      /\ \A i \in 1..n : badges[i] = b.badges[i]
      /\ badges[n + 1] = FreshBadge(v)
  BY <1>1, <1>2
<1>4. WithBadge(b, v) = new
  BY <1>2 DEF WithBadge, Box
<1> HIDE DEF badges
<1>5. /\ new \in Box /\ new.badges = badges /\ new.over = b.over
      /\ new.observed = b.observed
  BY <1>2, <1>3 DEF Box
<1>6. BoxTyped(new)
  BY <1>2, <1>3, <1>5, BadgeAssumption DEF BoxTyped
<1>7. \A k \in 1..Len(badges) :
        Plain(badges[k]) \/ \E j \in 1..n : badges[k] = b.badges[j]
  <2> TAKE k \in 1..Len(badges)
  <2>1. k \in 1..n \/ k = n + 1
    BY <1>2, <1>3
  <2> QED BY <2>1, <1>1, <1>3
<1>8. Named(new) = Append(Named(b), v)
  <2> DEFINE names == Named(b)
             left == [i \in 1..(n + 1) |-> badges[i].value]
             right == Append(names, v)
  <2>1. names = [i \in 1..n |-> b.badges[i].value]
    BY DEF Named
  <2>2. \A i \in 1..n : b.badges[i].value \in Values
    <3> SUFFICES ASSUME NEW i \in 1..n PROVE b.badges[i].value \in Values
      OBVIOUS
    <3>1. b.badges[i] \in Badge
      BY <1>2
    <3> QED BY <3>1 DEF Badge
  <2>3. names \in Seq(Values) /\ Len(names) = n
    BY <2>1, <2>2, <1>2
  <2>4. \A i \in 1..n : names[i] = b.badges[i].value
    BY <2>1
  <2> HIDE DEF names
  <2>5. /\ right \in Seq(Values) /\ Len(right) = n + 1
        /\ \A i \in 1..n : right[i] = names[i]
        /\ right[n + 1] = v
    BY <2>3
  <2>6. Named(new) = left
    BY <1>3, <1>5 DEF Named
  <2>7. \A i \in 1..(n + 1) : left[i] = right[i]
    <3> TAKE i \in 1..(n + 1)
    <3>1. i \in 1..n \/ i = n + 1
      BY <1>2
    <3>2. left[i] = badges[i].value
      OBVIOUS
    <3> QED BY <3>1, <3>2, <1>1, <1>3, <2>4, <2>5
  <2>8. right \in [1..(n + 1) -> Values]
    BY <2>5, LenProperties
  <2>9. left = [i \in 1..(n + 1) |-> left[i]]
    OBVIOUS
  <2> HIDE DEF left, right
  <2>10. left = right
    BY <2>7, <2>8, <2>9
  <2> QED BY <2>6, <2>10 DEF right, names
<1> HIDE DEF new
<1> QED BY <1>4, <1>5, <1>6, <1>7, <1>8, NoneAssumption DEF Kept

(* WithoutBadge takes out the i-th badge, which is the first that shows v. *)
LEMMA WithoutBadgeIs ==
  ASSUME NEW b, BoxTyped(b), NEW v \in Shown(b)
  PROVE  /\ Kept(WithoutBadge(b, v), b) /\ WithoutBadge(b, v) # None
         /\ \E i \in 1..Len(b.badges) :
              /\ b.badges[i].value = v
              /\ Len(WithoutBadge(b, v).badges) = Len(b.badges) - 1
              /\ \A k \in 1..(Len(b.badges) - 1) :
                   WithoutBadge(b, v).badges[k] = b.badges[IF k < i THEN k ELSE k + 1]
<1> DEFINE n == Len(b.badges)
           first(i) == /\ b.badges[i].value = v
                       /\ \A j \in 1..(i - 1) : b.badges[j].value # v
           i == CHOOSE k \in 1..n : first(k)
           badges == SubSeq(b.badges, 1, i - 1) \o SubSeq(b.badges, i + 1, n)
           over == IF b.over = None THEN None
                   ELSE [b.over EXCEPT !.at = IF i <= b.over.at THEN b.over.at - 1 ELSE b.over.at]
           new == [b EXCEPT !.badges = badges, !.over = over]
<1>1. b \in Box /\ b.badges \in Seq(Badge) /\ n \in Nat /\ n <= MaxBadges
  BY DEF BoxTyped, Box
<1>2. i \in 1..n /\ first(i)
  <2> DEFINE all == {k \in 1..n : b.badges[k].value = v}
  <2>1. PICK k \in 1..n : b.badges[k].value = v
    <3>1. v \in {x.value : x \in {x \in Set(b.badges) : TRUE}} \/ v \in {x.value : x \in Set(b.badges)}
      BY <1>1, NoneAssumption DEF Shown
    <3> QED BY <3>1 DEF Set
  <2>2. all \in SUBSET Nat /\ all # {}
    BY <2>1, <1>1
  <2>3. PICK m \in all : \A y \in all : m <= y
    BY <2>2, LeastNumber
  <2>4. ASSUME NEW j \in 1..(m - 1) PROVE b.badges[j].value # v
    <3>1. j \in 1..n /\ ~(m <= j)
      BY <1>1
    <3> QED BY <3>1, <2>3
  <2>5. first(m) /\ m \in 1..n
    BY <2>4
  <2> HIDE DEF first
  <2> QED BY <2>5
<1>3. WithoutBadge(b, v) = new
  BY <1>1 DEF WithoutBadge, Box
<1> HIDE DEF i
<1>4. /\ badges \in Seq(Badge) /\ Len(badges) = n - 1
      /\ \A k \in 1..(n - 1) : badges[k] = b.badges[IF k < i THEN k ELSE k + 1]
  <2> DEFINE s1 == SubSeq(b.badges, 1, i - 1)
             s2 == SubSeq(b.badges, i + 1, n)
  <2>1. /\ s1 \in Seq(Badge) /\ Len(s1) = i - 1
        /\ \A k \in 1..(i - 1) : s1[k] = b.badges[k]
    BY <1>1, <1>2
  <2>2. /\ s2 \in Seq(Badge) /\ Len(s2) = n - i
        /\ \A k \in 1..(n - i) : s2[k] = b.badges[i + k]
    BY <1>1, <1>2
  <2> HIDE DEF s1, s2
  <2>3. /\ s1 \o s2 \in Seq(Badge) /\ Len(s1 \o s2) = n - 1
        /\ \A k \in 1..(n - 1) : (s1 \o s2)[k] = IF k <= i - 1 THEN s1[k] ELSE s2[k - (i - 1)]
    <3>1. /\ s1 \o s2 \in Seq(Badge) /\ Len(s1 \o s2) = Len(s1) + Len(s2)
          /\ \A k \in 1..(Len(s1) + Len(s2)) :
               (s1 \o s2)[k] = IF k <= Len(s1) THEN s1[k] ELSE s2[k - Len(s1)]
      BY <2>1, <2>2, ConcatProperties
    <3>2. Len(s1) + Len(s2) = n - 1
      BY <2>1, <2>2, <1>1, <1>2
    <3> QED BY <3>1, <3>2, <2>1
  <2>4. \A k \in 1..(n - 1) : (s1 \o s2)[k] = b.badges[IF k < i THEN k ELSE k + 1]
    <3> TAKE k \in 1..(n - 1)
    <3>1. CASE k < i
      BY <3>1, <2>1, <2>3, <1>1, <1>2
    <3>2. CASE ~(k < i)
      <4>1. k - (i - 1) \in 1..(n - i) /\ i + (k - (i - 1)) = k + 1 /\ ~(k <= i - 1)
        BY <3>2, <1>1, <1>2
      <4> QED BY <3>2, <4>1, <2>2, <2>3
    <3> QED BY <3>1, <3>2
  <2> QED BY <2>3, <2>4 DEF s1, s2
<1>5. /\ over \in OverflowBadge \cup {None}
      /\ over # None =>
           /\ b.over # None
           /\ over.hidden = b.over.hidden /\ over.tab = b.over.tab
           /\ over.kept = b.over.kept /\ over.cache = b.over.cache
  <2>1. CASE b.over = None
    BY <2>1
  <2>2. CASE b.over # None
    <3>1. b.over \in OverflowBadge
      BY <1>1, <2>2 DEF Box
    <3>2. (IF i <= b.over.at THEN b.over.at - 1 ELSE b.over.at) \in Nat
      BY <3>1, <1>1, <1>2 DEF OverflowBadge
    <3> DEFINE at == IF i <= b.over.at THEN b.over.at - 1 ELSE b.over.at
    <3>3. over = [b.over EXCEPT !.at = at]
      BY <2>2
    <3> HIDE DEF at, over
    <3> QED BY <2>2, <3>1, <3>2, <3>3 DEF OverflowBadge, at
  <2> QED BY <2>1, <2>2
<1> HIDE DEF badges, over
<1>6. /\ new \in Box /\ new.badges = badges /\ new.over = over
      /\ new.observed = b.observed
  BY <1>1, <1>4, <1>5 DEF Box
<1>7. BoxTyped(new)
  BY <1>1, <1>4, <1>6, BadgeAssumption DEF BoxTyped
<1>8. \A k \in 1..(n - 1) : \E j \in 1..n : badges[k] = b.badges[j]
  <2> TAKE k \in 1..(n - 1)
  <2>1. (IF k < i THEN k ELSE k + 1) \in 1..n
    BY <1>1, <1>2
  <2> QED BY <2>1, <1>4
<1> HIDE DEF new, n
<1>9. Kept(new, b) /\ new # None
  BY <1>4, <1>5, <1>6, <1>7, <1>8, NoneAssumption DEF Kept, n
<1> QED BY <1>2, <1>3, <1>4, <1>6, <1>9 DEF n

(***************************************************************************)
(* Selections without repetition.                                          *)
(***************************************************************************)
LEMMA WithoutDistinct ==
  ASSUME NEW S, NEW seq \in Seq(S), Distinct(seq), NEW gone
  PROVE  Distinct(Without(seq, gone))
<1> DEFINE new == Without(seq, gone)
           left == Left(seq, gone)
           rank(i) == Cardinality(UpTo(left, i))
<1>1. \A k \in 1..Len(new) : \E i \in left : rank(i) = k /\ new[k] = seq[i]
  BY WithoutIs
<1>2. \A i, j \in left : seq[i] = seq[j] => i = j
  BY DEF Left, Distinct
<1> HIDE DEF new, left, rank
<1>3. ASSUME NEW k \in 1..Len(new), NEW m \in 1..Len(new), new[k] = new[m]
      PROVE  k = m
  <2>1. PICK i \in left : rank(i) = k /\ new[k] = seq[i]
    BY <1>1
  <2>2. PICK j \in left : rank(j) = m /\ new[m] = seq[j]
    BY <1>1
  <2>3. i = j
    BY <1>2, <1>3, <2>1, <2>2
  <2> QED BY <2>1, <2>2, <2>3
<1>4. Distinct(new)
  BY <1>3 DEF Distinct
<1> QED BY <1>4 DEF new

LEMMA WithoutOne ==
  ASSUME NEW S, NEW seq \in Seq(S), Distinct(seq), NEW i \in 1..Len(seq)
  PROVE  /\ Len(Without(seq, {seq[i]})) = Len(seq) - 1
         /\ \A k \in 1..(Len(seq) - 1) :
              Without(seq, {seq[i]})[k] = seq[IF k < i THEN k ELSE k + 1]
<1> DEFINE n == Len(seq)
           new == Without(seq, {seq[i]})
           left == Left(seq, {seq[i]})
           rank(j) == Cardinality(UpTo(left, j))
<1>1. n \in Nat
  OBVIOUS
<1>2. left = (1..n) \ {i}
  BY DEF Left, Distinct
<1>3. \A m \in 0..n : IsFiniteSet(1..m) /\ Cardinality(1..m) = m
  BY <1>1, FS_Interval
<1>4. Cardinality(left) = n - 1
  <2>1. n \in 0..n
    BY <1>1
  <2>2. IsFiniteSet(1..n) /\ Cardinality(1..n) = n
    BY <1>3, <2>1
  <2> HIDE DEF left
  <2> QED BY <1>2, <2>2, FS_RemoveElement
<1>5. \A j \in left : rank(j) = IF j < i THEN j ELSE j - 1
  <2> TAKE j \in left
  <2>1. j \in 1..n /\ j # i /\ j \in 0..n
    <3> HIDE DEF left
    <3>1. j \in (1..n) \ {i}
      BY <1>2
    <3> QED BY <1>1, <3>1
  <2>2. IsFiniteSet(1..j) /\ Cardinality(1..j) = j
    BY <1>3, <2>1
  <2>3. CASE j < i
    <3>1. UpTo(left, j) = 1..j
      <4>1. \A m \in 1..n : m <= j <=> m \in 1..j
        BY <2>1
      <4>2. \A m \in 1..j : m \in 1..n /\ m # i
        BY <1>1, <2>1, <2>3
      <4> HIDE DEF left
      <4> QED BY <1>2, <4>1, <4>2 DEF UpTo
    <3> QED BY <2>2, <2>3, <3>1
  <2>4. CASE ~(j < i)
    <3>1. UpTo(left, j) = (1..j) \ {i}
      <4>1. \A m \in 1..n : m <= j <=> m \in 1..j
        BY <2>1
      <4>2. \A m \in 1..j : m \in 1..n
        BY <1>1, <2>1
      <4> HIDE DEF left
      <4> QED BY <1>2, <4>1, <4>2 DEF UpTo
    <3>2. i \in 1..j
      BY <2>1, <2>4
    <3>3. Cardinality((1..j) \ {i}) = j - 1
      BY <2>2, <3>2, FS_RemoveElement
    <3> QED BY <2>4, <3>1, <3>3
  <2> QED BY <2>3, <2>4
<1>6. /\ Len(new) = Cardinality(left)
      /\ \A k \in 1..Len(new) : \E j \in left : rank(j) = k /\ new[k] = seq[j]
  <2> DEFINE gone == {seq[i]}
  <2> HIDE DEF gone
  <2>1. LET l == Left(seq, gone)
        IN /\ Len(Without(seq, gone)) = Cardinality(l)
           /\ \A k \in 1..Len(Without(seq, gone)) :
                \E j \in l : /\ Cardinality(UpTo(l, j)) = k
                             /\ Without(seq, gone)[k] = seq[j]
    BY WithoutIs
  <2> QED BY <2>1 DEF gone
<1>7. \A j \in left : j \in 1..n /\ j # i
  BY <1>2
<1> HIDE DEF new, left, rank
<1>8. \A k \in 1..(n - 1) : new[k] = seq[IF k < i THEN k ELSE k + 1]
  <2> TAKE k \in 1..(n - 1)
  <2>1. PICK j \in left : rank(j) = k /\ new[k] = seq[j]
    BY <1>4, <1>6
  <2>2. j = IF k < i THEN k ELSE k + 1
    <3>1. k = IF j < i THEN j ELSE j - 1
      BY <1>5, <2>1
    <3>2. j \in 1..n /\ j # i
      BY <1>7
    <3> QED BY <1>1, <3>1, <3>2
  <2> QED BY <2>1, <2>2
<1> QED BY <1>4, <1>6, <1>8 DEF new

(***************************************************************************)
(* The list of options: what its recursion computes.                       *)
(***************************************************************************)
(* What is defined step by step, each from the one before, exists.         *)
Iterates(f, n, first, step) == f[0] = first /\ \A k \in 1..n : f[k] = step[k][f[k - 1]]

LEMMA StepByStep ==
  ASSUME NEW n \in Nat, NEW V, NEW first \in V, NEW step \in [1..n -> [V -> V]]
  PROVE  \E f \in [0..n -> V] : Iterates(f, n, first, step)
<1> USE DEF Iterates
<1> DEFINE S == {m \in 0..n : \E f \in [0..m -> V] : Iterates(f, m, first, step)}
<1>1. 0 \in S
  <2> DEFINE f == [k \in 0..0 |-> first]
  <2>1. f \in [0..0 -> V] /\ f[0] = first /\ (\A k \in 1..0 : FALSE)
    OBVIOUS
  <2> HIDE DEF f
  <2>2. Iterates(f, 0, first, step)
    BY <2>1
  <2> QED BY <2>1, <2>2
<1>2. ASSUME NEW m \in 1..n, m - 1 \in S PROVE m \in S
  <2>1. PICK f \in [0..(m - 1) -> V] : Iterates(f, m - 1, first, step)
    BY <1>2
  <2> DEFINE g == [k \in 0..m |-> IF k = m THEN step[m][f[m - 1]] ELSE f[k]]
  <2>2. m - 1 \in 0..(m - 1) /\ step[m] \in [V -> V] /\ f[m - 1] \in V
    OBVIOUS
  <2>3. \A k \in 0..m : k = m \/ k \in 0..(m - 1)
    OBVIOUS
  <2>4. g \in [0..m -> V]
    BY <2>2, <2>3
  <2>5. g[0] = first /\ g[m] = step[m][f[m - 1]] /\ g[m - 1] = f[m - 1]
    BY <2>1
  <2>6. ASSUME NEW k \in 1..(m - 1) PROVE g[k] = step[k][g[k - 1]]
    <3>1. g[k] = f[k] /\ g[k - 1] = f[k - 1]
      BY <2>6
    <3> QED BY <2>1, <2>6, <3>1
  <2> HIDE DEF g
  <2>7. \A k \in 1..m : g[k] = step[k][g[k - 1]]
    <3> TAKE k \in 1..m
    <3>1. CASE k = m
      BY <2>5, <3>1
    <3>2. CASE k # m
      <4>1. k \in 1..(m - 1)
        BY <3>2
      <4> QED BY <2>6, <4>1
    <3> QED BY <3>1, <3>2
  <2> QED BY <2>4, <2>5, <2>7
<1> HIDE DEF S
<1>3. \A m \in 1..n : m - 1 \in S => m \in S
  BY <1>2
<1>4. n \in S
  <2>1. \A m \in 0..n : m \in S
    BY <1>1, <1>3, UpToTheLast
  <2> QED BY <2>1
<1> QED BY <1>4 DEF S

Options == [group: BOOLEAN, values: Seq(Values)]

(* One place further in the list.                                          *)
Further(options, limit, n, before) ==
  IF limit > 0 /\ Len(before) >= limit THEN before
  ELSE IF limit > 0 /\ options[n].group
  THEN before \o Slice(options[n].values, limit - Len(before))
  ELSE before \o options[n].values

LEMMA SliceIs ==
  ASSUME NEW S, NEW values \in Seq(S), NEW k \in Nat
  PROVE  Slice(values, k) \in Seq(S)
<1> DEFINE m == IF k < Len(values) THEN k ELSE Len(values)
<1>1. m \in Nat /\ m <= Len(values)
  OBVIOUS
<1>2. Slice(values, k) = SubSeq(values, 1, m)
  BY DEF Slice, Least
<1> HIDE DEF m
<1>3. SubSeq(values, 1, m) = [i \in 1..m |-> values[i]]
  BY <1>1
<1>4. \A i \in 1..m : values[i] \in S
  BY <1>1
<1> QED BY <1>1, <1>2, <1>3, <1>4

LEMMA FurtherIs ==
  ASSUME NEW options \in Seq(Options), NEW limit \in Nat, NEW n \in 1..Len(options),
         NEW before \in Seq(Values)
  PROVE  Further(options, limit, n, before) \in Seq(Values)
<1>1. options[n] \in Options
  OBVIOUS
<1>2. options[n].values \in Seq(Values) /\ Len(before) \in Nat
  BY <1>1 DEF Options
<1>3. limit > 0 /\ ~(Len(before) >= limit) => limit - Len(before) \in Nat
  BY <1>2
<1>4. limit > 0 /\ ~(Len(before) >= limit)
        => Slice(options[n].values, limit - Len(before)) \in Seq(Values)
  BY <1>2, <1>3, SliceIs
<1>5. \A more \in Seq(Values) : before \o more \in Seq(Values)
  OBVIOUS
<1> QED BY <1>2, <1>4, <1>5 DEF Further

(* The same on the three parts of the list.                                *)
Parts == [before: Seq(Values), ungrouped: Seq(Values), after: Seq(Values)]
Turn(options, limit, n, r) ==
  IF limit > 0 /\ CountOf(r) >= limit THEN r
  ELSE Appended(r, options[n].group,
                IF limit > 0 /\ options[n].group
                THEN Slice(options[n].values, limit - CountOf(r))
                ELSE options[n].values)

LEMMA TurnIs ==
  ASSUME NEW options \in Seq(Options), NEW limit \in Nat, NEW n \in 1..Len(options),
         NEW r \in Parts
  PROVE  Turn(options, limit, n, r) \in Parts
<1>1. options[n] \in Options
  OBVIOUS
<1>2. options[n].values \in Seq(Values) /\ CountOf(r) \in Nat
  BY <1>1 DEF Options, Parts, CountOf
<1>3. limit > 0 /\ ~(CountOf(r) >= limit) => limit - CountOf(r) \in Nat
  BY <1>2
<1>4. limit > 0 /\ ~(CountOf(r) >= limit)
        => Slice(options[n].values, limit - CountOf(r)) \in Seq(Values)
  BY <1>2, <1>3, SliceIs
<1>5. \A more \in Seq(Values) : Appended(r, options[n].group, more) \in Parts
  <2> TAKE more \in Seq(Values)
  <2>1. /\ r.before \o more \in Seq(Values) /\ r.ungrouped \o more \in Seq(Values)
        /\ r.after \o more \in Seq(Values)
    BY DEF Parts
  <2> QED BY <2>1 DEF Appended, Parts
<1> QED BY <1>2, <1>4, <1>5 DEF Turn

LEMMA RenderedIs ==
  ASSUME NEW options \in Seq(Options), NEW limit \in Nat
  PROVE  \E rendered \in [0..Len(options) -> Parts] :
           /\ LET all == rendered[Len(options)]
              IN RenderedOptions(options, limit) = all.before \o all.ungrouped \o all.after
           /\ rendered[0] = Nothing
           /\ \A n \in 1..Len(options) :
                rendered[n] = Turn(options, limit, n, rendered[n - 1])
<1> DEFINE N == Len(options)
           V == Parts
           More(n, r) ==
             IF limit > 0 /\ CountOf(r) >= limit THEN r
             ELSE Appended(r, options[n].group,
                           IF limit > 0 /\ options[n].group
                           THEN Slice(options[n].values, limit - CountOf(r))
                           ELSE options[n].values)
           rendered == CHOOSE g : g = [n \in 0..N |-> IF n = 0 THEN Nothing ELSE More(n, g[n - 1])]
<1>1. RenderedOptions(options, limit)
        = rendered[N].before \o rendered[N].ungrouped \o rendered[N].after
  BY DEF RenderedOptions
<1>2. N \in Nat /\ Nothing \in V
  BY DEF Nothing, Parts
<1>3. \A n, r : More(n, r) = Turn(options, limit, n, r)
  BY DEF Turn
<1> HIDE DEF N, More
<1>4. \A n \in 1..N, r \in V : More(n, r) \in V
  BY <1>3, TurnIs DEF N
<1> DEFINE step == [n \in 1..N |-> [r \in V |-> More(n, r)]]
<1>5. step \in [1..N -> [V -> V]]
  BY <1>4
<1> HIDE DEF V, rendered
<1>6. PICK f \in [0..N -> V] : f[0] = Nothing /\ \A n \in 1..N : f[n] = step[n][f[n - 1]]
  <2> HIDE DEF step
  <2>1. PICK f \in [0..N -> V] : Iterates(f, N, Nothing, step)
    BY <1>2, <1>5, StepByStep
  <2> QED BY <2>1 DEF Iterates
<1>7. \A n \in 1..N : n - 1 \in 0..N
  BY <1>2
<1>8. \A n \in 0..N : f[n] = IF n = 0 THEN Nothing ELSE More(n, f[n - 1])
  <2>1. ASSUME NEW n \in 1..N PROVE f[n] = More(n, f[n - 1])
    <3>1. f[n - 1] \in V
      BY <1>7
    <3>2. f[n] = step[n][f[n - 1]]
      BY <1>6
    <3> QED BY <3>1, <3>2
  <2>2. \A n \in 0..N : n = 0 \/ n \in 1..N
    BY <1>2
  <2> QED BY <1>6, <2>1, <2>2
<1>9. f = [n \in 0..N |-> IF n = 0 THEN Nothing ELSE More(n, f[n - 1])]
  BY <1>6, <1>8
<1>10. rendered = [n \in 0..N |-> IF n = 0 THEN Nothing ELSE More(n, rendered[n - 1])]
  BY <1>9 DEF rendered
<1>11. rendered[0] = Nothing /\ \A n \in 1..N : rendered[n] = More(n, rendered[n - 1])
  BY <1>2, <1>10
<1>12. \A n \in 0..N : rendered[n] \in V
  <2> DEFINE S == {n \in 0..N : rendered[n] \in V}
  <2>1. 0 \in S /\ \A n \in 1..N : n - 1 \in S => n \in S
    BY <1>2, <1>4, <1>7, <1>11
  <2> HIDE DEF S
  <2>2. \A n \in 0..N : n \in S
    BY <1>2, <2>1, UpToTheLast
  <2> QED BY <2>2 DEF S
<1>13. rendered \in [0..N -> V]
  BY <1>10, <1>12
<1> QED BY <1>1, <1>3, <1>11, <1>13 DEF N, V

(* The list without a limit.                                               *)
LEMMA FlatIs ==
  ASSUME NEW options \in Seq(Options)
  PROVE  \E all \in [0..Len(options) -> Seq(Values)] :
           /\ FirstOptions(options) =
                IF OptionsLimit = 0 THEN all[Len(options)]
                ELSE SubSeq(all[Len(options)], 1, Least(OptionsLimit, Len(all[Len(options)])))
           /\ all[0] = <<>>
           /\ \A n \in 1..Len(options) : all[n] = all[n - 1] \o options[n].values
<1> DEFINE N == Len(options)
           V == Seq(Values)
           More(n, before) == before \o options[n].values
           all == CHOOSE g : g = [n \in 0..N |-> IF n = 0 THEN <<>> ELSE More(n, g[n - 1])]
<1>1. FirstOptions(options) =
        IF OptionsLimit = 0 THEN all[N]
        ELSE SubSeq(all[N], 1, Least(OptionsLimit, Len(all[N])))
  BY DEF FirstOptions
<1>2. N \in Nat /\ <<>> \in V
  OBVIOUS
<1>3. \A n \in 1..N, before \in V : More(n, before) \in V
  <2> TAKE n \in 1..N, before \in V
  <2>1. options[n] \in Options
    OBVIOUS
  <2>2. options[n].values \in Seq(Values)
    BY <2>1 DEF Options
  <2> QED BY <2>2
<1> HIDE DEF N, More, V, all
<1> DEFINE step == [n \in 1..N |-> [before \in V |-> More(n, before)]]
<1>4. step \in [1..N -> [V -> V]]
  BY <1>3
<1>5. PICK f \in [0..N -> V] : f[0] = <<>> /\ \A n \in 1..N : f[n] = More(n, f[n - 1])
  <2> HIDE DEF step
  <2>1. PICK f \in [0..N -> V] : Iterates(f, N, <<>>, step)
    BY <1>2, <1>4, StepByStep
  <2>2. \A n \in 1..N : f[n] = step[n][f[n - 1]] /\ f[n - 1] \in V
    BY <1>2, <2>1 DEF Iterates
  <2>3. \A n \in 1..N : f[n] = More(n, f[n - 1])
    BY <2>2 DEF step
  <2> QED BY <2>1, <2>3 DEF Iterates
<1>6. \A n \in 1..N : n - 1 \in 0..N
  BY <1>2
<1>7. \A n \in 0..N : f[n] = IF n = 0 THEN <<>> ELSE More(n, f[n - 1])
  BY <1>2, <1>5
<1>8. f = [n \in 0..N |-> IF n = 0 THEN <<>> ELSE More(n, f[n - 1])]
  BY <1>5, <1>7
<1>9. all = [n \in 0..N |-> IF n = 0 THEN <<>> ELSE More(n, all[n - 1])]
  BY <1>8 DEF all
<1>10. all[0] = <<>> /\ \A n \in 1..N : all[n] = More(n, all[n - 1])
  BY <1>2, <1>9
<1>11. \A n \in 0..N : all[n] \in V
  <2> DEFINE S == {n \in 0..N : all[n] \in V}
  <2>1. 0 \in S /\ \A n \in 1..N : n - 1 \in S => n \in S
    BY <1>2, <1>3, <1>6, <1>10
  <2> HIDE DEF S
  <2>2. \A n \in 0..N : n \in S
    BY <1>2, <2>1, UpToTheLast
  <2> QED BY <2>2 DEF S
<1>12. all \in [0..N -> V]
  BY <1>9, <1>11
<1> QED BY <1>1, <1>10, <1>12 DEF N, V, More

(* What is cut off behind a list, or from its own end, leaves its start.   *)
LEMMA StartOfBoth ==
  ASSUME NEW s \in Seq(Values), NEW t \in Seq(Values), NEW k \in 0..Len(s)
  PROVE  SubSeq(s \o t, 1, k) = SubSeq(s, 1, k)
<1>1. SubSeq(s, 1, k) = [i \in 1..k |-> s[i]]
  OBVIOUS
<1>2. Len(s \o t) = Len(s) + Len(t) /\ s \o t \in Seq(Values)
  OBVIOUS
<1>3. \A i \in 1..Len(s) : (s \o t)[i] = s[i]
  OBVIOUS
<1> DEFINE both == s \o t
<1> HIDE DEF both
<1>4. SubSeq(both, 1, k) = [i \in 1..k |-> both[i]]
  BY <1>2 DEF both
<1>5. \A i \in 1..k : both[i] = s[i]
  BY <1>3 DEF both
<1> QED BY <1>1, <1>4, <1>5 DEF both

LEMMA CutBehind ==
  ASSUME NEW s \in Seq(Values), NEW t \in Seq(Values), NEW k \in 0..Len(t)
  PROVE  s \o SubSeq(t, 1, k) = SubSeq(s \o t, 1, Len(s) + k)
<1> DEFINE both == s \o t
           cut == SubSeq(t, 1, k)
<1>1. /\ both \in Seq(Values) /\ Len(both) = Len(s) + Len(t)
      /\ \A i \in 1..(Len(s) + Len(t)) : both[i] = IF i <= Len(s) THEN s[i] ELSE t[i - Len(s)]
  OBVIOUS
<1>2. cut = [i \in 1..k |-> t[i]] /\ Len(cut) = k /\ cut \in Seq(Values)
  <2>1. cut = [i \in 1..k |-> t[i]] /\ \A i \in 1..k : t[i] \in Values
    OBVIOUS
  <2> QED BY <2>1
<1> HIDE DEF both, cut
<1>3. s \o cut = [i \in 1..(Len(s) + k) |-> IF i <= Len(s) THEN s[i] ELSE cut[i - Len(s)]]
  BY <1>2
<1>4. SubSeq(both, 1, Len(s) + k) = [i \in 1..(Len(s) + k) |-> both[i]]
  BY <1>1
<1>5. \A i \in 1..(Len(s) + k) :
        both[i] = IF i <= Len(s) THEN s[i] ELSE cut[i - Len(s)]
  BY <1>1, <1>2
<1> QED BY <1>3, <1>4, <1>5 DEF both, cut

LEMMA WholeList ==
  ASSUME NEW s \in Seq(Values)
  PROVE  SubSeq(s, 1, Len(s)) = s
<1>1. SubSeq(s, 1, Len(s)) = [i \in 1..Len(s) |-> s[i]] /\ s = [i \in 1..Len(s) |-> s[i]]
  OBVIOUS
<1> QED BY <1>1

(* One option at a time the list is the first part of all the options.     *)
FirstOf(all, limit) == IF limit = 0 THEN all ELSE SubSeq(all, 1, Least(limit, Len(all)))

LEMMA FurtherIsFirst ==
  ASSUME NEW options \in Seq(Options), NEW limit \in Nat, NEW n \in 1..Len(options),
         ~options[n].group => Len(options[n].values) = 1,
         NEW all \in Seq(Values)
  PROVE  Further(options, limit, n, FirstOf(all, limit))
           = FirstOf(all \o options[n].values, limit)
<1> DEFINE more == options[n].values
           m == Len(all)
           k == Len(more)
           both == all \o more
<1>1. options[n] \in Options
  OBVIOUS
<1>2. more \in Seq(Values) /\ m \in Nat /\ k \in Nat
  BY <1>1 DEF Options
<1>3. both \in Seq(Values) /\ Len(both) = m + k
  BY <1>2
<1>4. CASE limit = 0
  BY <1>4 DEF Further, FirstOf
<1>5. CASE limit > 0 /\ m >= limit
  <2>1. FirstOf(all, limit) = SubSeq(all, 1, limit)
    BY <1>2, <1>5 DEF FirstOf, Least, m
  <2>2. Len(SubSeq(all, 1, limit)) = limit
    BY <1>5
  <2>3. FirstOf(both, limit) = SubSeq(both, 1, limit)
    <3> HIDE DEF both
    <3> QED BY <1>2, <1>3, <1>5 DEF FirstOf, Least
  <2>4. SubSeq(both, 1, limit) = SubSeq(all, 1, limit)
    BY <1>2, <1>5, StartOfBoth
  <2>5. Further(options, limit, n, SubSeq(all, 1, limit)) = SubSeq(all, 1, limit)
    <3> DEFINE start == SubSeq(all, 1, limit)
    <3>1. limit > 0 /\ Len(start) >= limit
      BY <1>5, <2>2
    <3> HIDE DEF start
    <3>2. Further(options, limit, n, start) = start
      BY <3>1, Zenon DEF Further
    <3> QED BY <3>2 DEF start
  <2> HIDE DEF both, m, more
  <2> QED BY <2>1, <2>3, <2>4, <2>5 DEF both, more
<1>6. CASE limit > 0 /\ m < limit
  <2>1. FirstOf(all, limit) = all
    BY <1>2, <1>6, WholeList DEF FirstOf, Least
  <2> DEFINE room == limit - m
             cut == Least(room, k)
  <2>2. room \in Nat /\ cut \in 0..k /\ ~(m >= limit)
    BY <1>2, <1>6 DEF Least
  <2>3. CASE options[n].group
    <3>1. Further(options, limit, n, all) = all \o SubSeq(more, 1, cut)
      BY <1>6, <2>2, <2>3 DEF Further, Slice
    <3>2. all \o SubSeq(more, 1, cut) = SubSeq(both, 1, m + cut)
      <4> HIDE DEF cut
      <4> QED BY <1>2, <2>2, CutBehind
    <3>3. m + cut = Least(limit, m + k)
      <4> HIDE DEF m, k
      <4> QED BY <1>2, <1>6 DEF Least
    <3>4. FirstOf(both, limit) = SubSeq(both, 1, m + cut)
      <4>1. Least(limit, Len(both)) = m + cut /\ limit # 0
        <5> HIDE DEF both, m, k, cut
        <5> QED BY <1>3, <1>6, <3>3
      <4> HIDE DEF both, m, k, cut
      <4> QED BY <4>1, Zenon DEF FirstOf
    <3> QED BY <2>1, <3>1, <3>2, <3>4
  <2>4. CASE ~options[n].group
    <3>1. Further(options, limit, n, all) = both
      BY <2>2, <2>4 DEF Further
    <3>2. k = 1 /\ m + k <= limit
      <4>1. k = 1
        BY <2>4, Zenon
      <4> HIDE DEF m, k
      <4> QED BY <1>2, <1>6, <4>1
    <3>3. FirstOf(both, limit) = both
      <4>1. Least(limit, m + k) = m + k
        <5> HIDE DEF m, k
        <5> QED BY <1>2, <1>6, <3>2 DEF Least
      <4> HIDE DEF both, m, k
      <4> QED BY <1>3, <1>6, <4>1, WholeList DEF FirstOf
    <3> QED BY <2>1, <3>1, <3>3
  <2> QED BY <2>3, <2>4
<1>7. limit = 0 \/ (limit > 0 /\ m >= limit) \/ (limit > 0 /\ m < limit)
  <2> HIDE DEF m
  <2> QED BY <1>2
<1> QED BY <1>4, <1>5, <1>6, <1>7

(* The parts of a list, given the values of the groups and the others: each *)
(* part is of its kind, and together they have what the list has.          *)
PartsOf(r, s, grouped, single) ==
  /\ r \in Parts /\ s \in Seq(Values)
  /\ r.before \in Seq(grouped) /\ r.ungrouped \in Seq(single) /\ r.after \in Seq(grouped)
  /\ r.ungrouped = <<>> => r.after = <<>>
  /\ CountOf(r) = Len(s)
  /\ Without(s, grouped) = r.ungrouped
  /\ Without(s, single) = r.before \o r.after

LEMMA AppendedParts ==
  ASSUME NEW grouped \in SUBSET Values, NEW single \in SUBSET Values,
         grouped \cap single = {},
         NEW r, NEW s, PartsOf(r, s, grouped, single),
         NEW isGroup \in BOOLEAN, NEW more \in Seq(IF isGroup THEN grouped ELSE single)
  PROVE  PartsOf(Appended(r, isGroup, more), s \o more, grouped, single)
<1> USE DEF PartsOf
<1>1. more \in Seq(Values)
  OBVIOUS
<1>2. s \o more \in Seq(Values) /\ Len(s \o more) = Len(s) + Len(more)
  BY <1>1
<1>3. /\ Without(s \o more, grouped) = r.ungrouped \o Without(more, grouped)
      /\ Without(s \o more, single) = (r.before \o r.after) \o Without(more, single)
  <2>1. s \in Seq(Values) /\ Without(s, grouped) = r.ungrouped
        /\ Without(s, single) = r.before \o r.after
    OBVIOUS
  <2>2. ASSUME NEW gone
        PROVE  Without(s \o more, gone) = Without(s, gone) \o Without(more, gone)
    <3>1. s \in Seq(Values) /\ more \in Seq(Values)
      BY <1>1, <2>1
    <3> HIDE DEF PartsOf
    <3> QED BY ONLY <3>1, WithoutBoth
  <2> QED BY <2>1, <2>2
<1>4. CASE isGroup
  <2>1. more \in Seq(grouped)
    BY <1>4
  <2>2. Without(more, grouped) = <<>>
    BY <2>1, AllGo
  <2>3. Without(more, single) = more
    BY <2>1, NoneGoes
  <2>4. CASE r.ungrouped = <<>>
    <3> DEFINE new == Appended(r, isGroup, more)
    <3>1. new = [r EXCEPT !.before = @ \o more]
      BY <1>4, <2>4 DEF Appended
    <3>2. /\ new.before = r.before \o more /\ new.ungrouped = <<>> /\ new.after = <<>>
          /\ r.before \o more \in Seq(grouped) /\ r.before \o more \in Seq(Values)
          /\ Len(r.before \o more) = Len(r.before) + Len(more)
      BY <1>1, <2>1, <2>4, <3>1 DEF Parts
    <3>3. new \in Parts
      BY <3>1, <3>2 DEF Parts
    <3>4. /\ r.after = <<>> /\ r.before \o r.after = r.before
          /\ (r.before \o more) \o <<>> = r.before \o more
          /\ r.ungrouped \o <<>> = <<>>
      BY <2>1, <2>4 DEF Parts
    <3>5. CountOf(new) = CountOf(r) + Len(more)
      BY <1>1, <2>4, <3>2, <3>4 DEF CountOf, Parts
    <3> HIDE DEF new
    <3> QED BY <1>2, <1>3, <2>1, <2>2, <2>3, <2>4, <3>2, <3>3, <3>4, <3>5 DEF new
  <2>5. CASE r.ungrouped # <<>>
    <3> DEFINE new == Appended(r, isGroup, more)
    <3>1. new = [r EXCEPT !.after = @ \o more]
      BY <1>4, <2>5 DEF Appended
    <3>2. /\ new.before = r.before /\ new.ungrouped = r.ungrouped
          /\ new.after = r.after \o more
          /\ r.after \o more \in Seq(grouped) /\ r.after \o more \in Seq(Values)
          /\ Len(r.after \o more) = Len(r.after) + Len(more)
      BY <1>1, <2>1, <2>5, <3>1 DEF Parts
    <3>3. new \in Parts
      BY <3>1, <3>2 DEF Parts
    <3>4. /\ (r.before \o r.after) \o more = r.before \o (r.after \o more)
          /\ r.ungrouped \o <<>> = r.ungrouped
      BY <1>1 DEF Parts
    <3>5. CountOf(new) = CountOf(r) + Len(more)
      BY <1>1, <3>2 DEF CountOf, Parts
    <3> HIDE DEF new
    <3> QED BY <1>2, <1>3, <2>1, <2>2, <2>3, <2>5, <3>2, <3>3, <3>4, <3>5 DEF new
  <2> QED BY <2>4, <2>5
<1>5. CASE ~isGroup
  <2>1. more \in Seq(single)
    BY <1>5
  <2>2. Without(more, single) = <<>>
    BY <2>1, AllGo
  <2>3. Without(more, grouped) = more
    BY <2>1, NoneGoes
  <2> DEFINE new == Appended(r, isGroup, more)
  <2>4. new = [r EXCEPT !.ungrouped = @ \o more]
    BY <1>5 DEF Appended
  <2>5. /\ new.before = r.before /\ new.after = r.after
        /\ new.ungrouped = r.ungrouped \o more
        /\ r.ungrouped \o more \in Seq(single) /\ r.ungrouped \o more \in Seq(Values)
        /\ Len(r.ungrouped \o more) = Len(r.ungrouped) + Len(more)
    BY <1>1, <2>1, <2>4 DEF Parts
  <2>6. new \in Parts
    BY <2>4, <2>5 DEF Parts
  <2>7. /\ (r.before \o r.after) \o <<>> = r.before \o r.after
        /\ r.ungrouped \o more = <<>> => r.ungrouped = <<>>
    BY <1>1, <2>5 DEF Parts
  <2>8. CountOf(new) = CountOf(r) + Len(more)
    BY <1>1, <2>5 DEF CountOf, Parts
  <2> HIDE DEF new
  <2> QED BY <1>2, <1>3, <2>1, <2>2, <2>3, <2>5, <2>6, <2>7, <2>8 DEF new
<1> QED BY <1>4, <1>5

LEMMA TurnParts ==
  ASSUME NEW options \in Seq(Options), NEW limit \in Nat, NEW n \in 1..Len(options),
         NEW grouped \in SUBSET Values, NEW single \in SUBSET Values,
         grouped \cap single = {},
         options[n].values \in Seq(IF options[n].group THEN grouped ELSE single),
         NEW r, NEW s, PartsOf(r, s, grouped, single)
  PROVE  PartsOf(Turn(options, limit, n, r), Further(options, limit, n, s), grouped, single)
<1> DEFINE isGroup == options[n].group
           room == limit - CountOf(r)
           more == IF limit > 0 /\ isGroup THEN Slice(options[n].values, room)
                   ELSE options[n].values
<1>1. CountOf(r) = Len(s) /\ CountOf(r) \in Nat /\ s \in Seq(Values)
  BY DEF PartsOf
<1>2. CASE limit > 0 /\ CountOf(r) >= limit
  BY <1>1, <1>2 DEF Turn, Further
<1>3. CASE ~(limit > 0 /\ CountOf(r) >= limit)
  <2>1. Turn(options, limit, n, r) = Appended(r, isGroup, more)
    BY <1>3 DEF Turn
  <2>2. Further(options, limit, n, s) = s \o more
    BY <1>1, <1>3 DEF Further
  <2>3. more \in Seq(IF isGroup THEN grouped ELSE single)
    <3>1. limit > 0 => room \in Nat
      BY <1>1, <1>3
    <3>2. limit > 0 => Slice(options[n].values, room)
                         \in Seq(IF isGroup THEN grouped ELSE single)
      BY <3>1, SliceIs
    <3> QED BY <3>2
  <2>4. isGroup \in BOOLEAN
    <3>1. options[n] \in Options
      OBVIOUS
    <3> QED BY <3>1 DEF Options
  <2> HIDE DEF more, isGroup
  <2> QED BY <2>1, <2>2, <2>3, <2>4, AppendedParts
<1> QED BY <1>2, <1>3

LEMMA RenderedUpToLimit ==
  ASSUME SingleOptions, OptionsApart, NEW options \in OptionLists, NEW group \in BOOLEAN
  PROVE  Without(RenderedOptions(options, OptionsLimit), ValuesOf(options, group))
           = Without(FirstOptions(options), ValuesOf(options, group))
<1> DEFINE N == Len(options)
           grouped == ValuesOf(options, TRUE)
           single == ValuesOf(options, FALSE)
<1>1. options \in Seq(Options) /\ OptionsLimit \in Nat
  BY BadgeAssumption DEF Options
<1>2. N \in Nat /\ \A n \in 1..N : n - 1 \in 0..N
  BY <1>1
<1>3. \A n \in 1..N : /\ options[n].group \in BOOLEAN
                      /\ options[n].values \in Seq(Values)
                      /\ options[n].values \in Seq(ValuesOf(options, options[n].group))
  <2> TAKE n \in 1..N
  <2>1. options[n] \in Options
    BY <1>1
  <2>2. options[n].values \in Seq(Values) /\ options[n].group \in BOOLEAN
    BY <2>1 DEF Options
  <2>3. Set(options[n].values) \subseteq ValuesOf(options, options[n].group)
    BY DEF ValuesOf
  <2>4. \A i \in 1..Len(options[n].values) :
          options[n].values[i] \in ValuesOf(options, options[n].group)
    BY <2>3 DEF Set
  <2> QED BY <2>2, <2>4
<1>4. grouped \in SUBSET Values /\ single \in SUBSET Values /\ grouped \cap single = {}
  <2>1. \A n \in 1..N : Set(options[n].values) \subseteq Values
    BY <1>3 DEF Set
  <2>2. grouped \in SUBSET Values /\ single \in SUBSET Values
    BY <2>1 DEF ValuesOf
  <2>3. grouped \cap single = {}
    BY DEF OptionsApart
  <2> QED BY <2>2, <2>3
<1>5. \A n \in 1..N :
        options[n].values \in Seq(IF options[n].group THEN grouped ELSE single)
  BY <1>3
<1>6. PICK rendered \in [0..N -> Parts] :
        /\ RenderedOptions(options, OptionsLimit)
             = rendered[N].before \o rendered[N].ungrouped \o rendered[N].after
        /\ rendered[0] = Nothing
        /\ \A n \in 1..N : rendered[n] = Turn(options, OptionsLimit, n, rendered[n - 1])
  BY <1>1, RenderedIs
<1>7. PICK all \in [0..N -> Seq(Values)] :
        /\ FirstOptions(options) = FirstOf(all[N], OptionsLimit)
        /\ all[0] = <<>>
        /\ \A n \in 1..N : all[n] = all[n - 1] \o options[n].values
  BY <1>1, FlatIs DEF FirstOf
<1> DEFINE first(n) == FirstOf(all[n], OptionsLimit)
<1>8. FirstOf(<<>>, OptionsLimit) = <<>>
  BY <1>1 DEF FirstOf, Least
<1>9. \A n \in 1..N : first(n) = Further(options, OptionsLimit, n, first(n - 1))
  <2> TAKE n \in 1..N
  <2>1. ~options[n].group => Len(options[n].values) = 1
    BY Zenon DEF SingleOptions
  <2>2. all[n - 1] \in Seq(Values)
    BY <1>2
  <2> QED BY <1>1, <1>7, <2>1, <2>2, FurtherIsFirst
<1> HIDE DEF grouped, single
<1> DEFINE T == {n \in 0..N : PartsOf(rendered[n], first(n), grouped, single)}
<1>10. 0 \in T
  <2>1. Without(<<>>, grouped) = <<>> /\ Without(<<>>, single) = <<>>
    <3>1. <<>> \in Seq(Values) /\ \A i \in 1..Len(<<>>) : FALSE
      OBVIOUS
    <3> QED BY <3>1, AllGo
  <2>2. /\ Nothing.before = <<>> /\ Nothing.ungrouped = <<>> /\ Nothing.after = <<>>
        /\ Nothing \in Parts /\ CountOf(Nothing) = 0
    BY DEF Nothing, Parts, CountOf
  <2>3. PartsOf(Nothing, <<>>, grouped, single)
    BY <2>1, <2>2 DEF PartsOf
  <2> QED BY <1>2, <1>6, <1>7, <1>8, <2>3
<1>11. \A n \in 1..N : n - 1 \in T => n \in T
  <2> HIDE DEF first
  <2> SUFFICES ASSUME NEW n \in 1..N, n - 1 \in T PROVE n \in T
    OBVIOUS
  <2>1. PartsOf(rendered[n - 1], first(n - 1), grouped, single)
    OBVIOUS
  <2>2. PartsOf(Turn(options, OptionsLimit, n, rendered[n - 1]),
                Further(options, OptionsLimit, n, first(n - 1)), grouped, single)
    BY <1>1, <1>4, <1>5, <2>1, TurnParts
  <2>3. PartsOf(rendered[n], first(n), grouped, single)
    BY <1>6, <1>9, <2>2
  <2> QED BY <2>3
<1> HIDE DEF T, N
<1>12. \A n \in 0..N : n \in T
  BY <1>2, <1>10, <1>11, UpToTheLast
<1>13. PartsOf(rendered[N], FirstOptions(options), grouped, single)
  BY <1>2, <1>7, <1>12 DEF T
<1> DEFINE r == rendered[N]
           list == r.before \o r.ungrouped \o r.after
<1> HIDE DEF r
<1>14. /\ r.before \in Seq(Values) /\ r.ungrouped \in Seq(Values) /\ r.after \in Seq(Values)
       /\ r.before \in Seq(grouped) /\ r.ungrouped \in Seq(single)
       /\ r.after \in Seq(grouped)
       /\ Without(FirstOptions(options), grouped) = r.ungrouped
       /\ Without(FirstOptions(options), single) = r.before \o r.after
  BY <1>13 DEF PartsOf, Parts, r
<1>15. ASSUME NEW gone
       PROVE  Without(list, gone) = Without(r.before, gone) \o Without(r.ungrouped, gone)
                                      \o Without(r.after, gone)
  <2> DEFINE start == r.before \o r.ungrouped
  <2>1. start \in Seq(Values) /\ r.after \in Seq(Values)
    BY <1>14
  <2>2. Without(start, gone) = Without(r.before, gone) \o Without(r.ungrouped, gone)
    <3>1. r.before \in Seq(Values) /\ r.ungrouped \in Seq(Values)
      BY <1>14
    <3> QED BY ONLY <3>1, WithoutBoth
  <2> HIDE DEF start
  <2>3. Without(start \o r.after, gone) = Without(start, gone) \o Without(r.after, gone)
    BY <2>1, WithoutBoth
  <2> QED BY <2>2, <2>3 DEF start
<1>16. /\ Without(r.before, grouped) = <<>> /\ Without(r.ungrouped, grouped) = r.ungrouped
       /\ Without(r.after, grouped) = <<>>
  <2>1. /\ \A i \in 1..Len(r.before) : r.before[i] \in grouped
        /\ \A i \in 1..Len(r.ungrouped) : r.ungrouped[i] \notin grouped
        /\ \A i \in 1..Len(r.after) : r.after[i] \in grouped
    BY <1>4, <1>14
  <2> QED BY <1>14, <2>1, AllGo, NoneGoes
<1>17. /\ Without(r.before, single) = r.before /\ Without(r.ungrouped, single) = <<>>
       /\ Without(r.after, single) = r.after
  <2>1. /\ \A i \in 1..Len(r.before) : r.before[i] \notin single
        /\ \A i \in 1..Len(r.ungrouped) : r.ungrouped[i] \in single
        /\ \A i \in 1..Len(r.after) : r.after[i] \notin single
    BY <1>4, <1>14
  <2> QED BY <1>14, <2>1, AllGo, NoneGoes
<1>18. Without(list, grouped) = Without(FirstOptions(options), grouped)
  <2>1. Without(list, grouped) = <<>> \o r.ungrouped \o <<>>
    BY <1>15, <1>16
  <2>2. <<>> \o r.ungrouped = r.ungrouped /\ r.ungrouped \o <<>> = r.ungrouped
    BY <1>14
  <2> QED BY <1>14, <2>1, <2>2
<1>19. Without(list, single) = Without(FirstOptions(options), single)
  <2>1. Without(list, single) = r.before \o <<>> \o r.after
    BY <1>15, <1>17
  <2>2. r.before \o <<>> = r.before
    BY <1>14
  <2> QED BY <1>14, <2>1, <2>2
<1> QED BY <1>6, <1>18, <1>19 DEF r, grouped, single

LEMMA RenderedTyped ==
  ASSUME NEW options \in Seq(Options)
  PROVE  RenderedOptions(options, OptionsLimit) \in Seq(Values)
<1>1. OptionsLimit \in Nat
  BY BadgeAssumption
<1>2. Len(options) \in 0..Len(options)
  OBVIOUS
<1>3. PICK rendered \in [0..Len(options) -> Parts] :
        LET all == rendered[Len(options)]
        IN RenderedOptions(options, OptionsLimit) = all.before \o all.ungrouped \o all.after
  BY <1>1, RenderedIs
<1> DEFINE all == rendered[Len(options)]
<1>4. all \in Parts
  BY <1>2
<1> HIDE DEF all
<1>5. all.before \o all.ungrouped \o all.after \in Seq(Values)
  BY <1>4 DEF Parts
<1> QED BY <1>3, <1>5 DEF all

LEMMA ListsAreTyped ==
  ASSUME NEW options \in OptionLists, NEW state \in Seq(Values)
  PROVE  /\ EnhancedList(options, state) \in List
         /\ PlainList(options, state) \in List
<1>1. options \in Seq(Options)
  BY BadgeAssumption DEF Options
<1>2. Set(state) \in SUBSET Values
  BY DEF Set
<1>3. EnhancedList(options, state) \in List
  BY <1>1, <1>2, RenderedTyped DEF EnhancedList, List
<1> DEFINE left == [n \in 1..Len(options) |->
                      [options[n] EXCEPT !.values = Without(@, Set(state))]]
<1>4. left \in Seq(Options)
  <2>1. ASSUME NEW n \in 1..Len(options)
        PROVE  [options[n] EXCEPT !.values = Without(@, Set(state))] \in Options
    <3>1. options[n] \in Options
      BY <1>1
    <3>2. Without(options[n].values, Set(state)) \in Seq(Values)
      BY <3>1, WithoutIs DEF Options
    <3> QED BY <3>1, <3>2 DEF Options
  <2>2. Len(options) \in Nat
    BY <1>1
  <2> QED BY <2>1, <2>2
<1>5. PlainList(options, state) = [values |-> RenderedOptions(left, OptionsLimit), checked |-> None]
  BY DEF PlainList
<1> HIDE DEF left
<1>6. PlainList(options, state) \in List
  BY <1>4, <1>5, RenderedTyped DEF List
<1> QED BY <1>3, <1>6

(***************************************************************************)
(* Selects.                                                                *)
(***************************************************************************)
SelectTyped(x) ==
  /\ x \in Select
  /\ Len(x.state) <= MaxBadges /\ Distinct(x.state)
  /\ x.enhanced => /\ x.list.checked = Set(x.state)
                   /\ x.list.values = RenderedOptions(x.options, OptionsLimit)

(* The badges b of a select x, unless labels are being asked for.          *)
Matches(x, b) ==
  x.pending = "no" => IF b = None THEN x.state = <<>> ELSE x.state = Named(b)

LEMMA ListedIs ==
  ASSUME NEW x \in Select,
         Len(x.state) <= MaxBadges, Distinct(x.state)
  PROVE  /\ SelectTyped(Listed(x)) /\ Listed(x).state = x.state
         /\ Listed(x).pending = x.pending /\ Listed(x).enhanced = x.enhanced
<1> DEFINE list == IF x.enhanced THEN EnhancedList(x.options, x.state)
                   ELSE PlainList(x.options, x.state)
           new == [x EXCEPT !.list = list]
<1>1. Listed(x) = new
  BY DEF Listed
<1>2. x.enhanced => /\ list.checked = Set(x.state)
                    /\ list.values = RenderedOptions(x.options, OptionsLimit)
  BY DEF EnhancedList
<1>0. x.options \in OptionLists /\ x.state \in Seq(Values)
  BY DEF Select
<1>12. list \in List
  BY <1>0, ListsAreTyped
<1> HIDE DEF list
<1>3. /\ new \in Select
      /\ new.list = list /\ new.state = x.state /\ new.pending = x.pending
      /\ new.enhanced = x.enhanced /\ new.options = x.options
  BY <1>12 DEF Select
<1> HIDE DEF new
<1> QED BY <1>1, <1>2, <1>3 DEF SelectTyped, Select

(* Listed of a select with another state or with other options.            *)
LEMMA OtherStateIs ==
  ASSUME NEW x, SelectTyped(x), NEW state \in Seq(Values),
         Len(state) <= MaxBadges, Distinct(state)
  PROVE  LET new == Listed([x EXCEPT !.state = state])
         IN SelectTyped(new) /\ new.state = state /\ new.pending = x.pending
<1> DEFINE y == [x EXCEPT !.state = state]
<1>1. /\ y \in Select
      /\ y.state = state /\ y.pending = x.pending
  BY DEF SelectTyped, Select
<1> HIDE DEF y
<1>2. SelectTyped(Listed(y)) /\ Listed(y).state = y.state /\ Listed(y).pending = y.pending
  BY <1>1, ListedIs
<1> QED BY <1>1, <1>2 DEF y

LEMMA OtherOptionsIs ==
  ASSUME NEW x, SelectTyped(x), NEW options \in OptionLists
  PROVE  LET new == Listed([x EXCEPT !.options = options])
         IN SelectTyped(new) /\ new.state = x.state /\ new.pending = x.pending
<1> DEFINE y == [x EXCEPT !.options = options]
<1>1. /\ y \in Select
      /\ y.state = x.state /\ y.pending = x.pending
  BY DEF SelectTyped, Select
<1> HIDE DEF y
<1>2. SelectTyped(Listed(y)) /\ Listed(y).state = y.state /\ Listed(y).pending = y.pending
  BY <1>1, ListedIs DEF SelectTyped, Select
<1> QED BY <1>1, <1>2 DEF y, SelectTyped

LEMMA PendingIs ==
  ASSUME NEW x, SelectTyped(x), NEW p \in {"no", "labels", "cleared"}
  PROVE  LET new == [x EXCEPT !.pending = p]
         IN SelectTyped(new) /\ new.state = x.state /\ new.pending = p
<1> DEFINE new == [x EXCEPT !.pending = p]
<1>1. /\ new \in Select
      /\ new.list = x.list /\ new.state = x.state /\ new.pending = p
      /\ new.enhanced = x.enhanced /\ new.options = x.options
  BY DEF SelectTyped, Select
<1> HIDE DEF new
<1> QED BY <1>1 DEF SelectTyped, new

LEMMA EnhanceIs ==
  ASSUME NEW x, SelectTyped(x)
  PROVE  LET new == Enhance(x)
         IN /\ SelectTyped(new) /\ new.state = x.state /\ new.pending = x.pending
            /\ new.enhanced
<1>1. CASE x.enhanced
  BY <1>1 DEF Enhance
<1>2. CASE ~x.enhanced
  <2> DEFINE list == EnhancedList(x.options, x.state)
             new == [x EXCEPT !.enhanced = TRUE, !.list = list]
  <2>1. Enhance(x) = new
    BY <1>2 DEF Enhance
  <2>2. /\ list.checked = Set(x.state)
        /\ list.values = RenderedOptions(x.options, OptionsLimit)
    BY DEF EnhancedList
  <2>4. list \in List
    BY ListsAreTyped DEF SelectTyped, Select
  <2> HIDE DEF list
  <2>3. /\ new \in Select
        /\ new.list = list /\ new.state = x.state /\ new.pending = x.pending
        /\ new.enhanced /\ new.options = x.options
    BY <2>4 DEF SelectTyped, Select
  <2> HIDE DEF new
  <2> QED BY <2>1, <2>2, <2>3 DEF SelectTyped, Select
<1> QED BY <1>1, <1>2

(***************************************************************************)
(* The shape of the reachable states.                                      *)
(***************************************************************************)
Shaped ==
  /\ select = [s \in Selects |-> select[s]] /\ box = [s \in Selects |-> box[s]]
  /\ \A s \in Selects : select[s] # None => SelectTyped(select[s])
  /\ \A s \in Selects : box[s] # None => BoxTyped(box[s])
  /\ layout \in Layouts /\ noted \subseteq Kinds
  /\ started \in BOOLEAN /\ watched \in BOOLEAN /\ scheduled \in BOOLEAN
  /\ resized \in BOOLEAN /\ navigated \in BOOLEAN

(* What the select at s and the user may do to it and to its badges.       *)
EditedAt(s) ==
  /\ select' = [r \in Selects |-> select'[r]] /\ box' = [r \in Selects |-> box'[r]]
  /\ \A r \in Selects : r # s => select'[r] = select[r] /\ box'[r] = box[r]
  /\ SelectTyped(select'[s])
  /\ \/ box'[s] = box[s] \/ box'[s] = None \/ Blank(box'[s])
     \/ box[s] # None /\ Kept(box'[s], box[s])
  /\ (select[s] # None => Matches(select[s], box[s])) => Matches(select'[s], box'[s])

LEMMA SettingIs ==
  ASSUME Shaped, NEW s \in Selects, NEW x, NEW b,
         select' = [select EXCEPT ![s] = x], box' = [box EXCEPT ![s] = b]
  PROVE  /\ select' = [r \in Selects |-> select'[r]] /\ box' = [r \in Selects |-> box'[r]]
         /\ \A r \in Selects : r # s => select'[r] = select[r] /\ box'[r] = box[r]
         /\ select'[s] = x /\ box'[s] = b
<1>1. select = [r \in Selects |-> select[r]] /\ box = [r \in Selects |-> box[r]]
  BY DEF Shaped
<1> QED BY <1>1

LEMMA DisplayIs ==
  ASSUME Shaped, NEW s \in Selects, NEW x, SelectTyped(x),
         NEW until \in {None, box[s]}, NEW asking \in {"labels", "cleared"},
         UpdateSelectedDisplay(s, x, until, asking)
  PROVE  /\ EditedAt(s)
         /\ select'[s].state = x.state
<1>1. CASE /\ box' = [box EXCEPT ![s] = BoxOf(x.state)]
           /\ select' = [select EXCEPT ![s] = [x EXCEPT !.pending = "no"]]
  <2> DEFINE new == [x EXCEPT !.pending = "no"]
             b == BoxOf(x.state)
  <2>1. SelectTyped(new) /\ new.state = x.state /\ new.pending = "no"
    BY PendingIs
  <2>2. x.state \in Seq(Values) /\ Len(x.state) <= MaxBadges
    BY DEF SelectTyped, Select
  <2>3. (b = None \/ Blank(b)) /\ Matches(new, b)
    <3>1. CASE x.state = <<>>
      <4>1. b = None
        BY <3>1 DEF BoxOf
      <4> HIDE DEF b, new
      <4> QED BY <3>1, <4>1, <2>1 DEF Matches
    <3>2. CASE x.state # <<>>
      <4>1. b = FreshBox(x.state)
        BY <3>2 DEF BoxOf
      <4>2. Blank(b) /\ b # None /\ Named(b) = x.state
        BY <2>2, <4>1, FreshBoxIs
      <4> HIDE DEF b, new
      <4> QED BY <4>2, <2>1 DEF Matches
    <3> QED BY <3>1, <3>2
  <2> HIDE DEF new, b
  <2>4. box' = [box EXCEPT ![s] = b] /\ select' = [select EXCEPT ![s] = new]
    BY <1>1 DEF new, b
  <2> QED BY <2>1, <2>3, <2>4, SettingIs DEF EditedAt
<1>2. CASE /\ x.state # <<>>
           /\ box' = [box EXCEPT ![s] = until]
           /\ select' = [select EXCEPT ![s] = [x EXCEPT !.pending = asking]]
  <2> DEFINE new == [x EXCEPT !.pending = asking]
  <2>1. SelectTyped(new) /\ new.state = x.state /\ new.pending = asking
    BY PendingIs
  <2> HIDE DEF new
  <2>2. Matches(new, until)
    BY <2>1 DEF Matches
  <2>3. select' = [select EXCEPT ![s] = new]
    BY <1>2 DEF new
  <2> QED BY <1>2, <2>1, <2>2, <2>3, SettingIs DEF EditedAt
<1> QED BY <1>1, <1>2 DEF UpdateSelectedDisplay

LEMMA CreateEdits ==
  ASSUME Shaped, NEW s \in Selects, NEW state \in Selections, NEW options \in OptionLists,
         Create(s, state, options)
  PROVE  EditedAt(s)
<1> DEFINE x == [state |-> state, pending |-> "no", enhanced |-> FALSE,
                 options |-> options, list |-> PlainList(options, state)]
<1>1. state \in Seq(Values) /\ Len(state) <= MaxBadges /\ Distinct(state)
  BY BadgeAssumption
<1>2. SelectTyped(x)
  <2>1. PlainList(options, state) \in List
    BY <1>1, ListsAreTyped
  <2> QED BY <1>1, <2>1 DEF SelectTyped, Select
<1>3. UpdateSelectedDisplay(s, x, None, "labels")
  BY DEF Create
<1> HIDE DEF x
<1> QED BY <1>2, <1>3, DisplayIs

LEMMA ServerChangeEdits ==
  ASSUME Shaped, NEW s \in Selects, NEW state \in Selections, ServerChange(s, state)
  PROVE  EditedAt(s)
<1> DEFINE x == Listed([select[s] EXCEPT !.state = state])
<1>1. state \in Seq(Values) /\ Len(state) <= MaxBadges /\ Distinct(state)
  BY BadgeAssumption
<1>2. SelectTyped(select[s])
  BY DEF Shaped, ServerChange
<1>3. SelectTyped(x)
  BY <1>1, <1>2, OtherStateIs
<1>4. UpdateSelectedDisplay(s, x, box[s], "labels")
  BY DEF ServerChange
<1> HIDE DEF x
<1> QED BY <1>3, <1>4, DisplayIs

LEMMA DisplayEdits ==
  ASSUME Shaped, NEW s \in Selects, Display(s)
  PROVE  EditedAt(s)
<1> DEFINE x == select[s]
           new == [x EXCEPT !.pending = "no"]
           b == FreshBox(x.state)
<1>1. SelectTyped(x)
  BY DEF Shaped, Display
<1>2. x.state \in Seq(Values) /\ Len(x.state) <= MaxBadges
  BY <1>1 DEF SelectTyped, Select
<1>3. select' = [select EXCEPT ![s] = new] /\ box' = [box EXCEPT ![s] = b]
  BY DEF Display
<1> HIDE DEF x
<1>4. SelectTyped(new) /\ new.state = x.state /\ new.pending = "no"
  BY <1>1, PendingIs
<1>5. Blank(b) /\ b # None /\ Named(b) = x.state
  BY <1>2, FreshBoxIs
<1> HIDE DEF new, b
<1>6. Matches(new, b)
  BY <1>4, <1>5 DEF Matches
<1> QED BY <1>3, <1>4, <1>5, <1>6, SettingIs DEF EditedAt

LEMMA SearchEdits ==
  ASSUME Shaped, NEW s \in Selects, NEW options \in OptionLists, Search(s, options)
  PROVE  EditedAt(s)
<1> DEFINE x == select[s]
           new == Listed([x EXCEPT !.options = options])
<1>1. SelectTyped(x) /\ select[s] # None
  BY DEF Shaped, Search
<1>2. SelectTyped(new) /\ new.state = x.state /\ new.pending = x.pending
  <2> HIDE DEF x
  <2> QED BY <1>1, OtherOptionsIs
<1>3. select' = [select EXCEPT ![s] = new]
  BY DEF Search
<1>4. box' = [box EXCEPT ![s] = box[s]]
  <2>1. box = [r \in Selects |-> box[r]] /\ box' = box
    BY DEF Shaped, Search
  <2> QED BY <2>1
<1> HIDE DEF new
<1>5. Matches(x, box[s]) => Matches(new, box[s])
  BY <1>2 DEF Matches
<1> QED BY <1>1, <1>2, <1>3, <1>4, <1>5, SettingIs DEF EditedAt

LEMMA RemoveEdits ==
  ASSUME Shaped, NEW s \in Selects, RemoveOverflowSelections(s)
  PROVE  /\ EditedAt(s)
         /\ select'[s].state = Without(select[s].state, HiddenOverflowValues(box[s]))
<1> DEFINE state == Without(select[s].state, HiddenOverflowValues(box[s]))
           x == Listed([select[s] EXCEPT !.state = state])
<1>1. SelectTyped(select[s])
  BY DEF Shaped, RemoveOverflowSelections
<1>2. state \in Seq(Values) /\ Len(state) <= MaxBadges /\ Distinct(state)
  <2>1. /\ select[s].state \in Seq(Values) /\ Len(select[s].state) <= MaxBadges
        /\ Distinct(select[s].state)
    BY <1>1 DEF SelectTyped, Select
  <2>2. state \in Seq(Values) /\ Len(state) <= Len(select[s].state)
    BY <2>1, WithoutIs
  <2>3. Distinct(state)
    BY <2>1, WithoutDistinct
  <2>4. Len(state) \in Nat /\ Len(select[s].state) \in Nat /\ MaxBadges \in Nat
    BY <2>1, <2>2, LenProperties, BadgeAssumption
  <2> HIDE DEF state
  <2> QED BY <2>1, <2>2, <2>3, <2>4
<1>3. UpdateSelectedDisplay(s, x, box[s], "cleared")
  BY DEF RemoveOverflowSelections, DisplayCleared
<1> HIDE DEF state
<1>4. SelectTyped(x) /\ x.state = state
  BY <1>1, <1>2, OtherStateIs
<1> HIDE DEF x
<1> QED BY <1>3, <1>4, DisplayIs DEF state

LEMMA ToggleEdits ==
  ASSUME Shaped, NEW s \in Selects, NEW v \in Values, Toggle(s, v)
  PROVE  EditedAt(s)
<1> DEFINE x == select[s]
           b == box[s]
           left == Without(x.state, {v})
           grown == Append(x.state, v)
           less == Listed([x EXCEPT !.state = left])
           more == Listed([x EXCEPT !.state = grown])
<1>1. SelectTyped(x) /\ select[s] # None
  BY DEF Shaped, Toggle
<1>2. x.state \in Seq(Values) /\ Len(x.state) <= MaxBadges /\ Distinct(x.state)
  BY <1>1 DEF SelectTyped, Select
<1>3. b # None => BoxTyped(b)
  BY DEF Shaped
<1>4. SelectTyped(less) /\ less.state = left /\ less.pending = x.pending
  <2> HIDE DEF x
  <2>1. left \in Seq(Values) /\ Len(left) <= Len(x.state)
    BY <1>2, WithoutIs
  <2>2. Distinct(left)
    BY <1>2, WithoutDistinct
  <2>3. Len(left) \in Nat /\ Len(x.state) \in Nat /\ MaxBadges \in Nat
    BY <1>2, <2>1, LenProperties, BadgeAssumption
  <2>4. Len(left) <= MaxBadges
    <3> HIDE DEF left
    <3> QED BY <1>2, <2>1, <2>3
  <2> HIDE DEF left
  <2> QED BY <1>1, <2>1, <2>2, <2>4, OtherStateIs
<1>5. ASSUME v \notin Set(x.state), Len(x.state) < MaxBadges
      PROVE  SelectTyped(more) /\ more.state = grown /\ more.pending = x.pending
  <2> HIDE DEF x
  <2>1. /\ grown \in Seq(Values) /\ Len(grown) = Len(x.state) + 1
        /\ \A i \in 1..Len(x.state) : grown[i] = x.state[i]
        /\ grown[Len(x.state) + 1] = v /\ Len(x.state) \in Nat
    BY <1>2
  <2>2. \A i \in 1..Len(x.state) : x.state[i] # v
    BY <1>5 DEF Set
  <2> HIDE DEF grown
  <2>3. ASSUME NEW i \in 1..Len(grown), NEW j \in 1..Len(grown), grown[i] = grown[j]
        PROVE  i = j
    <3>1. (i \in 1..Len(x.state) \/ i = Len(x.state) + 1)
          /\ (j \in 1..Len(x.state) \/ j = Len(x.state) + 1)
      BY <2>1
    <3>2. \A k, m \in 1..Len(x.state) : x.state[k] = x.state[m] => k = m
      BY <1>2 DEF Distinct
    <3> QED BY <2>1, <2>2, <2>3, <3>1, <3>2
  <2>4. Distinct(grown)
    BY <2>3 DEF Distinct
  <2>5. Len(grown) <= MaxBadges
    BY <1>5, <2>1, BadgeAssumption
  <2> QED BY <1>1, <2>1, <2>4, <2>5, OtherStateIs
<1> DEFINE
  Out == /\ v \in Shown(b) /\ Children(b) > 1
         /\ box' = [box EXCEPT ![s] = WithoutBadge(b, v)]
         /\ select' = [select EXCEPT ![s] = less]
  Again == UpdateSelectedDisplay(s, less, b, "labels")
  In == /\ v \notin Set(x.state) /\ Len(x.state) < MaxBadges /\ b # None
        /\ Len(b.badges) < MaxBadges
        /\ box' = [box EXCEPT ![s] = WithBadge(b, v)]
        /\ select' = [select EXCEPT ![s] = more]
  Anew == /\ v \notin Set(x.state) /\ Len(x.state) < MaxBadges
          /\ UpdateSelectedDisplay(s, more, b, "labels")
<1>6. Out \/ Again \/ In \/ Anew
  BY DEF Toggle
<1>7. CASE Out
  <2> HIDE DEF less
  <2> DEFINE new == WithoutBadge(b, v)
  <2>1. b # None
    BY <1>7 DEF Shown
  <2>2. /\ Kept(new, b) /\ new # None
        /\ \E i \in 1..Len(b.badges) :
             /\ b.badges[i].value = v
             /\ Len(new.badges) = Len(b.badges) - 1
             /\ \A k \in 1..(Len(b.badges) - 1) :
                  new.badges[k] = b.badges[IF k < i THEN k ELSE k + 1]
    <3>1. BoxTyped(b) /\ v \in Shown(b)
      BY <1>3, <1>7, <2>1
    <3> HIDE DEF b
    <3> QED BY <3>1, WithoutBadgeIs
  <2>3. Matches(x, b) => Matches(less, new)
    <3> HIDE DEF x, b, new
    <3> SUFFICES ASSUME x.pending = "no", x.state = Named(b) PROVE less.state = Named(new)
      BY <1>4, <2>1, <2>2 DEF Matches
    <3> DEFINE n == Len(b.badges)
    <3>1. n \in Nat
      BY <1>3, <2>1 DEF BoxTyped, Box
    <3>2. x.state = [i \in 1..n |-> b.badges[i].value]
      BY DEF Named
    <3>3. Len(x.state) = n
      BY <1>2, <3>1, <3>2, LenProperties
    <3>4. PICK i \in 1..n :
            /\ b.badges[i].value = v
            /\ Len(new.badges) = n - 1
            /\ \A k \in 1..(n - 1) : new.badges[k] = b.badges[IF k < i THEN k ELSE k + 1]
      BY <2>2
    <3> HIDE DEF n
    <3>5. x.state[i] = v
      BY <3>2, <3>4
    <3>6. /\ Len(left) = n - 1
          /\ \A k \in 1..(n - 1) : left[k] = x.state[IF k < i THEN k ELSE k + 1]
      BY <1>2, <3>3, <3>5, WithoutOne
    <3>7. left \in Seq(Values)
      BY <1>2, WithoutIs
    <3> HIDE DEF left
    <3>8. \A k \in 1..(n - 1) : left[k] = new.badges[k].value
      <4> TAKE k \in 1..(n - 1)
      <4> DEFINE m == IF k < i THEN k ELSE k + 1
      <4>1. m \in 1..n
        BY <3>1, <3>4
      <4>2. left[k] = x.state[m] /\ new.badges[k] = b.badges[m]
        BY <3>4, <3>6
      <4> HIDE DEF m
      <4>3. x.state[m] = b.badges[m].value
        BY <3>2, <4>1
      <4> QED BY <4>2, <4>3
    <3>9. Named(new) = [k \in 1..(n - 1) |-> new.badges[k].value]
      BY <3>4 DEF Named
    <3>10. left \in [1..(n - 1) -> Values]
      BY <3>6, <3>7, LenProperties
    <3>11. left = [k \in 1..(n - 1) |-> left[k]]
      BY <3>10
    <3>12. left = Named(new)
      BY <3>8, <3>9, <3>11
    <3> QED BY <1>4, <3>12
  <2>4. box' = [box EXCEPT ![s] = new] /\ select' = [select EXCEPT ![s] = less]
    BY <1>7
  <2> HIDE DEF new
  <2> QED BY <1>1, <1>4, <2>1, <2>2, <2>3, <2>4, SettingIs DEF EditedAt
<1>8. CASE Again
  <2> HIDE DEF less
  <2> QED BY <1>4, <1>8, DisplayIs
<1>9. CASE In
  <2>1. SelectTyped(more) /\ more.state = grown /\ more.pending = x.pending
    BY <1>5, <1>9
  <2> HIDE DEF more
  <2> DEFINE new == WithBadge(b, v)
  <2>2. Kept(new, b) /\ new # None /\ Named(new) = Append(Named(b), v) /\ b # None
    <3>1. BoxTyped(b) /\ Len(b.badges) < MaxBadges /\ b # None
      BY <1>3, <1>9
    <3> HIDE DEF b
    <3> QED BY <3>1, WithBadgeIs
  <2>3. box' = [box EXCEPT ![s] = new] /\ select' = [select EXCEPT ![s] = more]
    BY <1>9
  <2>4. Matches(x, b) => Matches(more, new)
    <3> HIDE DEF x, b, new
    <3> QED BY <2>1, <2>2 DEF Matches
  <2> HIDE DEF new
  <2> QED BY <1>1, <2>1, <2>2, <2>3, <2>4, SettingIs DEF EditedAt
<1>10. CASE Anew
  <2>1. SelectTyped(more)
    BY <1>5, <1>10
  <2> HIDE DEF more
  <2> QED BY <1>10, <2>1, DisplayIs
<1> QED BY <1>6, <1>7, <1>8, <1>9, <1>10

(***************************************************************************)
(* The steps, by what they do to selects and containers.                   *)
(***************************************************************************)
Edit(s) ==
  \/ \E state \in Selections, options \in OptionLists : Create(s, state, options)
  \/ \E state \in Selections : ServerChange(s, state)
  \/ \E options \in OptionLists : Search(s, options)
  \/ \E v \in Values : Toggle(s, v)
  \/ RemoveOverflowSelections(s) \/ Display(s)
Tick ==
  \/ Start \/ MutationsReported \/ ScheduleAfterNavigation
  \/ \E timer \in {"frame", "timeout"} : TimerFires(timer)
  \/ Morphed \/ UNCHANGED vars

LEMMA StepIs ==
  ASSUME [Next]_vars
  PROVE  \/ UpdateAll \/ SizeReported \/ \E s \in Selects : Edit(s)
         \/ \E l \in Layouts : ResizeWindow(l)
         \/ Navigate \/ Tick
BY DEF Next, Callback, Environment, Edit, Tick

LEMMA MutatedIs ==
  ASSUME NEW kinds \in SUBSET Kinds, Mutated(kinds), noted \subseteq Kinds
  PROVE  noted' \subseteq Kinds /\ (watched => kinds \subseteq noted')
BY DEF Mutated

LEMMA EditIs ==
  ASSUME Shaped, NEW s \in Selects, Edit(s)
  PROVE  /\ EditedAt(s)
         /\ UNCHANGED <<layout, started, watched, navigated>>
         /\ noted' \subseteq Kinds /\ scheduled' \in BOOLEAN
         /\ watched => "badges" \in noted' \/ "select" \in noted'
         /\ resized' \in {resized, TRUE}
<1>0. noted \subseteq Kinds /\ scheduled \in BOOLEAN
      /\ {"badges"} \in SUBSET Kinds /\ {"select"} \in SUBSET Kinds
      /\ {"badges", "select"} \in SUBSET Kinds
  BY DEF Shaped, Kinds
<1>1. CASE \E state \in Selections, options \in OptionLists : Create(s, state, options)
  <2>1. PICK state \in Selections, options \in OptionLists : Create(s, state, options)
    BY <1>1
  <2> QED BY <1>0, <2>1, CreateEdits, MutatedIs DEF Create, Reflow, pageVars
<1>2. CASE \E state \in Selections : ServerChange(s, state)
  <2>1. PICK state \in Selections : ServerChange(s, state)
    BY <1>2
  <2> QED BY <1>0, <2>1, ServerChangeEdits, MutatedIs DEF ServerChange, Reflow, pageVars
<1>3. CASE \E options \in OptionLists : Search(s, options)
  <2>1. PICK options \in OptionLists : Search(s, options)
    BY <1>3
  <2> QED BY <1>0, <2>1, SearchEdits, MutatedIs DEF Search, pageVars
<1>4. CASE \E v \in Values : Toggle(s, v)
  <2>1. PICK v \in Values : Toggle(s, v)
    BY <1>4
  <2>2. /\ Mutated({"badges", "select"}) /\ Reflow(box[s])
        /\ UNCHANGED <<pageVars, scheduled>>
    BY <2>1 DEF Toggle
  <2> QED BY <1>0, <2>1, <2>2, ToggleEdits, MutatedIs DEF Reflow, pageVars
<1>5. CASE RemoveOverflowSelections(s)
  <2>1. /\ Mutated({"badges", "select"}) /\ Reflow(box[s])
        /\ UNCHANGED pageVars /\ scheduled' \in BOOLEAN
    BY <1>0, <1>5 DEF RemoveOverflowSelections, DisplayCleared
  <2> QED BY <1>0, <1>5, <2>1, RemoveEdits, MutatedIs DEF Reflow, pageVars
<1>6. CASE Display(s)
  <2>1. /\ Mutated({"badges"}) /\ Reflow(box[s])
        /\ UNCHANGED pageVars /\ scheduled' \in BOOLEAN
    BY <1>0, <1>6 DEF Display
  <2> QED BY <1>0, <1>6, <2>1, DisplayEdits, MutatedIs DEF Reflow, pageVars
<1> QED BY <1>1, <1>2, <1>3, <1>4, <1>5, <1>6 DEF Edit

(* The caches that a size report clears.                                   *)
Pristine(b) ==
  /\ \A i \in 1..Len(b.badges) : b.badges[i].seen = None
  /\ b.over # None => b.over.cache = {}

LEMMA ClearIs ==
  ASSUME NEW b, BoxTyped(b)
  PROVE  LET new == ClearCaches(b)
         IN /\ BoxTyped(new) /\ Pristine(new) /\ new.observed = b.observed
            /\ Len(new.badges) = Len(b.badges)
            /\ \A i \in 1..Len(b.badges) :
                 /\ new.badges[i].value = b.badges[i].value
                 /\ new.badges[i].hidden = b.badges[i].hidden
                 /\ new.badges[i].tab = b.badges[i].tab
                 /\ new.badges[i].kept = b.badges[i].kept
            /\ new.over # None =>
                 /\ b.over # None /\ new.over.hidden = b.over.hidden
                 /\ new.over.tab = b.over.tab /\ new.over.kept = b.over.kept
<1> DEFINE n == Len(b.badges)
           one(x) == [x EXCEPT !.seen = None]
           badges == [i \in 1..n |-> one(b.badges[i])]
           over == IF b.over = None THEN None ELSE [b.over EXCEPT !.cache = {}]
           new == [b EXCEPT !.badges = badges, !.over = over]
<1>1. b \in Box /\ b.badges \in Seq(Badge) /\ n \in Nat
  BY DEF BoxTyped, Box
<1>2. \A x \in Badge :
        /\ one(x) \in Badge /\ one(x).seen = None /\ one(x).value = x.value
        /\ one(x).hidden = x.hidden /\ one(x).tab = x.tab /\ one(x).kept = x.kept
  BY DEF Badge, Measurement
<1>3. ClearCaches(b) = new
  BY DEF ClearCaches
<1> HIDE DEF one
<1>4. badges \in Seq(Badge) /\ Len(badges) = n
  BY <1>1, <1>2
<1>5. \A i \in 1..n :
        /\ badges[i].seen = None /\ badges[i].value = b.badges[i].value
        /\ badges[i].hidden = b.badges[i].hidden
        /\ badges[i].tab = b.badges[i].tab /\ badges[i].kept = b.badges[i].kept
  <2> TAKE i \in 1..n
  <2>1. badges[i] = one(b.badges[i]) /\ b.badges[i] \in Badge
    BY <1>1
  <2> QED BY <2>1, <1>2
<1>6. /\ over \in OverflowBadge \cup {None}
      /\ over # None =>
           /\ b.over # None /\ over.hidden = b.over.hidden
           /\ over.tab = b.over.tab /\ over.kept = b.over.kept /\ over.cache = {}
  <2>1. CASE b.over = None
    BY <2>1
  <2>2. CASE b.over # None
    <3>1. b.over \in OverflowBadge
      BY <1>1, <2>2 DEF Box
    <3>2. over = [b.over EXCEPT !.cache = {}]
      BY <2>2
    <3> HIDE DEF over
    <3> QED BY <2>2, <3>1, <3>2 DEF OverflowBadge
  <2> QED BY <2>1, <2>2
<1> HIDE DEF badges, over
<1>7. /\ new \in Box /\ new.badges = badges /\ new.over = over
      /\ new.observed = b.observed
  BY <1>1, <1>4, <1>6 DEF Box
<1> HIDE DEF new
<1>8. BoxTyped(new) /\ Pristine(new)
  BY <1>4, <1>5, <1>6, <1>7 DEF BoxTyped, Pristine
<1> QED BY <1>3, <1>4, <1>5, <1>6, <1>7, <1>8

(* The container a frame leaves.                                           *)
Framed(s, b) == [UpdateContainer(s, b) EXCEPT !.observed = started]

LEMMA FramedIs ==
  ASSUME NEW s \in Selects, NEW b, BoxTyped(b), layout \in Layouts, started \in BOOLEAN
  PROVE  LET new == Framed(s, b)
             mid == UpdateContainer(s, b)
         IN /\ BoxTyped(new) /\ new.observed = started
            /\ new.badges = mid.badges /\ new.over = mid.over /\ new.count = mid.count
<1> DEFINE mid == UpdateContainer(s, b)
           new == [mid EXCEPT !.observed = started]
<1>1. BoxTyped(mid)
  BY UpdateIs
<1> HIDE DEF mid
<1>2. /\ new \in Box /\ new.observed = started
      /\ new.badges = mid.badges /\ new.over = mid.over /\ new.count = mid.count
  BY <1>1 DEF BoxTyped, Box
<1>3. Framed(s, b) = new
  BY DEF Framed, mid
<1> HIDE DEF new
<1> QED BY <1>1, <1>2, <1>3 DEF BoxTyped, mid

LEMMA UpdateAllIs ==
  ASSUME Shaped, UpdateAll
  PROVE  /\ scheduled' = FALSE /\ started' = started /\ navigated' = navigated
         /\ layout' = layout
         /\ watched' \in BOOLEAN /\ (started => watched')
         /\ noted' \subseteq Kinds
         /\ resized' \in {resized, TRUE}
         /\ select' = [s \in Selects |-> select'[s]] /\ box' = [s \in Selects |-> box'[s]]
         /\ \A s \in Selects :
              /\ select[s] = None => select'[s] = None
              /\ select[s] # None => /\ SelectTyped(select'[s]) /\ select'[s].enhanced
                                     /\ select'[s].state = select[s].state
                                     /\ select'[s].pending = select[s].pending
              /\ box[s] = None => box'[s] = None
              /\ box[s] # None => box'[s] = Framed(s, box[s])
<1> DEFINE shown == {s \in Selects : box[s] # None}
           plain == {s \in Selects : select[s] # None /\ ~select[s].enhanced}
           kinds == (UNION {Writes(s, box[s]) : s \in shown})
                      \cup (IF plain = {} THEN {} ELSE {"select"})
<1>1. /\ scheduled' = FALSE /\ started' = started /\ navigated' = navigated
      /\ layout' = layout
      /\ select' = [s \in Selects |-> IF s \in plain THEN Enhance(select[s]) ELSE select[s]]
      /\ box' = [s \in Selects |-> IF s \in shown THEN Framed(s, box[s]) ELSE None]
  BY DEF UpdateAll, Framed
<1>2. watched' \in BOOLEAN /\ (started => watched')
  BY DEF UpdateAll, ObserveBody, Shaped
<1>3. noted' = noted \cup (IF watched' THEN kinds ELSE {})
  BY DEF UpdateAll
<1>4. kinds \subseteq Kinds
  <2>1. \A s \in Selects : Writes(s, box[s]) \subseteq Kinds
    <3> TAKE s \in Selects
    <3> SUFFICES ASSUME NEW k \in Writes(s, box[s]) PROVE k \in Kinds
      OBVIOUS
    <3>1. k \in {"badges"} \/ k \in {"measurement"}
      BY Zenon DEF Writes
    <3> QED BY <3>1 DEF Kinds
  <2>2. UNION {Writes(s, box[s]) : s \in shown} \subseteq Kinds
    BY <2>1
  <2>3. {"select"} \subseteq Kinds
    BY DEF Kinds
  <2> HIDE DEF plain
  <2> QED BY <2>2, <2>3
<1>5. resized' \in {resized, TRUE}
  BY DEF UpdateAll
<1>6. \A s \in Selects :
        /\ select[s] = None => select'[s] = None
        /\ select[s] # None => /\ SelectTyped(select'[s]) /\ select'[s].enhanced
                               /\ select'[s].state = select[s].state
                               /\ select'[s].pending = select[s].pending
  <2> TAKE s \in Selects
  <2>1. CASE select[s] = None
    BY <1>1, <2>1
  <2>2. CASE select[s] # None
    <3>1. SelectTyped(select[s])
      BY <2>2 DEF Shaped
    <3>2. CASE select[s].enhanced
      <4>1. select'[s] = select[s]
        BY <1>1, <3>2
      <4> QED BY <2>2, <3>1, <3>2, <4>1
    <3>3. CASE ~select[s].enhanced
      <4>1. select'[s] = Enhance(select[s])
        BY <1>1, <2>2, <3>3
      <4> QED BY <2>2, <3>1, <4>1, EnhanceIs
    <3> QED BY <3>2, <3>3
  <2> QED BY <2>1, <2>2
<1>7. \A s \in Selects : /\ box[s] = None => box'[s] = None
                         /\ box[s] # None => box'[s] = Framed(s, box[s])
  BY <1>1
<1>8. select' = [s \in Selects |-> select'[s]] /\ box' = [s \in Selects |-> box'[s]]
  BY <1>1
<1>9. noted' \subseteq Kinds
  <2> HIDE DEF kinds
  <2> QED BY <1>3, <1>4 DEF Shaped
<1> QED BY <1>1, <1>2, <1>5, <1>6, <1>7, <1>8, <1>9

LEMMA SizeReportedIs ==
  ASSUME Shaped, SizeReported
  PROVE  /\ scheduled' = TRUE /\ resized' = FALSE
         /\ UNCHANGED <<select, layout, started, watched, navigated, noted>>
         /\ box' = [s \in Selects |-> box'[s]]
         /\ \A s \in Selects : /\ box[s] = None => box'[s] = None
                               /\ box[s] # None => box'[s] = ClearCaches(box[s])
BY DEF Shaped, SizeReported, pageVars

LEMMA ShapedInit == Init => Shaped
BY DEF Init, Shaped

LEMMA ShapedStep ==
  ASSUME Shaped, [Next]_vars
  PROVE  Shaped'
<1>1. CASE UpdateAll
  <2>1. \A s \in Selects : box'[s] # None => BoxTyped(box'[s])
    <3> SUFFICES ASSUME NEW s \in Selects, box[s] # None PROVE BoxTyped(Framed(s, box[s]))
      BY <1>1, UpdateAllIs
    <3> QED BY FramedIs DEF Shaped
  <2>2. \A s \in Selects : select'[s] # None => SelectTyped(select'[s])
    BY <1>1, UpdateAllIs
  <2> QED BY <1>1, <2>1, <2>2, UpdateAllIs DEF Shaped
<1>2. CASE SizeReported
  <2>1. \A s \in Selects : box'[s] # None => BoxTyped(box'[s])
    BY <1>2, SizeReportedIs, ClearIs DEF Shaped
  <2> QED BY <1>2, <2>1, SizeReportedIs DEF Shaped
<1>3. CASE \E s \in Selects : Edit(s)
  <2>1. PICK s \in Selects : Edit(s)
    BY <1>3
  <2>2. EditedAt(s)
    BY <2>1, EditIs
  <2>3. \A r \in Selects : box'[r] # None => BoxTyped(box'[r])
    BY <2>2 DEF EditedAt, Shaped, Blank, Kept
  <2>4. \A r \in Selects : select'[r] # None => SelectTyped(select'[r])
    BY <2>2 DEF EditedAt, Shaped
  <2>5. select' = [r \in Selects |-> select'[r]] /\ box' = [r \in Selects |-> box'[r]]
    BY <2>2 DEF EditedAt
  <2>6. /\ UNCHANGED <<layout, started, watched, navigated>>
        /\ noted' \subseteq Kinds /\ scheduled' \in BOOLEAN /\ resized' \in {resized, TRUE}
    BY <2>1, EditIs
  <2> QED BY <2>3, <2>4, <2>5, <2>6 DEF Shaped
<1>4. CASE \E l \in Layouts : ResizeWindow(l)
  <2>1. PICK l \in Layouts : ResizeWindow(l)
    BY <1>4
  <2> QED BY <2>1 DEF ResizeWindow, Shaped
<1>5. CASE Navigate
  BY <1>5 DEF Navigate, Shaped
<1>6. CASE Tick
  BY <1>6 DEF Tick, Start, MutationsReported, ScheduleAfterNavigation, ObserveBody,
              TimerFires, Morphed, Shaped, pageVars, vars, Kinds
<1> QED BY <1>1, <1>2, <1>3, <1>4, <1>5, <1>6, StepIs

(***************************************************************************)
(* Before the script has found the document there is nothing to see, and   *)
(* a body that is not observed is a new page's.                            *)
(***************************************************************************)
Watching ==
  /\ ~watched => navigated \/ ~started
  /\ ~started => \A s \in Selects : box[s] = None /\ select[s] = None

LEMMA WatchingInit == Init => Watching
BY DEF Init, Watching

LEMMA WatchingStep ==
  ASSUME Shaped, Watching, [Next]_vars
  PROVE  Watching'
<1>1. CASE UpdateAll
  <2>1. /\ started' = started /\ navigated' = navigated /\ watched' \in {watched, TRUE}
        /\ started => watched'
    BY <1>1 DEF UpdateAll, ObserveBody
  <2>2. \A s \in Selects : /\ select[s] = None => select'[s] = None
                           /\ box[s] = None => box'[s] = None
    BY <1>1, UpdateAllIs
  <2> QED BY <2>1, <2>2 DEF Watching
<1>2. CASE SizeReported
  BY <1>2, SizeReportedIs DEF Watching
<1>3. CASE \E s \in Selects : Edit(s)
  <2>1. PICK s \in Selects : Edit(s)
    BY <1>3
  <2>2. started
    BY <2>1 DEF Edit, Create, ServerChange, Search, Toggle, RemoveOverflowSelections,
                Display, Watching
  <2>3. UNCHANGED <<started, watched, navigated>>
    BY <2>1, EditIs
  <2> QED BY <2>2, <2>3 DEF Watching
<1>4. CASE \E l \in Layouts : ResizeWindow(l)
  BY <1>4 DEF ResizeWindow, Watching
<1>5. CASE Navigate
  BY <1>5 DEF Navigate, Watching
<1>6. CASE Tick
  BY <1>6 DEF Tick, Start, MutationsReported, ScheduleAfterNavigation, ObserveBody,
              TimerFires, Morphed, Watching, pageVars, vars
<1> QED BY <1>1, <1>2, <1>3, <1>4, <1>5, <1>6, StepIs

(***************************************************************************)
(* The badges of a container do what suits their being hidden.             *)
(***************************************************************************)
AttendedBox(b) ==
  /\ \A i \in 1..Len(b.badges) : Attended(b.badges[i])
  /\ b.over # None => Attended(b.over)
AllAttended == \A s \in Selects : box[s] # None => AttendedBox(box[s])

LEMMA AttendedUnspoiled ==
  ASSUME NEW x, Attended(x)
  PROVE  Unspoiled(x)
BY DEF Attended, Unspoiled

LEMMA AttendedFrame ==
  ASSUME NEW s \in Selects, NEW b, BoxTyped(b), AttendedBox(b),
         layout \in Layouts, started \in BOOLEAN
  PROVE  AttendedBox(Framed(s, b))
<1> DEFINE mid == UpdateContainer(s, b)
           new == Framed(s, b)
           n == Len(b.badges)
<1>1. new.badges = mid.badges /\ new.over = mid.over
  BY FramedIs
<1>2. /\ Len(mid.badges) = n
      /\ \A i \in 1..n : Unspoiled(b.badges[i]) => Attended(mid.badges[i])
      /\ (b.over # None => Unspoiled(b.over)) => Attended(mid.over)
  BY UpdateIs
<1>3. /\ \A i \in 1..n : Unspoiled(b.badges[i])
      /\ b.over # None => Unspoiled(b.over)
  BY AttendedUnspoiled DEF AttendedBox
<1> HIDE DEF mid, new
<1>4. AttendedBox(new)
  BY <1>1, <1>2, <1>3 DEF AttendedBox
<1> QED BY <1>4 DEF new

LEMMA AttendedStep ==
  ASSUME Shaped, AllAttended, [Next]_vars
  PROVE  AllAttended'
<1>1. CASE UpdateAll
  <2> SUFFICES ASSUME NEW s \in Selects, box[s] # None PROVE AttendedBox(Framed(s, box[s]))
    BY <1>1, UpdateAllIs DEF AllAttended, AttendedBox
  <2> QED BY AttendedFrame DEF Shaped, AllAttended
<1>2. CASE SizeReported
  <2> SUFFICES ASSUME NEW s \in Selects, box[s] # None PROVE AttendedBox(ClearCaches(box[s]))
    BY <1>2, SizeReportedIs DEF AllAttended, AttendedBox
  <2>1. BoxTyped(box[s]) /\ AttendedBox(box[s])
    BY DEF Shaped, AllAttended
  <2> QED BY <2>1, ClearIs DEF AttendedBox, Attended
<1>3. CASE \E s \in Selects : Edit(s)
  <2>1. PICK s \in Selects : Edit(s)
    BY <1>3
  <2>2. EditedAt(s)
    BY <2>1, EditIs
  <2> SUFFICES ASSUME box'[s] # None PROVE AttendedBox(box'[s])
    BY <2>2 DEF EditedAt, AllAttended, AttendedBox
  <2>3. CASE box'[s] = box[s]
    BY <2>3 DEF AllAttended
  <2>4. CASE Blank(box'[s])
    BY <2>4 DEF Blank, Plain, AttendedBox
  <2>5. CASE box[s] # None /\ Kept(box'[s], box[s])
    <3>1. AttendedBox(box[s])
      BY <2>5 DEF AllAttended
    <3>2. \A k \in 1..Len(box'[s].badges) : Attended(box'[s].badges[k])
      BY <2>5, <3>1 DEF Kept, AttendedBox, Plain
    <3>3. box'[s].over # None => Attended(box'[s].over)
      BY <2>5, <3>1 DEF Kept, AttendedBox, Attended
    <3> QED BY <3>2, <3>3 DEF AttendedBox
  <2> QED BY <2>2, <2>3, <2>4, <2>5 DEF EditedAt
<1>4. CASE \E l \in Layouts : ResizeWindow(l)
  BY <1>4 DEF ResizeWindow, AllAttended, AttendedBox
<1>5. CASE Navigate
  BY <1>5 DEF Navigate, AllAttended
<1>6. CASE Tick
  BY <1>6 DEF Tick, Start, MutationsReported, ScheduleAfterNavigation, TimerFires,
              Morphed, AllAttended, AttendedBox, pageVars, vars
<1> QED BY <1>1, <1>2, <1>3, <1>4, <1>5, <1>6, StepIs

LEMMA AllShaped == Spec => []Shaped
<1>1. Shaped /\ [Next]_vars => Shaped'
  BY ShapedStep
<1> QED BY ShapedInit, <1>1, PTL DEF Spec

(* FocusFollowsSight: however often badges are hidden, shown, edited and    *)
(* replaced, the keyboard reaches those that are seen and no other.        *)
THEOREM TabOrderFollowsSight == Spec => []FocusFollowsSight
<1>1. Init => AllAttended
  BY DEF Init, AllAttended
<1>2. Shaped /\ AllAttended /\ [Next]_vars => AllAttended'
  BY AttendedStep
<1>3. Shaped /\ AllAttended => FocusFollowsSight
  <2> SUFFICES ASSUME Shaped, AllAttended, NEW s \in Selects, box[s] # None
               PROVE  /\ \A b \in Set(box[s].badges) :
                           b.tab = IF b.hidden THEN "-1" ELSE "own"
                      /\ box[s].over # None =>
                           box[s].over.tab = IF box[s].over.hidden THEN "-1" ELSE "own"
    BY DEF FocusFollowsSight
  <2>1. AttendedBox(box[s])
    BY DEF AllAttended
  <2> QED BY <2>1 DEF AttendedBox, Attended, Set
<1> QED BY AllShaped, <1>1, <1>2, <1>3, PTL DEF Spec

(***************************************************************************)
(* The badges are those of the state, unless labels are being asked for.   *)
(***************************************************************************)
AllMatch == \A s \in Selects : select[s] # None => Matches(select[s], box[s])

LEMMA FrameNames ==
  ASSUME NEW s \in Selects, NEW b, BoxTyped(b), layout \in Layouts, started \in BOOLEAN
  PROVE  Framed(s, b) # None /\ Named(Framed(s, b)) = Named(b)
<1> DEFINE mid == UpdateContainer(s, b)
           new == Framed(s, b)
           n == Len(b.badges)
<1>1. BoxTyped(new) /\ new.badges = mid.badges
  BY FramedIs
<1>2. /\ Len(mid.badges) = n
      /\ \A i \in 1..n : mid.badges[i].value = b.badges[i].value
  BY UpdateIs
<1> HIDE DEF mid, new
<1>3. new # None
  BY <1>1, NoneAssumption DEF BoxTyped
<1>4. Named(new) = Named(b)
  BY <1>1, <1>2 DEF Named
<1> QED BY <1>3, <1>4 DEF new

LEMMA ClearNames ==
  ASSUME NEW b, BoxTyped(b)
  PROVE  ClearCaches(b) # None /\ Named(ClearCaches(b)) = Named(b)
<1> DEFINE new == ClearCaches(b)
<1>1. /\ BoxTyped(new) /\ Len(new.badges) = Len(b.badges)
      /\ \A i \in 1..Len(b.badges) : new.badges[i].value = b.badges[i].value
  BY ClearIs
<1> HIDE DEF new
<1>2. new # None /\ Named(new) = Named(b)
  BY <1>1, NoneAssumption DEF BoxTyped, Named
<1> QED BY <1>2 DEF new

LEMMA MatchStep ==
  ASSUME Shaped, AllMatch, [Next]_vars
  PROVE  AllMatch'
<1>1. CASE UpdateAll
  <2> SUFFICES ASSUME NEW s \in Selects, select'[s] # None
               PROVE  Matches(select'[s], box'[s])
    BY DEF AllMatch, Matches, Named
  <2>1. /\ select[s] # None /\ select'[s].state = select[s].state
        /\ select'[s].pending = select[s].pending
    BY <1>1, UpdateAllIs
  <2>2. Matches(select[s], box[s])
    BY <2>1 DEF AllMatch
  <2>3. CASE box[s] = None
    <3>1. box'[s] = None
      BY <1>1, <2>3, UpdateAllIs
    <3> QED BY <2>1, <2>2, <2>3, <3>1 DEF Matches
  <2>4. CASE box[s] # None
    <3>1. box'[s] = Framed(s, box[s])
      BY <1>1, <2>4, UpdateAllIs
    <3>2. Framed(s, box[s]) # None /\ Named(Framed(s, box[s])) = Named(box[s])
      BY <2>4, FrameNames DEF Shaped
    <3> QED BY <2>1, <2>2, <2>4, <3>1, <3>2 DEF Matches
  <2> QED BY <2>3, <2>4
<1>2. CASE SizeReported
  <2> SUFFICES ASSUME NEW s \in Selects, select'[s] # None
               PROVE  Matches(select'[s], box'[s])
    BY DEF AllMatch, Matches, Named
  <2>1. select' = select /\ Matches(select[s], box[s])
    BY <1>2, SizeReportedIs DEF AllMatch
  <2>2. CASE box[s] = None
    <3>1. box'[s] = None
      BY <1>2, <2>2, SizeReportedIs
    <3> QED BY <2>1, <2>2, <3>1 DEF Matches
  <2>3. CASE box[s] # None
    <3>1. box'[s] = ClearCaches(box[s])
      BY <1>2, <2>3, SizeReportedIs
    <3>2. ClearCaches(box[s]) # None /\ Named(ClearCaches(box[s])) = Named(box[s])
      BY <2>3, ClearNames DEF Shaped
    <3> QED BY <2>1, <2>3, <3>1, <3>2 DEF Matches
  <2> QED BY <2>2, <2>3
<1>3. CASE \E s \in Selects : Edit(s)
  <2>1. PICK s \in Selects : Edit(s)
    BY <1>3
  <2>2. EditedAt(s)
    BY <2>1, EditIs
  <2>3. Matches(select'[s], box'[s])
    BY <2>2 DEF EditedAt, AllMatch
  <2>4. \A r \in Selects : r # s => select'[r] = select[r] /\ box'[r] = box[r]
    BY <2>2 DEF EditedAt
  <2> SUFFICES ASSUME NEW r \in Selects, select'[r] # None
               PROVE  Matches(select'[r], box'[r])
    BY DEF AllMatch, Matches, Named
  <2>5. CASE r = s
    BY <2>3, <2>5
  <2>6. CASE r # s
    <3>1. select'[r] = select[r] /\ box'[r] = box[r]
      BY <2>4, <2>6
    <3> QED BY <3>1 DEF AllMatch
  <2> QED BY <2>5, <2>6
<1>4. CASE \E l \in Layouts : ResizeWindow(l)
  BY <1>4 DEF ResizeWindow, AllMatch, Matches, Named
<1>5. CASE Navigate
  BY <1>5 DEF Navigate, AllMatch
<1>6. CASE Tick
  BY <1>6 DEF Tick, Start, MutationsReported, ScheduleAfterNavigation, TimerFires,
              Morphed, AllMatch, Matches, Named, pageVars, vars
<1> QED BY <1>1, <1>2, <1>3, <1>4, <1>5, <1>6, StepIs

LEMMA AllMatching == Spec => []AllMatch
<1>1. Init => AllMatch
  BY DEF Init, AllMatch
<1>2. Shaped /\ AllMatch /\ [Next]_vars => AllMatch'
  BY MatchStep
<1> QED BY AllShaped, <1>1, <1>2, PTL DEF Spec

(* DisplayedIsSelected: whatever edits and replaces badges, and however    *)
(* late labels are answered, they are those of the select's state.         *)
THEOREM BadgesAreTheSelection == Spec => []DisplayedIsSelected
<1>1. AllMatch => DisplayedIsSelected
  BY DEF AllMatch, DisplayedIsSelected, Matches, Named
<1> QED BY AllMatching, <1>1, PTL

(***************************************************************************)
(* The widths in the caches.  A container that no observer watches has     *)
(* nothing in them; one that is watched has today's widths, or its change  *)
(* of size is still to be reported.                                        *)
(***************************************************************************)
Caches ==
  \A s \in Selects : box[s] # None =>
    /\ ~resized => Current(box[s])
    /\ ~box[s].observed => Pristine(box[s])

LEMMA PristineIsCurrent ==
  ASSUME NEW b, Pristine(b)
  PROVE  Current(b)
BY DEF Pristine, Current, CurrentOver

LEMMA SameArranged ==
  ASSUME NEW s \in Selects, NEW b, NEW c, Arranged(s, b),
         c.badges = b.badges, c.over = b.over, c.count = b.count
  PROVE  Arranged(s, c)
<1>1. HiddenOf(c) = HiddenOf(b) /\ \A k : Need(c, k) = Need(b, k)
  BY DEF HiddenOf, Need
<1> QED BY <1>1 DEF Arranged

LEMMA FrameArranges ==
  ASSUME NEW s \in Selects, NEW b, BoxTyped(b), layout \in Layouts, started \in BOOLEAN,
         Current(b)
  PROVE  Arranged(s, Framed(s, b)) /\ Current(Framed(s, b))
<1> DEFINE mid == UpdateContainer(s, b)
           new == Framed(s, b)
<1>1. new.badges = mid.badges /\ new.over = mid.over /\ new.count = mid.count
  BY FramedIs
<1>2. Arranged(s, mid) /\ Current(mid)
  BY UpdateArranges
<1> HIDE DEF mid, new
<1>3. Arranged(s, new)
  BY <1>1, <1>2, SameArranged
<1>4. Current(new)
  BY <1>1, <1>2 DEF Current
<1> QED BY <1>3, <1>4 DEF new

LEMMA CachesStep ==
  ASSUME StylesResize, Shaped, Watching, Caches, [Next]_vars
  PROVE  Caches'
<1>1. CASE UpdateAll
  <2> SUFFICES ASSUME NEW s \in Selects, box'[s] # None
               PROVE  /\ ~resized' => Current(box[s])'
                      /\ ~box'[s].observed => Pristine(box[s])'
    BY DEF Caches
  <2>1. /\ box[s] # None /\ box'[s] = Framed(s, box[s]) /\ layout' = layout
        /\ resized' \in {resized, TRUE}
    BY <1>1, UpdateAllIs
  <2>2. BoxTyped(box[s]) /\ layout \in Layouts /\ started = TRUE
    BY <2>1 DEF Shaped, Watching
  <2>3. box'[s].observed
    BY <2>1, <2>2, FramedIs
  <2>4. ASSUME ~resized' PROVE Current(box[s])'
    <3>0. ~resized
      BY <2>1, <2>4 DEF Shaped
    <3>1. Current(box[s])
      BY <2>1, <3>0 DEF Caches
    <3>2. Current(box'[s])
      BY <2>1, <2>2, <3>1, FrameArranges
    <3> QED BY <2>1, <3>2 DEF Current, CurrentOver
  <2> QED BY <2>3, <2>4
<1>2. CASE SizeReported
  <2> SUFFICES ASSUME NEW s \in Selects, box'[s] # None PROVE Pristine(box[s])'
    BY PristineIsCurrent DEF Caches, Pristine, Current, CurrentOver
  <2>1. box[s] # None /\ box'[s] = ClearCaches(box[s])
    BY <1>2, SizeReportedIs
  <2>2. Pristine(box'[s])
    BY <2>1, ClearIs DEF Shaped
  <2> QED BY <2>2 DEF Pristine
<1>3. CASE \E s \in Selects : Edit(s)
  <2>1. PICK s \in Selects : Edit(s)
    BY <1>3
  <2>2. EditedAt(s) /\ layout' = layout /\ resized' \in {resized, TRUE}
    BY <2>1, EditIs
  <2>3. ASSUME box'[s] = box[s], box[s] # None
        PROVE  /\ ~resized' => Current(box[s])'
               /\ ~box'[s].observed => Pristine(box[s])'
    <3>1. /\ ~resized' => Current(box[s])
          /\ ~box[s].observed => Pristine(box[s])
      <4>1. ~resized' => ~resized
        BY <2>2 DEF Shaped
      <4> QED BY <2>3, <4>1 DEF Caches
    <3>2. Current(box[s]) => Current(box[s])'
      BY <2>2, <2>3 DEF Current, CurrentOver
    <3>3. Pristine(box[s]) => Pristine(box[s])'
      BY <2>3 DEF Pristine
    <3> QED BY <2>3, <3>1, <3>2, <3>3
  <2>4. ASSUME Blank(box'[s])
        PROVE  /\ ~resized' => Current(box[s])'
               /\ ~box'[s].observed => Pristine(box[s])'
    BY <2>4 DEF Blank, Plain, Current, CurrentOver, Pristine
  <2>5. ASSUME box[s] # None, Kept(box'[s], box[s])
        PROVE  /\ ~resized' => Current(box[s])'
               /\ ~box'[s].observed => Pristine(box[s])'
    <3>1. /\ ~resized => Current(box[s])
          /\ ~box[s].observed => Pristine(box[s])
          /\ box'[s].observed = box[s].observed
      BY <2>5 DEF Caches, Kept
    <3>2. ASSUME ~resized' PROVE Current(box[s])'
      <4>1. Current(box[s])
        BY <2>2, <3>1, <3>2
      <4> QED BY <2>2, <2>5, <4>1 DEF Current, CurrentOver, Kept, Plain
    <3>3. ASSUME ~box'[s].observed PROVE Pristine(box[s])'
      <4>1. Pristine(box[s])
        BY <3>1, <3>3
      <4> QED BY <2>5, <4>1 DEF Pristine, Kept, Plain
    <3> QED BY <3>2, <3>3
  <2>6. box'[s] # None =>
          /\ ~resized' => Current(box[s])'
          /\ ~box'[s].observed => Pristine(box[s])'
    BY <2>2, <2>3, <2>4, <2>5 DEF EditedAt
  <2>7. \A r \in Selects : r # s => box'[r] = box[r]
    BY <2>2 DEF EditedAt
  <2> SUFFICES ASSUME NEW r \in Selects, r # s, box'[r] # None
               PROVE  /\ ~resized' => Current(box[r])'
                      /\ ~box'[r].observed => Pristine(box[r])'
    BY <2>6 DEF Caches
  <2>8. box'[r] = box[r]
    BY <2>7
  <2>9. /\ ~resized' => Current(box[r])
        /\ ~box[r].observed => Pristine(box[r])
    <3>1. ~resized' => ~resized
      BY <2>2 DEF Shaped
    <3> QED BY <2>8, <3>1 DEF Caches
  <2>10. Current(box[r]) => Current(box[r])'
    BY <2>2, <2>8 DEF Current, CurrentOver
  <2>11. Pristine(box[r]) => Pristine(box[r])'
    BY <2>8 DEF Pristine
  <2> QED BY <2>8, <2>9, <2>10, <2>11
<1>4. CASE \E l \in Layouts : ResizeWindow(l)
  <2>1. PICK l \in Layouts : ResizeWindow(l)
    BY <1>4
  <2>2. /\ layout' = l /\ l # layout /\ box' = box
        /\ resized' = (resized \/ \E s \in Selects : /\ box[s] # None /\ box[s].observed
                                                     /\ Room[s][l] # Room[s][layout])
    BY <2>1 DEF ResizeWindow
  <2> SUFFICES ASSUME NEW s \in Selects, box[s] # None
               PROVE  /\ ~resized' => Current(box[s])'
                      /\ ~box[s].observed => Pristine(box[s])
    BY <2>2 DEF Caches, Pristine
  <2>3. ~box[s].observed => Pristine(box[s])
    BY DEF Caches
  <2>4. Room[s][l] # Room[s][layout]
    BY <2>2 DEF StylesResize, Shaped
  <2>5. ~resized' => Pristine(box[s])
    BY <2>2, <2>3, <2>4
  <2>6. Pristine(box[s]) => Current(box[s])'
    BY <2>2 DEF Pristine, Current, CurrentOver
  <2> QED BY <2>3, <2>5, <2>6
<1>5. CASE Navigate
  BY <1>5 DEF Navigate, Caches
<1>6. CASE Tick
  <2>1. box' = box /\ layout' = layout /\ resized' = resized
    BY <1>6 DEF Tick, Start, MutationsReported, ScheduleAfterNavigation, TimerFires,
                Morphed, pageVars, vars
  <2> QED BY <2>1 DEF Caches, Current, CurrentOver, Pristine
<1> QED BY <1>1, <1>2, <1>3, <1>4, <1>5, <1>6, StepIs

LEMMA AllCaches ==
  ASSUME StylesResize
  PROVE  Spec => []Caches
<1>1. Init => Caches
  BY DEF Init, Caches
<1>2. Shaped /\ Watching /\ Caches /\ [Next]_vars => Caches'
  BY CachesStep
<1>3. Shaped /\ Watching /\ [Next]_vars => Watching'
  BY WatchingStep
<1> QED BY AllShaped, WatchingInit, <1>1, <1>2, <1>3, PTL DEF Spec

(***************************************************************************)
(* No frame is due or will be asked for by the observer of mutations.      *)
(***************************************************************************)
Settled ==
  started /\ watched /\ ~scheduled /\ "badges" \notin noted /\ "select" \notin noted
EnhancedWhenSettled ==
  Settled => \A s \in Selects : select[s] # None => select[s].enhanced
ArrangedWhenSettled ==
  Settled => \A s \in Selects : box[s] # None =>
               box[s].observed /\ (~resized => Arranged(s, box[s]))

LEMMA QuietIsSettled ==
  ASSUME Watching, Quiet
  PROVE  Settled /\ ~resized
BY DEF Watching, Quiet, Settled

LEMMA EditUnsettles ==
  ASSUME Shaped, NEW s \in Selects, Edit(s)
  PROVE  ~Settled'
<1>1. /\ watched' = watched
      /\ watched => "badges" \in noted' \/ "select" \in noted'
  BY EditIs
<1> QED BY <1>1 DEF Settled

LEMMA TickSettles ==
  ASSUME Tick, Settled'
  PROVE  /\ ~started \/ Settled
         /\ UNCHANGED <<select, box, layout, resized>>
<1>1. CASE Start
  BY <1>1 DEF Start
<1>2. CASE MutationsReported
  BY <1>2 DEF MutationsReported, ShouldSchedule, Settled, pageVars
<1>3. CASE ScheduleAfterNavigation
  BY <1>3 DEF ScheduleAfterNavigation, Settled
<1>4. CASE \E timer \in {"frame", "timeout"} : TimerFires(timer)
  BY <1>4 DEF TimerFires, Settled
<1>5. CASE Morphed
  BY <1>5 DEF Morphed, Settled
<1>6. CASE UNCHANGED vars
  BY <1>6 DEF vars, Settled
<1> QED BY <1>1, <1>2, <1>3, <1>4, <1>5, <1>6 DEF Tick

LEMMA EnhancedStep ==
  ASSUME Shaped, Watching, EnhancedWhenSettled, [Next]_vars
  PROVE  EnhancedWhenSettled'
<1> SUFFICES ASSUME Settled', NEW s \in Selects, select'[s] # None
             PROVE  select'[s].enhanced
  BY DEF EnhancedWhenSettled
<1>1. CASE UpdateAll
  BY <1>1, UpdateAllIs
<1>2. CASE SizeReported
  BY <1>2, SizeReportedIs DEF Settled
<1>3. CASE \E r \in Selects : Edit(r)
  BY <1>3, EditUnsettles
<1>4. CASE \E l \in Layouts : ResizeWindow(l)
  BY <1>4 DEF ResizeWindow, Settled, EnhancedWhenSettled
<1>5. CASE Navigate
  BY <1>5 DEF Navigate
<1>6. CASE Tick
  BY <1>6, TickSettles DEF EnhancedWhenSettled, Watching
<1> QED BY <1>1, <1>2, <1>3, <1>4, <1>5, <1>6, StepIs

LEMMA ArrangedStep ==
  ASSUME StylesResize, Shaped, Watching, Caches, ArrangedWhenSettled, [Next]_vars
  PROVE  ArrangedWhenSettled'
<1> SUFFICES ASSUME Settled', NEW s \in Selects, box'[s] # None
             PROVE  box'[s].observed /\ (~resized' => Arranged(s, box[s])')
  BY DEF ArrangedWhenSettled
<1>0. ASSUME layout' = layout, Arranged(s, box'[s])
      PROVE  Arranged(s, box[s])'
  BY <1>0 DEF Arranged, HiddenOf, Need
<1>1. CASE UpdateAll
  <2>1. /\ box[s] # None /\ box'[s] = Framed(s, box[s]) /\ layout' = layout
        /\ resized' \in {resized, TRUE}
    BY <1>1, UpdateAllIs
  <2>2. BoxTyped(box[s]) /\ layout \in Layouts /\ started = TRUE
    BY <2>1 DEF Shaped, Watching
  <2>3. box'[s].observed
    BY <2>1, <2>2, FramedIs
  <2>4. ASSUME ~resized' PROVE Arranged(s, box[s])'
    <3>1. ~resized
      BY <2>1, <2>4 DEF Shaped
    <3>2. Current(box[s])
      BY <2>1, <3>1 DEF Caches
    <3>3. Arranged(s, box'[s])
      BY <2>1, <2>2, <3>2, FrameArranges
    <3> QED BY <1>0, <2>1, <3>3
  <2> QED BY <2>3, <2>4
<1>2. CASE SizeReported
  BY <1>2, SizeReportedIs DEF Settled
<1>3. CASE \E r \in Selects : Edit(r)
  BY <1>3, EditUnsettles
<1>4. CASE \E l \in Layouts : ResizeWindow(l)
  <2>1. PICK l \in Layouts : ResizeWindow(l)
    BY <1>4
  <2>2. Settled /\ box' = box
    BY <2>1 DEF ResizeWindow, Settled
  <2>3. box[s].observed
    BY <2>2 DEF ArrangedWhenSettled
  <2>4. resized'
    BY <2>1, <2>2, <2>3 DEF ResizeWindow, StylesResize, Shaped
  <2> QED BY <2>2, <2>3, <2>4
<1>5. CASE Navigate
  BY <1>5 DEF Navigate
<1>6. CASE Tick
  <2>1. /\ ~started \/ Settled
        /\ UNCHANGED <<select, box, layout, resized>>
    BY <1>6, TickSettles
  <2>2. Settled
    BY <2>1 DEF Watching
  <2>3. box'[s].observed /\ (~resized => Arranged(s, box'[s]))
    BY <2>1, <2>2 DEF ArrangedWhenSettled
  <2> QED BY <1>0, <2>1, <2>3
<1> QED BY <1>1, <1>2, <1>3, <1>4, <1>5, <1>6, StepIs

LEMMA AllWatching == Spec => []Watching
<1>1. Shaped /\ Watching /\ [Next]_vars => Watching'
  BY WatchingStep
<1> QED BY AllShaped, WatchingInit, <1>1, PTL DEF Spec

LEMMA AllArranged ==
  ASSUME StylesResize
  PROVE  Spec => []ArrangedWhenSettled
<1>1. Init => ArrangedWhenSettled
  BY DEF Init, ArrangedWhenSettled, Settled
<1>2. Shaped /\ Watching /\ Caches /\ ArrangedWhenSettled /\ [Next]_vars
      => ArrangedWhenSettled'
  BY ArrangedStep
<1> QED BY AllShaped, AllWatching, AllCaches, <1>1, <1>2, PTL DEF Spec

LEMMA ArrangedWhenQuiet ==
  ASSUME Watching, ArrangedWhenSettled
  PROVE  SettledIsArranged
<1>1. Quiet => Settled /\ ~resized
  BY QuietIsSettled
<1> QED BY <1>1 DEF SettledIsArranged, ArrangedWhenSettled

(* SettledListIsChecked: no select that takes the place of another, and    *)
(* none on a page reached by navigation, is left with its plain list.      *)
THEOREM NoListIsMissed == Spec => []SettledListIsChecked
<1>1. Init => EnhancedWhenSettled
  BY DEF Init, EnhancedWhenSettled, Settled
<1>2. Shaped /\ Watching /\ EnhancedWhenSettled /\ [Next]_vars => EnhancedWhenSettled'
  BY EnhancedStep
<1>3. Shaped /\ Watching /\ EnhancedWhenSettled => SettledListIsChecked
  <2> SUFFICES ASSUME Shaped, Watching, EnhancedWhenSettled, Quiet,
                      NEW s \in Selects, select[s] # None
               PROVE  select[s].list.checked = Set(select[s].state)
    BY DEF SettledListIsChecked
  <2>1. Settled
    BY QuietIsSettled
  <2>2. SelectTyped(select[s]) /\ select[s].enhanced
    BY <2>1 DEF Shaped, EnhancedWhenSettled
  <2> QED BY <2>2 DEF SelectTyped, Select
<1> QED BY AllShaped, AllWatching, <1>1, <1>2, <1>3, PTL DEF Spec

(* SettledIsArranged: when nothing is on its way, every container shows as *)
(* many badges as find room and tells the number of the others, whatever   *)
(* frames, mutations, changes of size and navigations have overlapped.     *)
THEOREM NoContainerIsMissed ==
  ASSUME StylesResize
  PROVE  Spec => []SettledIsArranged
<1>1. Watching /\ ArrangedWhenSettled => SettledIsArranged
  BY ArrangedWhenQuiet
<1> QED BY AllWatching, AllArranged, <1>1, PTL

(***************************************************************************)
(* The button of the overflow badge of an arranged container.              *)
(***************************************************************************)
LEMMA ClearingArranged ==
  ASSUME NEW s \in Selects, NEW b, BoxTyped(b), Arranged(s, b), ~b.over.hidden,
         NEW state \in Seq(Values), Distinct(state), state = Named(b)
  PROVE  Len(Without(state, HiddenOverflowValues(b))) = Len(state) - b.over.said
<1> DEFINE n == Len(b.badges)
           v == n - b.count
           gone == HiddenOverflowValues(b)
           new == Without(state, gone)
<1>1. b.badges \in Seq(Badge) /\ n \in Nat /\ b.count \in Nat
  BY DEF BoxTyped, Box
<1>2. Len(state) = n /\ \A i \in 1..n : state[i] = b.badges[i].value
  BY <1>1 DEF Named
<1>3. HiddenOf(b) = (v + 1)..n /\ v # n /\ (v < n => b.over.said = n - v)
  BY DEF Arranged
<1>4. \A i \in 1..n : b.badges[i].hidden <=> i > v
  <2> TAKE i \in 1..n
  <2>1. b.badges[i].hidden <=> i \in (v + 1)..n
    BY <1>3 DEF HiddenOf
  <2>2. v \in Int
    BY <1>1
  <2> HIDE DEF v, n
  <2> QED BY <1>1, <2>1, <2>2
<1>5. v \in 0..n /\ v < n
  <2>1. \A i \in (v + 1)..n : i \in 1..n
    BY <1>3 DEF HiddenOf
  <2>2. v \in Int /\ v <= n
    BY <1>1
  <2>3. v >= 0
    <3> SUFFICES ASSUME v < 0 PROVE FALSE
      BY <2>2
    <3>1. 0 \in (v + 1)..n
      <4> HIDE DEF v, n
      <4> QED BY <1>1, <2>2
    <3>2. 0 \notin 1..n
      OBVIOUS
    <3> QED BY <2>1, <3>1, <3>2
  <2> HIDE DEF v, n
  <2> QED BY <1>1, <1>3, <2>2, <2>3
<1>6. gone = {b.badges[i].value : i \in {j \in 1..n : b.badges[j].hidden}}
  BY DEF HiddenOverflowValues, Set
<1>7. Left(state, gone) = 1..v
  <2>1. \A i \in 1..n : state[i] \in gone <=> b.badges[i].hidden
    <3> TAKE i \in 1..n
    <3>1. b.badges[i].hidden => state[i] \in gone
      BY <1>2, <1>6
    <3>2. ASSUME state[i] \in gone PROVE b.badges[i].hidden
      <4>1. PICK j \in 1..n : b.badges[j].hidden /\ state[i] = b.badges[j].value
        BY <1>6, <3>2
      <4>2. state[i] = state[j]
        BY <1>2, <4>1
      <4>3. i = j
        BY <1>2, <4>2 DEF Distinct
      <4> QED BY <4>1, <4>3
    <3> QED BY <3>1, <3>2
  <2>2. \A i \in 1..n : state[i] \notin gone <=> i <= v
    BY <1>4, <1>5, <2>1
  <2> HIDE DEF v, n, gone
  <2> QED BY <1>1, <1>2, <1>5, <2>2 DEF Left
<1> HIDE DEF v, n, gone
<1>8. Len(new) = v /\ \A k \in 1..v : new[k] = state[k]
  BY <1>2, <1>5, <1>7, FirstOnesStay
<1>9. Len(new) = Len(state) - b.over.said
  BY <1>1, <1>2, <1>3, <1>5, <1>8
<1> QED BY <1>9 DEF gone

(* What is left is what is seen, in any container whose badges are those   *)
(* of the selection, arranged or not.                                      *)
LEMMA ClearingSeen ==
  ASSUME NEW b, BoxTyped(b),
         NEW state \in Seq(Values), Distinct(state), state = Named(b)
  PROVE  Set(Without(state, HiddenOverflowValues(b))) = Seen(b)
<1> DEFINE n == Len(b.badges)
           gone == HiddenOverflowValues(b)
           new == Without(state, gone)
<1>1. b.badges \in Seq(Badge) /\ n \in Nat /\ b # None
  BY NoneAssumption DEF BoxTyped, Box
<1>2. Len(state) = n /\ \A i \in 1..n : state[i] = b.badges[i].value
  BY <1>1 DEF Named
<1>3. gone = {b.badges[i].value : i \in {j \in 1..n : b.badges[j].hidden}}
  BY DEF HiddenOverflowValues, Set
<1>4. \A i \in 1..n : state[i] \notin gone <=> ~b.badges[i].hidden
  <2> TAKE i \in 1..n
  <2>1. b.badges[i].hidden => state[i] \in gone
    BY <1>2, <1>3
  <2>2. ASSUME state[i] \in gone PROVE b.badges[i].hidden
    <3>1. PICK j \in 1..n : b.badges[j].hidden /\ state[i] = b.badges[j].value
      BY <1>3, <2>2
    <3>2. i = j
      BY <1>2, <3>1 DEF Distinct
    <3> QED BY <3>1, <3>2
  <2> QED BY <2>1, <2>2
<1>5. \A x : x \in Seen(b) <=> \E i \in 1..n : ~b.badges[i].hidden /\ x = b.badges[i].value
  BY <1>1 DEF Seen, Set
<1>6. Left(state, gone) = {i \in 1..n : state[i] \notin gone}
  BY <1>2 DEF Left
<1> HIDE DEF n, gone
<1>7. \A x \in Set(new) : x \in Seen(b)
  <2>1. \A k \in 1..Len(new) : \E i \in Left(state, gone) : new[k] = state[i]
    BY WithoutIs
  <2>2. ASSUME NEW k \in 1..Len(new) PROVE new[k] \in Seen(b)
    <3>1. PICK i \in Left(state, gone) : new[k] = state[i]
      BY <2>1
    <3>2. i \in 1..n /\ ~b.badges[i].hidden
      BY <1>4, <1>6
    <3> HIDE DEF new
    <3> QED BY <1>2, <1>5, <3>1, <3>2
  <2> HIDE DEF new
  <2> QED BY <2>2 DEF Set
<1>8. \A x \in Seen(b) : x \in Set(new)
  <2> TAKE x \in Seen(b)
  <2>1. PICK i \in 1..n : ~b.badges[i].hidden /\ x = b.badges[i].value
    BY <1>5
  <2>2. i \in Left(state, gone)
    BY <1>4, <1>6, <2>1
  <2> DEFINE k == Cardinality(UpTo(Left(state, gone), i))
  <2>3. k \in 1..Len(new) /\ new[k] = state[i]
    BY <2>2, WithoutAt
  <2>4. state[i] = x
    BY <1>2, <2>1
  <2> HIDE DEF new, k
  <2> QED BY <2>3, <2>4 DEF Set
<1>9. Set(new) = Seen(b)
  <2> HIDE DEF new
  <2> QED BY <1>7, <1>8
<1> QED BY <1>9 DEF gone

(* ClearsWhatItSays: at any time, unless the badges wait for labels, the   *)
(* button "Remove N hidden selections" leaves what is seen and nothing     *)
(* else; once the page is settled, it removes N.                           *)
THEOREM ClearingKeepsItsWord ==
  ASSUME StylesResize
  PROVE  Spec => ClearsWhatItSays
<1>1. ASSUME Shaped, Watching, AllMatch, ArrangedWhenSettled,
             NEW s \in Selects, RemoveOverflowSelections(s)
      PROVE  /\ select[s].pending = "no" => Set(select'[s].state) = Seen(box[s])
             /\ Quiet => Len(select'[s].state) = Len(select[s].state) - box[s].over.said
  <2>1. select[s] # None /\ box[s] # None /\ ~box[s].over.hidden
    BY <1>1 DEF RemoveOverflowSelections
  <2>2. /\ BoxTyped(box[s]) /\ select[s].state \in Seq(Values)
        /\ Distinct(select[s].state)
    BY <1>1, <2>1 DEF Shaped, SelectTyped, Select
  <2>3. select[s].pending = "no" => select[s].state = Named(box[s])
    BY <1>1, <2>1 DEF AllMatch, Matches
  <2>4. select'[s].state = Without(select[s].state, HiddenOverflowValues(box[s]))
    BY <1>1, RemoveEdits
  <2>5. Quiet => Arranged(s, box[s]) /\ select[s].pending = "no"
    BY <1>1, <2>1, ArrangedWhenQuiet DEF SettledIsArranged, Quiet
  <2>6. select[s].pending = "no" => Set(select'[s].state) = Seen(box[s])
    BY <2>2, <2>3, <2>4, ClearingSeen
  <2>7. Quiet => Len(select'[s].state) = Len(select[s].state) - box[s].over.said
    BY <2>1, <2>2, <2>3, <2>4, <2>5, ClearingArranged
  <2> QED BY <2>6, <2>7
<1>2. Shaped /\ Watching /\ AllMatch /\ ArrangedWhenSettled
      => [\A s \in Selects :
            RemoveOverflowSelections(s) =>
              /\ select[s].pending = "no" => Set(select'[s].state) = Seen(box[s])
              /\ Quiet => Len(select'[s].state) = Len(select[s].state) - box[s].over.said]_vars
  BY <1>1
<1> QED BY AllShaped, AllWatching, AllMatching, AllArranged, <1>2, PTL
         DEF ClearsWhatItSays

(***************************************************************************)
(* The types, and the list of an enhanced select.                          *)
(***************************************************************************)
Counted == timers \subseteq {"frame", "timeout"} /\ events \in 0..MaxEvents

LEMMA CountedStep ==
  ASSUME Counted, [Next]_vars
  PROVE  Counted'
<1>1. MaxEvents \in Nat
  BY BadgeAssumption
<1>2. CASE Event /\ timers' = timers
  BY <1>1, <1>2 DEF Event, Counted
<1>3. CASE events' = events /\ timers' \subseteq {"frame", "timeout"}
  BY <1>3 DEF Counted
<1>4. CASE Environment
  BY <1>2, <1>4 DEF Environment, Create, ServerChange, Search, Toggle,
                    RemoveOverflowSelections, ResizeWindow, Navigate, Morphed, pageVars
<1>5. CASE Callback \/ UNCHANGED vars
  BY <1>3, <1>5 DEF Callback, Start, UpdateAll, MutationsReported, SizeReported,
                    ScheduleAfterNavigation, TimerFires, Display, Counted, pageVars, vars
<1> QED BY <1>4, <1>5 DEF Next

(* Every variable keeps its type, whatever selects, options and badges     *)
(* there are: the list that the script renders is one of known values.     *)
THEOREM BadgeTypes == Spec => []TypeOK
<1>1. Init => Counted
  BY BadgeAssumption DEF Init, Counted
<1>2. Counted /\ [Next]_vars => Counted'
  BY CountedStep
<1>3. Shaped /\ Counted => TypeOK
  <2> SUFFICES ASSUME Shaped, Counted PROVE TypeOK
    OBVIOUS
  <2>1. \A s \in Selects : select[s] \in Select \cup {None}
    BY DEF Shaped, SelectTyped
  <2>2. \A s \in Selects : box[s] \in Box \cup {None}
    BY DEF Shaped, BoxTyped
  <2>3. select \in [Selects -> Select \cup {None}]
    BY <2>1, Zenon DEF Shaped
  <2>4. box \in [Selects -> Box \cup {None}]
    BY <2>2, Zenon DEF Shaped
  <2> QED BY <2>3, <2>4 DEF Shaped, Counted, TypeOK
<1> QED BY <1>1, <1>2, <1>3, AllShaped, PTL DEF Spec

(* The list of an enhanced select has the first options up to the limit,   *)
(* those in groups in their order and those in none in theirs, for any     *)
(* mixture of groups, empty ones too, and single options.                  *)
THEOREM ListsStopAtTheLimit ==
  ASSUME SingleOptions, OptionsApart PROVE Spec => []ListedUpToLimit
<1>1. Shaped => ListedUpToLimit
  <2> SUFFICES ASSUME Shaped, NEW s \in Selects, select[s] # None, select[s].enhanced,
                      NEW group \in BOOLEAN
               PROVE  Without(select[s].list.values, ValuesOf(select[s].options, group)) =
                        Without(FirstOptions(select[s].options),
                                ValuesOf(select[s].options, group))
    BY DEF ListedUpToLimit
  <2>1. /\ select[s].options \in OptionLists
        /\ select[s].list.values = RenderedOptions(select[s].options, OptionsLimit)
    BY DEF Shaped, SelectTyped, Select
  <2> QED BY <2>1, RenderedUpToLimit
<1> QED BY <1>1, AllShaped, PTL
=================================================================================
