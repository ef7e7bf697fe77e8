---------------------------- MODULE DeductionProofs ----------------------------
(***************************************************************************)
(* What the recursive functions of Sums and Deduction compute, for every   *)
(* table, any number of rows and every headroom.  The recursions are       *)
(* unfolded with the least-number principle, stated over sets.             *)
(***************************************************************************)
EXTENDS Deduction, WellFoundedInduction, TLAPS

(* Every non-empty set of naturals has a least element. *)
LEMMA LeastNatural ==
    ASSUME NEW T, T \subseteq Nat, T # {}
    PROVE  \E n \in T : \A m \in T : n <= m
  <1>1. PICK n \in T : \A m \in T : ~ (<<m, n>> \in OpToRel(<, Nat))
    BY WFMin, NatLessThanWellFounded
  <1>2. \A m \in T : ~ (m < n)
    BY <1>1 DEF OpToRel
  <1>3. QED
    BY <1>2

(* Induction over an interval: a set of naturals that holds 0, and the     *)
(* successor of each of its elements below n, holds 0..n.                  *)
LEMMA IntervalInduction ==
    ASSUME NEW n \in Nat, NEW P, 0 \in P,
           \A i \in 0..n : i \in P /\ i < n => i + 1 \in P
    PROVE  0..n \subseteq P
  <1> DEFINE T == {i \in 0..n : i \notin P}
  <1> SUFFICES ASSUME T # {} PROVE FALSE
    OBVIOUS
  <1>1. PICK k \in T : \A m \in T : k <= m
    BY LeastNatural, T \subseteq Nat
  <1>2. k # 0 /\ k - 1 \in 0..n /\ k - 1 \in P
    BY <1>1
  <1>3. QED
    BY <1>1, <1>2

(* g starts with c and goes on by the functions F[i]. *)
Solves(g, n, c, F) == g = [i \in 0..n |-> IF i = 0 THEN c ELSE F[i][g[i-1]]]

(* A recursion over an interval, from c in S by functions on S, has a      *)
(* solution.                                                               *)
LEMMA RecursionExists ==
    ASSUME NEW n \in Nat, NEW S, NEW F \in [1..n -> [S -> S]], NEW c \in S
    PROVE  \E g \in [0..n -> S] : Solves(g, n, c, F)
  <1> DEFINE P == {k \in 0..n : \E g \in [0..k -> S] : Solves(g, k, c, F)}
  <1>1. 0 \in P
    <2> DEFINE g0 == [i \in 0..0 |-> c]
    <2>1. g0 \in [0..0 -> S] /\ Solves(g0, 0, c, F)
      BY DEF Solves
    <2> HIDE DEF g0
    <2>2. \E g \in [0..0 -> S] : Solves(g, 0, c, F)
      BY <2>1
    <2>3. QED
      BY <2>2
  <1>2. ASSUME NEW k \in 0..n, k \in P, k < n
        PROVE  k + 1 \in P
    <2>1. PICK g \in [0..k -> S] : Solves(g, k, c, F)
      BY <1>2
    <2> DEFINE h == [i \in 0..(k+1) |-> IF i = k + 1 THEN F[k+1][g[k]] ELSE g[i]]
    <2>2. F[k+1][g[k]] \in S
      <3>1. k + 1 \in 1..n /\ k \in 0..k
        BY <1>2
      <3>2. F[k+1] \in [S -> S] /\ g[k] \in S
        BY <3>1
      <3>3. QED
        BY <3>2
    <2>3. h \in [0..(k+1) -> S]
      <3>1. \A i \in 0..(k+1) : i # k + 1 => i \in 0..k /\ g[i] \in S
        OBVIOUS
      <3>2. QED
        BY <2>2, <3>1
    <2>4. ASSUME NEW i \in 0..(k+1)
          PROVE  h[i] = IF i = 0 THEN c ELSE F[i][h[i-1]]
      <3>1. CASE i = k + 1
        <4>1. h[i] = F[k+1][g[k]] /\ h[i-1] = g[k] /\ i # 0
          BY <3>1, <1>2
        <4>2. QED
          BY <3>1, <4>1
      <3>2. CASE i # k + 1
        <4>1. i \in 0..k /\ h[i] = g[i]
          BY <3>2
        <4>2. i # 0 => i - 1 \in 0..k /\ h[i-1] = g[i-1]
          BY <4>1
        <4>3. QED
          BY <2>1, <4>1, <4>2 DEF Solves
      <3>3. QED
        BY <3>1, <3>2
    <2>5. Solves(h, k + 1, c, F)
      BY <2>3, <2>4 DEF Solves
    <2> HIDE DEF h
    <2>6. \E f \in [0..(k+1) -> S] : Solves(f, k + 1, c, F)
      BY <2>3, <2>5
    <2>7. QED
      BY <2>6, <1>2
  <1>3. 0..n \subseteq P
    <2> HIDE DEF P
    <2>1. QED
      BY <1>1, <1>2, IntervalInduction
  <1>4. QED
    BY <1>3

-----------------------------------------------------------------------------
(* The sum of a table of rows. *)

(* The recursion of PartialSums is well defined. *)
LEMMA PartialSumsStep ==
    ASSUME NEW n \in Nat, NEW row \in [1..n -> Int]
    PROVE  /\ PartialSums(row, n) \in [0..n -> Int]
           /\ PartialSums(row, n)[0] = 0
           /\ \A i \in 1..n : PartialSums(row, n)[i] = PartialSums(row, n)[i-1] + row[i]
  <1> DEFINE F == [i \in 1..n |-> [v \in Int |-> v + row[i]]]
             Step(g) == [i \in 0..n |-> IF i = 0 THEN 0 ELSE g[i-1] + row[i]]
  <1>1. PICK g \in [0..n -> Int] : Solves(g, n, 0, F)
    <2>1. F \in [1..n -> [Int -> Int]]
      OBVIOUS
    <2> HIDE DEF F
    <2>2. 0 \in Int
      OBVIOUS
    <2>3. QED
      BY <2>1, <2>2, RecursionExists, Zenon
  <1>2. g = Step(g)
    <2>1. \A i \in 1..n, v \in Int : F[i][v] = v + row[i]
      OBVIOUS
    <2>2. \A i \in 1..n : i - 1 \in 0..n /\ g[i-1] \in Int
      OBVIOUS
    <2> HIDE DEF F
    <2>3. \A i \in 0..n : i # 0 => F[i][g[i-1]] = g[i-1] + row[i]
      <3>1. \A i \in 0..n : i # 0 => i \in 1..n
        OBVIOUS
      <3>2. QED
        BY <2>1, <2>2, <3>1, Zenon
    <2>4. QED
      BY <1>1, <2>3 DEF Solves
  <1>3. PartialSums(row, n) = Step(PartialSums(row, n))
    BY <1>2 DEF PartialSums
  <1> HIDE DEF F
  <1>4. PartialSums(row, n)[0] = 0
    BY <1>3
  <1>5. \A i \in 1..n : PartialSums(row, n)[i] = PartialSums(row, n)[i-1] + row[i]
    BY <1>3
  <1>6. \A i \in 0..n : PartialSums(row, n)[i] \in Int
    <2> DEFINE P == {i \in 0..n : PartialSums(row, n)[i] \in Int}
    <2>1. 0 \in P
      BY <1>4
    <2>2. \A i \in 0..n : i \in P /\ i < n => i + 1 \in P
      BY <1>5
    <2> HIDE DEF P
    <2>3. 0..n \subseteq P
      BY <2>1, <2>2, IntervalInduction
    <2>4. QED
      BY <2>3 DEF P
  <1>7. PartialSums(row, n) \in [0..n -> Int]
    BY <1>3, <1>6
  <1>8. QED
    BY <1>4, <1>5, <1>7

(* Rows that are not negative add up to no less than any one of them. *)
LEMMA SumOfNat ==
    ASSUME NEW n \in Nat, NEW row \in [1..n -> Nat]
    PROVE  /\ SumOf(row, n) \in Nat
           /\ \A p \in 1..n : row[p] <= SumOf(row, n)
  <1> DEFINE s == PartialSums(row, n)
             P == {i \in 0..n : s[i] \in Nat /\ \A p \in 1..i : row[p] <= s[i]}
  <1>0. row \in [1..n -> Int]
    OBVIOUS
  <1>1. /\ s \in [0..n -> Int] /\ s[0] = 0
        /\ \A i \in 1..n : s[i] = s[i-1] + row[i]
    BY <1>0, PartialSumsStep
  <1> HIDE DEF s
  <1>2. 0 \in P
    BY <1>1
  <1>3. ASSUME NEW i \in 0..n, i \in P, i < n
        PROVE  i + 1 \in P
    <2>1. s[i+1] = s[i] + row[i+1] /\ i + 1 \in 1..n /\ row[i+1] \in Nat
      BY <1>1, <1>3
    <2>2. s[i+1] \in Nat /\ row[i+1] <= s[i+1]
      BY <1>3, <2>1
    <2>3. ASSUME NEW p \in 1..i PROVE row[p] <= s[i+1]
      BY <1>3, <2>1, <2>3
    <2>4. QED
      BY <2>1, <2>2, <2>3
  <1> HIDE DEF P
  <1>4. 0..n \subseteq P
    BY <1>2, <1>3, IntervalInduction
  <1>5. QED
    BY <1>4 DEF P, s, SumOf

(* Overwriting one row changes the sum by the difference: recording a      *)
(* period again replaces what it took before.                              *)
LEMMA SumOfOverwrite ==
    ASSUME NEW n \in Nat, NEW row \in [1..n -> Int], NEW p \in 1..n, NEW x \in Int
    PROVE  SumOf([row EXCEPT ![p] = x], n) = SumOf(row, n) - row[p] + x
  <1> DEFINE new == [row EXCEPT ![p] = x]
             s == PartialSums(row, n)
             t == PartialSums(new, n)
             P == {i \in 0..n : t[i] = IF i < p THEN s[i] ELSE s[i] - row[p] + x}
  <1>0. new \in [1..n -> Int]
    OBVIOUS
  <1>1. /\ s \in [0..n -> Int] /\ s[0] = 0
        /\ \A i \in 1..n : s[i] = s[i-1] + row[i]
    BY PartialSumsStep
  <1>2. /\ t \in [0..n -> Int] /\ t[0] = 0
        /\ \A i \in 1..n : t[i] = t[i-1] + new[i]
    <2> HIDE DEF new
    <2>1. QED
      BY <1>0, PartialSumsStep
  <1> HIDE DEF s, t
  <1>3. 0 \in P
    BY <1>1, <1>2
  <1>4. ASSUME NEW i \in 0..n, i \in P, i < n
        PROVE  i + 1 \in P
    <2>0. i + 1 \in 1..n /\ (i + 1) - 1 = i
      BY <1>4
    <2>1. /\ s[i+1] = s[i] + row[i+1]
          /\ t[i+1] = t[i] + new[i+1]
          /\ s[i] \in Int /\ row[i+1] \in Int /\ row[p] \in Int
      <3> HIDE DEF new
      <3>1. QED
        BY <1>1, <1>2, <2>0
    <2>2. new[i+1] = IF i + 1 = p THEN x ELSE row[i+1]
      BY <2>0
    <2> HIDE DEF new
    <2>3. t[i+1] = IF i + 1 < p THEN s[i+1] ELSE s[i+1] - row[p] + x
      <3>1. t[i] = IF i < p THEN s[i] ELSE s[i] - row[p] + x
        BY <1>4
      <3> HIDE DEF P
      <3>2. CASE i + 1 < p
        BY <2>1, <2>2, <3>1, <3>2
      <3>3. CASE i + 1 = p
        BY <2>1, <2>2, <3>1, <3>3
      <3>4. CASE i + 1 > p
        BY <2>1, <2>2, <3>1, <3>4
      <3>5. QED
        BY <3>2, <3>3, <3>4
    <2>4. QED
      BY <2>0, <2>3
  <1> HIDE DEF P
  <1>5. 0..n \subseteq P
    BY <1>3, <1>4, IntervalInduction
  <1>6. t[n] = s[n] - row[p] + x
    BY <1>5 DEF P
  <1>7. QED
    BY <1>6 DEF s, t, SumOf

(* A table without rows adds up to nothing. *)
LEMMA SumOfNothing ==
    ASSUME NEW n \in Nat
    PROVE  SumOf([p \in 1..n |-> 0], n) = 0
  <1> DEFINE row == [p \in 1..n |-> 0]
             s == PartialSums(row, n)
             P == {i \in 0..n : s[i] = 0}
  <1>1. row \in [1..n -> Int] /\ \A i \in 1..n : row[i] = 0
    OBVIOUS
  <1>2. s[0] = 0 /\ \A i \in 1..n : s[i] = s[i-1] + row[i]
    <2> HIDE DEF row
    <2>1. QED
      BY <1>1, PartialSumsStep
  <1>3. 0 \in P
    BY <1>2
  <1>4. \A i \in 0..n : i \in P /\ i < n => i + 1 \in P
    <2> HIDE DEF s
    <2>1. QED
      BY <1>1, <1>2
  <1> HIDE DEF P
  <1>5. 0..n \subseteq P
    BY <1>3, <1>4, IntervalInduction
  <1>6. QED
    BY <1>5 DEF P, SumOf

-----------------------------------------------------------------------------
(* The capped loop. *)

(* The recursion of Remaining is well defined, for requests and headrooms  *)
(* of any sign.                                                            *)
LEMMA RemainingStep ==
    ASSUME NEW n \in Nat, NEW request \in [1..n -> Int], NEW headroom \in Int
    PROVE  /\ Remaining(request, headroom, n)[0] = headroom
           /\ \A i \in 1..n :
                Remaining(request, headroom, n)[i] =
                    Remaining(request, headroom, n)[i-1]
                      - Least(request[i], Remaining(request, headroom, n)[i-1])
  <1> DEFINE F == [i \in 1..n |-> [v \in Int |-> v - Least(request[i], v)]]
             Step(g) == [i \in 0..n |-> IF i = 0 THEN headroom
                                        ELSE g[i-1] - Least(request[i], g[i-1])]
  <1>1. PICK g \in [0..n -> Int] : Solves(g, n, headroom, F)
    <2>1. F \in [1..n -> [Int -> Int]]
      <3>1. \A i \in 1..n, v \in Int : v - Least(request[i], v) \in Int
        BY DEF Least
      <3>2. QED
        BY <3>1
    <2> HIDE DEF F
    <2>2. QED
      BY <2>1, RecursionExists, Zenon
  <1>2. g = Step(g)
    <2>1. \A i \in 1..n, v \in Int : F[i][v] = v - Least(request[i], v)
      OBVIOUS
    <2>2. \A i \in 1..n : i - 1 \in 0..n /\ g[i-1] \in Int
      OBVIOUS
    <2> HIDE DEF F
    <2>3. \A i \in 0..n : i # 0 => F[i][g[i-1]] = g[i-1] - Least(request[i], g[i-1])
      <3>1. \A i \in 0..n : i # 0 => i \in 1..n
        OBVIOUS
      <3>2. QED
        BY <2>1, <2>2, <3>1, Zenon
    <2>4. QED
      BY <1>1, <2>3 DEF Solves
  <1>3. Remaining(request, headroom, n) = Step(Remaining(request, headroom, n))
    BY <1>2 DEF Remaining
  <1> HIDE DEF F
  <1>4. QED
    BY <1>3

(* The headroom never falls below zero, and only shrinks while nobody in   *)
(* line asks for less than nothing.                                        *)
LEMMA RemainingBounds ==
    ASSUME NEW n \in Nat, NEW request \in [1..n -> Int], NEW headroom \in Nat
    PROVE  \A j \in 0..n :
              /\ Remaining(request, headroom, n)[j] \in Nat
              /\ \A i \in 0..j :
                    (\A k \in (i+1)..j : request[k] >= 0)
                    => Remaining(request, headroom, n)[j]
                         <= Remaining(request, headroom, n)[i]
  <1> DEFINE r == Remaining(request, headroom, n)
             Asked(i, j) == \A k \in (i+1)..j : request[k] >= 0
             P == {j \in 0..n : /\ r[j] \in Nat
                                /\ \A i \in 0..j : r[i] \in Nat /\ (Asked(i, j) => r[j] <= r[i])}
  <1>1. r[0] = headroom /\ \A i \in 1..n : r[i] = r[i-1] - Least(request[i], r[i-1])
    BY RemainingStep
  <1> HIDE DEF r
  <1>2. 0 \in P
    BY <1>1
  <1>3. ASSUME NEW j \in 0..n, j \in P, j < n
        PROVE  j + 1 \in P
    <2>1. j + 1 \in 1..n /\ (j + 1) - 1 = j /\ request[j+1] \in Int
      BY <1>3
    <2>2. r[j+1] = r[j] - Least(request[j+1], r[j]) /\ r[j] \in Nat
      BY <1>1, <1>3, <2>1
    <2>3. r[j+1] \in Nat /\ (request[j+1] >= 0 => r[j+1] <= r[j])
      BY <2>1, <2>2 DEF Least
    <2>4. ASSUME NEW i \in 0..(j+1)
          PROVE  r[i] \in Nat /\ (Asked(i, j + 1) => r[j+1] <= r[i])
      <3>1. CASE i = j + 1
        BY <2>3, <3>1
      <3>2. CASE i # j + 1
        <4>1. i \in 0..j /\ r[i] \in Nat /\ (Asked(i, j) => r[j] <= r[i])
          BY <1>3, <3>2
        <4>2. ASSUME Asked(i, j + 1)
              PROVE  Asked(i, j) /\ request[j+1] >= 0
          <5>1. j + 1 \in (i+1)..(j+1)
            BY <4>1
          <5>2. \A k \in (i+1)..j : k \in (i+1)..(j+1)
            BY <4>1
          <5>3. QED
            BY <4>2, <5>1, <5>2
        <4>3. QED
          BY <2>2, <2>3, <4>1, <4>2
      <3>3. QED
        BY <3>1, <3>2
    <2>5. QED
      BY <2>1, <2>3, <2>4
  <1> HIDE DEF P
  <1>4. 0..n \subseteq P
    BY <1>2, <1>3, IntervalInduction
  <1>5. QED
    BY <1>4 DEF P, r

(* No turn takes more than is asked for, nor less than nothing from an     *)
(* advance that asks for something; and the total never exceeds the        *)
(* headroom, whatever is asked, nor falls below nothing while nobody asks  *)
(* for less than nothing.                                                  *)
THEOREM DeductionBounds ==
    ASSUME NEW n \in Nat, NEW request \in [1..n -> Int], NEW headroom \in Nat
    PROVE  /\ \A i \in 1..n :
                 /\ DeductedAt(request, headroom, n)[i] \in Int
                 /\ DeductedAt(request, headroom, n)[i] <= request[i]
                 /\ request[i] >= 0 => DeductedAt(request, headroom, n)[i] >= 0
           /\ TotalDeduction(request, headroom, n) \in Int
           /\ TotalDeduction(request, headroom, n) <= headroom
           /\ (\A i \in 1..n : request[i] >= 0) => TotalDeduction(request, headroom, n) >= 0
  <1> DEFINE r == Remaining(request, headroom, n)
  <1>1. \A j \in 0..n : r[j] \in Nat
    BY RemainingBounds
  <1>2. \A i \in 1..n : i - 1 \in 0..n /\ request[i] \in Int
    OBVIOUS
  <1>3. ASSUME NEW i \in 1..n
        PROVE  /\ DeductedAt(request, headroom, n)[i] \in Int
               /\ DeductedAt(request, headroom, n)[i] <= request[i]
               /\ request[i] >= 0 => DeductedAt(request, headroom, n)[i] >= 0
    BY <1>1, <1>2 DEF DeductedAt, Least
  <1>4. r[0] = headroom
    BY RemainingStep, headroom \in Int
  <1>5. ASSUME \A i \in 1..n : request[i] >= 0 PROVE r[n] <= r[0]
    <2>1. n \in 0..n /\ 0 \in 0..n /\ \A k \in (0+1)..n : request[k] >= 0
      BY <1>5
    <2>2. QED
      BY <2>1, RemainingBounds
  <1>6. r[n] \in Nat /\ TotalDeduction(request, headroom, n) = headroom - r[n]
    BY <1>1 DEF TotalDeduction
  <1> HIDE DEF r
  <1>7. QED
    BY <1>3, <1>4, <1>5, <1>6

(* If an advance gets anything, an advance in line before it has got all   *)
(* it asked for, unless one between them asks for less than nothing:       *)
(* recovery is first in, first out.                                        *)
THEOREM FirstInFirstOut ==
    ASSUME NEW n \in Nat, NEW request \in [1..n -> Int], NEW headroom \in Nat,
           NEW j \in 1..n, NEW i \in 1..(j-1),
           \A k \in (i+1)..(j-1) : request[k] >= 0,
           DeductedAt(request, headroom, n)[j] > 0
    PROVE  DeductedAt(request, headroom, n)[i] = request[i]
  <1> DEFINE r == Remaining(request, headroom, n)
  <1>0. headroom \in Int
    OBVIOUS
  <1>1. \A k \in 1..n : r[k] = r[k-1] - Least(request[k], r[k-1])
    BY <1>0, RemainingStep
  <1>2. /\ r[j-1] \in Nat /\ r[i-1] \in Nat /\ r[i] \in Nat
        /\ r[j-1] <= r[i]
    <2>1. j - 1 \in 0..n /\ i - 1 \in 0..n /\ i \in 0..n /\ i \in 0..(j-1)
      OBVIOUS
    <2>2. QED
      BY <2>1, RemainingBounds
  <1>3. r[j-1] > 0
    <2>1. DeductedAt(request, headroom, n)[j] = Least(request[j], r[j-1])
      BY DEF DeductedAt
    <2>2. request[j] \in Int
      OBVIOUS
    <2> HIDE DEF r
    <2>3. QED
      BY <2>1, <2>2, <1>2 DEF Least
  <1>4. r[i] = r[i-1] - Least(request[i], r[i-1])
    BY <1>1
  <1>5. DeductedAt(request, headroom, n)[i] = Least(request[i], r[i-1])
    BY DEF DeductedAt
  <1>6. request[i] \in Int
    OBVIOUS
  <1> HIDE DEF r
  <1>7. QED
    BY <1>2, <1>3, <1>4, <1>5, <1>6 DEF Least

(* When nobody asks for less than nothing, the capped total is the whole   *)
(* headroom or the whole sum asked for, whichever is less: the loop leaves *)
(* nothing it could take.                                                  *)
THEOREM TotalIsCappedSum ==
    ASSUME NEW n \in Nat, NEW request \in [1..n -> Nat], NEW headroom \in Nat
    PROVE  TotalDeduction(request, headroom, n) = Least(SumOf(request, n), headroom)
  <1> DEFINE r == Remaining(request, headroom, n)
             s == PartialSums(request, n)
             P == {i \in 0..n : headroom - r[i] = Least(s[i], headroom)}
  <1>0. request \in [1..n -> Int] /\ headroom \in Int
    OBVIOUS
  <1>1. r[0] = headroom /\ \A i \in 1..n : r[i] = r[i-1] - Least(request[i], r[i-1])
    BY <1>0, RemainingStep
  <1>2. \A i \in 0..n : r[i] \in 0..headroom
    <2>1. \A i \in 0..n : r[i] \in Nat
      BY <1>0, RemainingBounds
    <2>2. \A i \in 0..n : 0 \in 0..i /\ \A k \in 1..i : request[k] >= 0
      OBVIOUS
    <2>3. \A i \in 0..n : r[i] <= r[0]
      BY <1>0, <2>2, RemainingBounds
    <2> HIDE DEF r
    <2>4. QED
      BY <1>1, <2>1, <2>3
  <1>3. /\ s \in [0..n -> Int] /\ s[0] = 0
        /\ \A i \in 1..n : s[i] = s[i-1] + request[i]
    BY <1>0, PartialSumsStep
  <1> HIDE DEF r, s
  <1>4. 0 \in P
    BY <1>1, <1>3 DEF Least
  <1>5. ASSUME NEW i \in 0..n, i \in P, i < n
        PROVE  i + 1 \in P
    <2>1. i + 1 \in 1..n /\ (i + 1) - 1 = i /\ request[i+1] \in Nat
      BY <1>5
    <2>2. /\ r[i+1] = r[i] - Least(request[i+1], r[i])
          /\ s[i+1] = s[i] + request[i+1]
          /\ r[i] \in 0..headroom /\ s[i] \in Int
      BY <1>1, <1>2, <1>3, <2>1
    <2>3. headroom - r[i] = Least(s[i], headroom)
      BY <1>5
    <2>4. headroom - r[i+1] = Least(s[i+1], headroom)
      BY <2>1, <2>2, <2>3 DEF Least
    <2>5. QED
      BY <2>1, <2>4
  <1> HIDE DEF P
  <1>6. 0..n \subseteq P
    BY <1>4, <1>5, IntervalInduction
  <1>7. QED
    BY <1>6 DEF P, r, s, TotalDeduction, SumOf
=============================================================================
