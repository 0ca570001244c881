--------------------------- MODULE Filtering_proofs ---------------------------
(***************************************************************************)
(* Induction and recursion over the prefixes of a sequence in first-order  *)
(* form, where a set or a function stands for what the library's theorems  *)
(* take an operator for; and what Filtered returns.                        *)
(***************************************************************************)
EXTENDS Filtering, Integers, SequenceTheorems, WellFoundedInduction, TLAPS

LEMMA LeastOf ==
  ASSUME NEW S \in SUBSET Nat, S # {}
  PROVE  \E x \in S : \A y \in S : x <= y
<1>1. PICK x \in S : \A y \in S : ~(<<y, x>> \in OpToRel(<, Nat))
  BY NatLessThanWellFounded, WFMin
<1>2. ASSUME NEW y \in S
      PROVE  x <= y
  <2>1. <<y, x>> \in Nat \X Nat /\ ~(<<y, x>>[1] < <<y, x>>[2])
    BY <1>1 DEF OpToRel
  <2> QED BY <2>1
<1> QED BY <1>2

(* Induction: a set that holds 0 and is closed under the next prefix.       *)
LEMMA PrefixInduction ==
  ASSUME NEW N \in Nat, NEW P,
         0 \in P,
         \A n \in 1 .. N : n - 1 \in P => n \in P
  PROVE  \A n \in 0 .. N : n \in P
<1> DEFINE Bad == {n \in 0 .. N : n \notin P}
<1> SUFFICES ASSUME Bad # {}
             PROVE  FALSE
  OBVIOUS
<1>1. Bad \in SUBSET Nat
  OBVIOUS
<1>2. PICK n \in Bad : \A m \in Bad : n <= m
  BY <1>1, LeastOf
<1>3. n \in 1 .. N /\ n - 1 \in 0 .. N
  BY <1>2
<1>4. n - 1 \in P
  BY <1>2, <1>3
<1> QED BY <1>2, <1>3, <1>4

(* g is what a loop of m iterations computes from base, iteration by        *)
(* iteration.                                                               *)
Iterates(g, base, step, m) ==
  /\ g[0] = base
  /\ \A n \in 1 .. m : g[n] = step[n][g[n - 1]]

(* Recursion: whatever the iterations do, the loop computes something.      *)
LEMMA PrefixRecursion ==
  ASSUME NEW S, NEW N \in Nat, NEW base \in S, NEW step \in [1 .. N -> [S -> S]]
  PROVE  \E g \in [0 .. N -> S] : Iterates(g, base, step, N)
<1> DEFINE Goes(g, m) == Iterates(g, base, step, m)
           P == {m \in 0 .. N : \E g \in [0 .. m -> S] : Goes(g, m)}
<1>1. 0 \in P
  <2> DEFINE h == [n \in 0 .. 0 |-> base]
  <2>1. h \in [0 .. 0 -> S]
    OBVIOUS
  <2>2. Goes(h, 0)
    BY DEF Iterates
  <2> HIDE DEF h
  <2>3. \E g \in [0 .. 0 -> S] : Goes(g, 0)
    BY <2>1, <2>2
  <2> QED BY <2>3
<1>2. ASSUME NEW m \in 1 .. N, m - 1 \in P
      PROVE  m \in P
  <2>1. PICK g \in [0 .. m - 1 -> S] : Iterates(g, base, step, m - 1)
    BY <1>2
  <2> DEFINE h == [n \in 0 .. m |-> IF n = m THEN step[m][g[m - 1]] ELSE g[n]]
  <2>2. g[m - 1] \in S
    BY <2>1
  <2>3. h \in [0 .. m -> S]
    BY <2>1, <2>2
  <2>4. h[0] = base
    BY <2>1 DEF Iterates
  <2>5. ASSUME NEW n \in 1 .. m
        PROVE  h[n] = step[n][h[n - 1]]
    <3>1. n - 1 \in 0 .. m /\ n - 1 # m /\ n \in 0 .. m
      OBVIOUS
    <3>2. h[n - 1] = g[n - 1]
      BY <3>1
    <3>3. CASE n = m
      BY <3>1, <3>2, <3>3
    <3>4. CASE n # m
      <4>1. n \in 1 .. m - 1
        BY <3>4
      <4>2. h[n] = g[n]
        BY <3>1, <3>4
      <4> QED BY <2>1, <3>2, <4>1, <4>2 DEF Iterates
    <3> QED BY <3>3, <3>4
  <2> HIDE DEF h
  <2>6. Goes(h, m)
    BY <2>4, <2>5 DEF Iterates
  <2> QED BY <2>3, <2>6
<1> HIDE DEF P
<1>3. \A m \in 1 .. N : m - 1 \in P => m \in P
  BY <1>2
<1>4. \A m \in 0 .. N : m \in P
  BY <1>1, <1>3, PrefixInduction
<1>5. N \in P
  BY <1>4
<1> QED BY <1>5 DEF P

(* Filtered prefix by prefix. *)
LEMMA FilterStep ==
  ASSUME NEW A, NEW s \in Seq(A), NEW keep
  PROVE  /\ FilteredUpTo(s, keep)[0] = <<>>
         /\ \A n \in 1 .. Len(s) :
              FilteredUpTo(s, keep)[n] =
                IF n \in keep THEN Append(FilteredUpTo(s, keep)[n - 1], s[n])
                              ELSE FilteredUpTo(s, keep)[n - 1]
<1> DEFINE N == Len(s)
           step == [n \in 1 .. N |->
                      [x \in Seq(A) |-> IF n \in keep THEN Append(x, s[n]) ELSE x]]
           Body(g) == [n \in 0 .. N |->
                         IF n = 0 THEN <<>>
                         ELSE IF n \in keep THEN Append(g[n - 1], s[n]) ELSE g[n - 1]]
<1>1. N \in Nat /\ \A n \in 1 .. N : s[n] \in A
  OBVIOUS
<1>2. step \in [1 .. N -> [Seq(A) -> Seq(A)]]
  BY <1>1
<1>3. <<>> \in Seq(A)
  OBVIOUS
<1>4. \A n \in 1 .. N, x \in Seq(A) :
        step[n][x] = IF n \in keep THEN Append(x, s[n]) ELSE x
  OBVIOUS
<1> HIDE DEF step
<1>5. PICK g \in [0 .. N -> Seq(A)] : Iterates(g, <<>>, step, N)
  BY <1>1, <1>2, <1>3, PrefixRecursion
<1>6. g = Body(g)
  <2>1. ASSUME NEW n \in 0 .. N
        PROVE  g[n] = Body(g)[n]
    <3>1. CASE n = 0
      BY <3>1, <1>5 DEF Iterates
    <3>2. CASE n # 0
      <4>1. n \in 1 .. N /\ n - 1 \in 0 .. N
        BY <1>1, <3>2
      <4>2. g[n - 1] \in Seq(A)
        BY <4>1, <1>5
      <4>3. g[n] = IF n \in keep THEN Append(g[n - 1], s[n]) ELSE g[n - 1]
        BY <4>1, <4>2, <1>4, <1>5 DEF Iterates
      <4> QED BY <3>2, <4>3
    <3> QED BY <3>1, <3>2
  <2> QED BY <2>1, <1>5
<1>7. FilteredUpTo(s, keep) = CHOOSE f : f = Body(f)
  BY DEF FilteredUpTo
<1>8. FilteredUpTo(s, keep) = Body(FilteredUpTo(s, keep))
  BY <1>6, <1>7
<1> DEFINE F == FilteredUpTo(s, keep)
<1> HIDE DEF F
<1>9. F = Body(F)
  BY <1>8 DEF F
<1>10. F[0] = <<>>
  BY <1>1, <1>9
<1>11. ASSUME NEW n \in 1 .. N
       PROVE  F[n] = IF n \in keep THEN Append(F[n - 1], s[n]) ELSE F[n - 1]
  <2>1. n \in 0 .. N /\ n # 0
    BY <1>1
  <2>2. F[n] = Body(F)[n]
    BY <1>9
  <2> QED BY <2>1, <2>2
<1> QED BY <1>10, <1>11 DEF F

(* at tells, for each element of the filtered sequence k, where it was      *)
(* among the first n of s.                                                  *)
Places(at, k, s, keep, n) ==
  /\ at \in [1 .. Len(k) -> {i \in 1 .. n : i \in keep}]
  /\ \A i, j \in 1 .. Len(k) : i < j => at[i] < at[j]
  /\ \A j \in 1 .. Len(k) : k[j] = s[at[j]]
  /\ \A i \in 1 .. n : i \in keep => \E j \in 1 .. Len(k) : at[j] = i

LEMMA FilterPlacesStep ==
  ASSUME NEW A, NEW s \in Seq(A), NEW keep, NEW n \in 1 .. Len(s), NEW k \in Seq(A),
         NEW at, Places(at, k, s, keep, n - 1), n \in keep
  PROVE  Places([i \in 1 .. Len(k) + 1 |-> IF i = Len(k) + 1 THEN n ELSE at[i]],
                Append(k, s[n]), s, keep, n)
<1> DEFINE l  == Append(k, s[n])
           m  == Len(k)
           to == [i \in 1 .. m + 1 |-> IF i = m + 1 THEN n ELSE at[i]]
<1>1. /\ n \in Nat /\ m \in Nat /\ s[n] \in A
      /\ Len(l) = m + 1
      /\ l[m + 1] = s[n]
      /\ \A i \in 1 .. m : l[i] = k[i]
  OBVIOUS
<1>2. /\ \A i \in 1 .. m : at[i] \in 1 .. n - 1 /\ at[i] \in keep /\ k[i] = s[at[i]]
      /\ \A i, j \in 1 .. m : i < j => at[i] < at[j]
      /\ \A i \in 1 .. n - 1 : i \in keep => \E j \in 1 .. m : at[j] = i
  BY DEF Places
<1>3. \A i \in 1 .. m + 1 : i \in 1 .. m \/ i = m + 1
  BY <1>1
<1>4. to[m + 1] = n /\ \A i \in 1 .. m : to[i] = at[i] /\ i \in 1 .. m + 1
  BY <1>1
<1>5. to \in [1 .. m + 1 -> {i \in 1 .. n : i \in keep}]
  BY <1>1, <1>2, <1>3
<1> HIDE DEF l, m, to
<1>6. ASSUME NEW i \in 1 .. m + 1, NEW j \in 1 .. m + 1, i < j
      PROVE  to[i] < to[j]
  <2>1. i \in 1 .. m
    BY <1>1, <1>6
  <2>2. CASE j = m + 1
    BY <1>1, <1>2, <1>4, <2>1, <2>2
  <2>3. CASE j \in 1 .. m
    BY <1>2, <1>4, <1>6, <2>1, <2>3
  <2> QED BY <1>3, <2>2, <2>3
<1>7. ASSUME NEW j \in 1 .. m + 1
      PROVE  l[j] = s[to[j]]
  BY <1>1, <1>2, <1>3, <1>4
<1>8. ASSUME NEW i \in 1 .. n, i \in keep
      PROVE  \E j \in 1 .. m + 1 : to[j] = i
  <2>1. CASE i = n
    BY <1>1, <1>4, <2>1
  <2>2. CASE i # n
    <3>1. i \in 1 .. n - 1
      BY <1>1, <2>2
    <3>2. PICK j \in 1 .. m : at[j] = i
      BY <1>2, <1>8, <3>1
    <3> QED BY <1>4, <3>2
  <2> QED BY <2>1, <2>2
<1>9. Places(to, l, s, keep, n)
  BY <1>1, <1>5, <1>6, <1>7, <1>8 DEF Places
<1> QED BY <1>9 DEF to, l, m

(* Filtered returns the elements at the places to keep, all of them, each   *)
(* once and in their order.                                                 *)
LEMMA FilteredPlaces ==
  ASSUME NEW A, NEW s \in Seq(A), NEW keep
  PROVE  /\ Filtered(s, keep) \in Seq(A)
         /\ \E at : Places(at, Filtered(s, keep), s, keep, Len(s))
<1> DEFINE N == Len(s)
           F == FilteredUpTo(s, keep)
           P == {n \in 0 .. N : F[n] \in Seq(A) /\ \E at : Places(at, F[n], s, keep, n)}
<1>1. N \in Nat
  OBVIOUS
<1>2. F[0] = <<>> /\ \A n \in 1 .. N :
        F[n] = IF n \in keep THEN Append(F[n - 1], s[n]) ELSE F[n - 1]
  BY FilterStep
<1>3. 0 \in P
  <2>1. F[0] \in Seq(A) /\ Len(F[0]) = 0
    BY <1>2
  <2> DEFINE at == [i \in 1 .. 0 |-> 0]
  <2>2. Places(at, F[0], s, keep, 0)
    <3>1. 1 .. 0 = {}
      OBVIOUS
    <3>2. at \in [{} -> {i \in {} : i \in keep}]
      BY <3>1
    <3> HIDE DEF at
    <3> QED BY <2>1, <3>1, <3>2 DEF Places
  <2> QED BY <1>1, <2>1, <2>2
<1>4. ASSUME NEW n \in 1 .. N, n - 1 \in P
      PROVE  n \in P
  <2>1. F[n - 1] \in Seq(A) /\ s[n] \in A /\ n \in 0 .. N
    BY <1>1, <1>4
  <2>2. PICK at : Places(at, F[n - 1], s, keep, n - 1)
    BY <1>4
  <2>3. CASE n \in keep
    <3>1. F[n] = Append(F[n - 1], s[n])
      BY <1>2, <2>3
    <3>2. F[n] \in Seq(A)
      BY <2>1, <3>1
    <3>3. \E to : Places(to, Append(F[n - 1], s[n]), s, keep, n)
      <4> HIDE DEF F
      <4> QED BY <2>1, <2>2, <2>3, FilterPlacesStep
    <3> HIDE DEF F
    <3> QED BY <2>1, <3>1, <3>2, <3>3
  <2>4. CASE n \notin keep
    <3>1. F[n] = F[n - 1]
      BY <1>2, <2>4
    <3> DEFINE k == F[n - 1]
    <3> HIDE DEF k
    <3>2. {i \in 1 .. n - 1 : i \in keep} = {i \in 1 .. n : i \in keep}
      <4>1. \A i \in 1 .. n : i = n \/ i \in 1 .. n - 1
        OBVIOUS
      <4>2. \A i \in 1 .. n - 1 : i \in 1 .. n
        OBVIOUS
      <4> QED BY <2>4, <4>1, <4>2
    <3>3. \A i \in 1 .. n : i \in keep => i \in 1 .. n - 1
      BY <2>4
    <3>4. Places(at, k, s, keep, n - 1)
      BY <2>2 DEF k
    <3>5. Places(at, k, s, keep, n)
      BY <3>2, <3>3, <3>4 DEF Places
    <3>6. Places(at, F[n], s, keep, n) /\ F[n] \in Seq(A)
      BY <2>1, <3>1, <3>5 DEF k
    <3> QED BY <2>1, <3>6
  <2> QED BY <2>3, <2>4
<1> HIDE DEF P
<1>5. \A n \in 1 .. N : n - 1 \in P => n \in P
  BY <1>4
<1>6. \A n \in 0 .. N : n \in P
  BY <1>1, <1>3, <1>5, PrefixInduction
<1>7. N \in P
  BY <1>1, <1>6
<1> QED BY <1>7 DEF P, Filtered

(* What every use of Filtered needs of it.                                  *)
LEMMA FilteredElements ==
  ASSUME NEW A, NEW s \in Seq(A), NEW keep
  PROVE  /\ Filtered(s, keep) \in Seq(A)
         /\ \A j \in 1 .. Len(Filtered(s, keep)) :
              \E i \in 1 .. Len(s) : i \in keep /\ Filtered(s, keep)[j] = s[i]
         /\ \A i \in 1 .. Len(s) : i \in keep =>
              \E j \in 1 .. Len(Filtered(s, keep)) : Filtered(s, keep)[j] = s[i]
<1>1. PICK at : Places(at, Filtered(s, keep), s, keep, Len(s))
  BY FilteredPlaces
<1> DEFINE k == Filtered(s, keep)
<1> HIDE DEF k
<1>2. Places(at, k, s, keep, Len(s))
  BY <1>1 DEF k
<1>3. ASSUME NEW j \in 1 .. Len(k)
      PROVE  \E i \in 1 .. Len(s) : i \in keep /\ k[j] = s[i]
  <2>1. at[j] \in {i \in 1 .. Len(s) : i \in keep} /\ k[j] = s[at[j]]
    BY <1>2 DEF Places
  <2> QED BY <2>1
<1>4. ASSUME NEW i \in 1 .. Len(s), i \in keep
      PROVE  \E j \in 1 .. Len(k) : k[j] = s[i]
  <2>1. PICK j \in 1 .. Len(k) : at[j] = i
    BY <1>2, <1>4 DEF Places
  <2>2. k[j] = s[at[j]]
    BY <1>2 DEF Places
  <2> QED BY <2>1, <2>2
<1>5. k \in Seq(A)
  BY FilteredPlaces DEF k
<1> QED BY <1>3, <1>4, <1>5 DEF k

LEMMA FilteredFrom ==
  ASSUME NEW A, NEW s \in Seq(A), NEW keep
  PROVE  \A j \in 1 .. Len(Filtered(s, keep)) :
           \E i \in 1 .. Len(s) : i \in keep /\ Filtered(s, keep)[j] = s[i]
<1> DEFINE k == Filtered(s, keep)
<1>1. \A j \in 1 .. Len(k) : \E i \in 1 .. Len(s) : i \in keep /\ k[j] = s[i]
  BY FilteredElements
<1> QED BY <1>1

LEMMA FilteredHas ==
  ASSUME NEW A, NEW s \in Seq(A), NEW keep
  PROVE  \A i \in 1 .. Len(s) : i \in keep =>
           \E j \in 1 .. Len(Filtered(s, keep)) : Filtered(s, keep)[j] = s[i]
<1> DEFINE k == Filtered(s, keep)
<1>1. \A i \in 1 .. Len(s) : i \in keep => \E j \in 1 .. Len(k) : k[j] = s[i]
  BY FilteredElements
<1> QED BY <1>1

(* A filter keeps a sequence without repetitions, by whatever measure the   *)
(* elements differ, free of them, and a sorted one sorted.                  *)
LEMMA FilteredOrder ==
  ASSUME NEW A, NEW s \in Seq(A), NEW keep, NEW related,
         \A i, j \in 1 .. Len(s) : i < j => <<s[i], s[j]>> \in related
  PROVE  \A i, j \in 1 .. Len(Filtered(s, keep)) :
           i < j => <<Filtered(s, keep)[i], Filtered(s, keep)[j]>> \in related
<1>1. PICK at : Places(at, Filtered(s, keep), s, keep, Len(s))
  BY FilteredPlaces
<1> DEFINE k == Filtered(s, keep)
<1> HIDE DEF k
<1>2. Places(at, k, s, keep, Len(s))
  BY <1>1 DEF k
<1>3. ASSUME NEW i \in 1 .. Len(k), NEW j \in 1 .. Len(k), i < j
      PROVE  <<k[i], k[j]>> \in related
  <2>1. /\ at[i] \in 1 .. Len(s) /\ k[i] = s[at[i]]
        /\ at[j] \in 1 .. Len(s) /\ k[j] = s[at[j]]
        /\ at[i] < at[j]
    BY <1>2, <1>3 DEF Places
  <2> QED BY <2>1
<1> QED BY <1>3 DEF k

(* A filter does not lengthen. *)
LEMMA FilteredLength ==
  ASSUME NEW A, NEW s \in Seq(A), NEW keep
  PROVE  Len(Filtered(s, keep)) <= Len(s)
<1> DEFINE N == Len(s)
           F == FilteredUpTo(s, keep)
           Good(n) == F[n] \in Seq(A) /\ Len(F[n]) <= n
           P == {n \in 0 .. N : Good(n)}
<1>1. N \in Nat /\ \A n \in 1 .. N : s[n] \in A
  OBVIOUS
<1>2. F[0] = <<>> /\ \A n \in 1 .. N :
        F[n] = IF n \in keep THEN Append(F[n - 1], s[n]) ELSE F[n - 1]
  BY FilterStep
<1> HIDE DEF F
<1>3. Good(0)
  BY <1>2
<1>4. ASSUME NEW n \in 1 .. N, Good(n - 1)
      PROVE  Good(n)
  <2> DEFINE k == F[n - 1]
             l == F[n]
  <2>1. k \in Seq(A) /\ Len(k) \in Nat /\ Len(k) <= n - 1 /\ s[n] \in A
    BY <1>1, <1>4
  <2>2. l = k \/ l = Append(k, s[n])
    BY <1>2
  <2> HIDE DEF k, l
  <2>3. Append(k, s[n]) \in Seq(A) /\ Len(Append(k, s[n])) = Len(k) + 1
    BY <2>1
  <2>4. ASSUME l = k
        PROVE  l \in Seq(A) /\ Len(l) <= n
    BY <1>1, <2>1, <2>4
  <2>5. ASSUME l = Append(k, s[n])
        PROVE  l \in Seq(A) /\ Len(l) <= n
    <3>1. Len(k) + 1 <= n
      BY <1>1, <2>1
    <3> QED BY <2>3, <2>5, <3>1
  <2> QED BY <2>2, <2>4, <2>5 DEF l
<1> HIDE DEF Good
<1>5. 0 \in P /\ \A n \in 1 .. N : n - 1 \in P => n \in P
  BY <1>1, <1>3, <1>4
<1>6. Good(N)
  <2> HIDE DEF P
  <2>1. \A n \in 0 .. N : n \in P
    BY <1>1, <1>5, PrefixInduction
  <2>2. N \in P
    BY <1>1, <2>1
  <2> QED BY <2>2 DEF P
<1> QED BY <1>6 DEF Good, F, Filtered
=============================================================================
