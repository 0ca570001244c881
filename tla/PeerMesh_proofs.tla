----------------------------- MODULE PeerMesh_proofs -----------------------------
(***************************************************************************)
(* What the mesh of keepers guarantees for every fleet, every interval,    *)
(* every timeout, and any number of crashes.                               *)
(***************************************************************************)
EXTENDS PeerMesh, SequenceTheorems, WellFoundedInduction, TLAPS

-----------------------------------------------------------------------------
(* Least and greatest elements.                                             *)

LEMMA MinOfTwo ==
  ASSUME NEW a \in Int, NEW b \in Int
  PROVE  Min({a, b}) = IF a <= b THEN a ELSE b
BY DEF Min

LEMMA LeastElement ==
  ASSUME NEW S \in SUBSET Nat, S # {}
  PROVE  Min(S) \in S /\ \A y \in S : Min(S) <= y
<1>1. PICK x \in S : \A y \in S : ~(<<y, x>> \in OpToRel(<, Nat))
  BY NatLessThanWellFounded, WFMin
<1>2. ASSUME NEW y \in S
      PROVE  x <= y
  <2>1. <<y, x>> \in Nat \X Nat /\ ~(<<y, x>>[1] < <<y, x>>[2])
    BY <1>1 DEF OpToRel
  <2> QED BY <2>1
<1> QED BY <1>2 DEF Min

LEMMA GreatestElement ==
  ASSUME NEW n \in Nat, NEW S \in SUBSET (0 .. n), S # {}
  PROVE  Max(S) \in S /\ \A y \in S : y <= Max(S)
<1> DEFINE T == {n - x : x \in S}
<1>1. T \in SUBSET Nat /\ T # {}
  <2>1. ASSUME NEW x \in S PROVE n - x \in Nat
    OBVIOUS
  <2> QED BY <2>1
<1>2. PICK x \in S : Min(T) = n - x
  BY <1>1, LeastElement
<1>3. ASSUME NEW y \in S
      PROVE  x >= y
  <2>1. n - x <= n - y
    BY <1>1, <1>2, LeastElement
  <2> QED BY <2>1
<1> QED BY <1>3 DEF Max

(* A time grows until its cap. *)
LEMMA OlderType ==
  ASSUME NEW cap \in Nat, NEW age \in Age(cap) \cup {None}
  PROVE  /\ Older(age, cap) \in Age(cap) \cup {None}
         /\ Older(age, cap) = None <=> age = None
         /\ age # None => Older(age, cap) = IF age < cap THEN age + 1 ELSE cap
<1>1. CASE age = None
  BY <1>1 DEF Older
<1>2. CASE age # None
  <2>1. age \in 0 .. cap /\ Older(age, cap) = Min({age + 1, cap})
    BY <1>2 DEF Older, Age
  <2>2. Older(age, cap) = IF age + 1 <= cap THEN age + 1 ELSE cap
    BY <2>1, MinOfTwo
  <2>3. Older(age, cap) \in 0 .. cap
    BY <2>1, <2>2
  <2>4. None \notin 0 .. cap
    BY MeshAssumption
  <2> QED BY <1>2, <2>1, <2>2, <2>3, <2>4 DEF Age
<1> QED BY <1>1, <1>2

-----------------------------------------------------------------------------
(* The startup sleep ends within the interval. *)
LEMMA GapRange ==
  ASSUME NEW taken \in SUBSET Position, NEW q \in taken
  PROVE  /\ Gap(taken, q) \in 1 .. UpdateInterval
         /\ (q + Gap(taken, q)) % UpdateInterval \in taken
         /\ \A d \in 1 .. UpdateInterval :
              (q + d) % UpdateInterval \in taken => Gap(taken, q) <= d
<1> DEFINE G == {d \in 1 .. UpdateInterval : (q + d) % UpdateInterval \in taken}
<1>1. UpdateInterval \in Nat /\ UpdateInterval > 0 /\ q \in Nat /\ q < UpdateInterval
  BY MeshAssumption DEF Position
<1>2. (q + UpdateInterval) % UpdateInterval = q
  BY <1>1
<1>3. UpdateInterval \in G
  BY <1>1, <1>2
<1>4. G \in SUBSET Nat
  BY <1>1
<1>5. Min(G) \in G /\ \A d \in G : Min(G) <= d
  BY <1>3, <1>4, LeastElement
<1>6. Gap(taken, q) = Min(G)
  BY DEF Gap
<1> QED BY <1>5, <1>6

(* What Target computes: the middle of a gap that no other is larger than. *)
LEMMA LargestGap ==
  ASSUME NEW taken \in SUBSET Position, taken # {}
  PROVE  \E start \in taken :
           /\ \A q \in taken : Gap(taken, q) <= Gap(taken, start)
           /\ Target(taken) = (start + Gap(taken, start) \div 2) % UpdateInterval
<1> DEFINE gaps    == {Gap(taken, q) : q \in taken}
           largest == Max(gaps)
           starts  == {q \in taken : Gap(taken, q) = largest}
<1>1. UpdateInterval \in Nat /\ UpdateInterval > 0
  BY MeshAssumption
<1>2. gaps \in SUBSET (0 .. UpdateInterval) /\ gaps # {}
  BY GapRange, <1>1
<1>3. largest \in gaps /\ \A g \in gaps : g <= largest
  BY <1>1, <1>2, GreatestElement
<1>4. \A q \in taken : Gap(taken, q) <= largest
  BY <1>3
<1>5. starts \in SUBSET Nat /\ starts # {}
  <2>1. PICK q \in taken : largest = Gap(taken, q)
    BY <1>3
  <2>2. q \in starts
    BY <2>1
  <2>3. \A p \in taken : p \in Nat
    BY <1>1 DEF Position
  <2> QED BY <2>2, <2>3
<1>6. Min(starts) \in starts
  BY <1>5, LeastElement
<1>7. Min(starts) \in taken /\ Gap(taken, Min(starts)) = largest
  BY <1>6
<1>8. Target(taken) = (Min(starts) + largest \div 2) % UpdateInterval
  BY DEF Target
<1> HIDE DEF largest, starts
<1> QED BY <1>4, <1>7, <1>8

LEMMA TargetRange ==
  ASSUME NEW taken \in SUBSET Position, taken # {}
  PROVE  Target(taken) \in Position
<1>1. UpdateInterval \in Nat /\ UpdateInterval > 0
  BY MeshAssumption
<1>2. PICK start \in taken : Target(taken) = (start + Gap(taken, start) \div 2) % UpdateInterval
  BY LargestGap
<1>3. Gap(taken, start) \in Nat
  BY <1>1, GapRange
<1>4. start + Gap(taken, start) \div 2 \in Nat
  BY <1>1, <1>3 DEF Position
<1> QED BY <1>1, <1>2, <1>4 DEF Position

LEMMA SleepRange ==
  ASSUME NEW now \in Position, NEW reported \in SUBSET Position,
         NEW oracle \in SUBSET Position
  PROVE  StartupSleep(now, reported, oracle) \in 0 .. UpdateInterval - 1
<1>1. UpdateInterval \in Nat /\ UpdateInterval > 0
  BY MeshAssumption
<1>2. CASE reported = {}
  BY <1>1, <1>2 DEF StartupSleep
<1>3. CASE reported # {}
  <2> DEFINE target == Target(reported \cup oracle)
  <2>1. target \in Position
    BY <1>3, TargetRange
  <2>2. StartupSleep(now, reported, oracle)
          = IF target >= now THEN target - now ELSE UpdateInterval - now + target
    BY <1>3 DEF StartupSleep
  <2> HIDE DEF target
  <2> QED BY <1>1, <2>1, <2>2 DEF Position
<1> QED BY <1>2, <1>3

-----------------------------------------------------------------------------
(* The startup position is as far from the others as one can be.            *)

(* Around the circle once at most. *)
LEMMA OnceAround ==
  ASSUME NEW N \in Nat \ {0}, NEW x \in Int, -N <= x, x < 2 * N
  PROVE  x % N = IF x < 0 THEN x + N ELSE IF x < N THEN x ELSE x - N
OBVIOUS

LEMMA Backwards ==
  ASSUME NEW N \in Nat \ {0}, NEW x \in 0 .. N - 1, NEW y \in 0 .. N - 1
  PROVE  (x - y) % N = IF x >= y THEN x - y ELSE x - y + N
<1>1. x - y \in Int /\ -N <= x - y /\ x - y < N
  OBVIOUS
<1> DEFINE d == x - y
<1>2. d \in Int /\ -N <= d /\ d < N /\ d < 2 * N
  BY <1>1
<1>3. d < 0 <=> ~(x >= y)
  OBVIOUS
<1> HIDE DEF d
<1>4. d % N = IF d < 0 THEN d + N ELSE d
  BY <1>2, OnceAround
<1>5. d % N = IF x >= y THEN d ELSE d + N
  BY <1>3, <1>4
<1> QED BY <1>5 DEF d

LEMMA Forwards ==
  ASSUME NEW N \in Nat \ {0}, NEW x \in 0 .. N - 1, NEW y \in 0 .. N
  PROVE  (x + y) % N = IF x + y < N THEN x + y ELSE x + y - N
<1> DEFINE d == x + y
<1>1. d \in Int /\ 0 <= d /\ -N <= d /\ d < 2 * N
  OBVIOUS
<1> HIDE DEF d
<1>2. d % N = IF d < 0 THEN d + N ELSE IF d < N THEN d ELSE d - N
  BY <1>1, OnceAround
<1>3. d % N = IF d < N THEN d ELSE d - N
  BY <1>1, <1>2
<1> QED BY <1>3 DEF d

LEMMA DistanceIs ==
  ASSUME NEW a \in Position, NEW b \in Position
  PROVE  /\ Distance(a, b) \in Nat
         /\ Distance(a, b) <= (a - b) % UpdateInterval
         /\ Distance(a, b) <= (b - a) % UpdateInterval
         /\ Distance(a, b) \in {(a - b) % UpdateInterval, (b - a) % UpdateInterval}
<1>1. UpdateInterval \in Nat \ {0} /\ a \in Int /\ b \in Int
  BY MeshAssumption DEF Position
<1> DEFINE x == (a - b) % UpdateInterval
           y == (b - a) % UpdateInterval
<1>2. x \in Nat /\ y \in Nat
  BY <1>1
<1>3. Distance(a, b) = Min({x, y})
  BY DEF Distance
<1> HIDE DEF x, y
<1>4. Distance(a, b) = IF x <= y THEN x ELSE y
  BY <1>2, <1>3, MinOfTwo
<1>5. /\ Distance(a, b) \in Nat /\ Distance(a, b) <= x /\ Distance(a, b) <= y
      /\ Distance(a, b) \in {x, y}
  BY <1>2, <1>4
<1> QED BY <1>5 DEF x, y

LEMMA ClearanceIs ==
  ASSUME NEW taken \in SUBSET Position, taken # {}, NEW a \in Position
  PROVE  /\ \A b \in taken : Clearance(a, taken) <= Distance(a, b)
         /\ \E b \in taken : Clearance(a, taken) = Distance(a, b)
<1> DEFINE S == {Distance(a, b) : b \in taken}
<1>1. S \in SUBSET Nat /\ S # {}
  BY DistanceIs
<1>2. Min(S) \in S /\ \A d \in S : Min(S) <= d
  BY <1>1, LeastElement
<1> QED BY <1>2 DEF Clearance

(* The middle of a gap is half the gap away from everything taken.          *)
LEMMA MiddleIsClear ==
  ASSUME NEW taken \in SUBSET Position, NEW start \in taken, NEW b \in taken,
         NEW middle, middle = (start + Gap(taken, start) \div 2) % UpdateInterval
  PROVE  Gap(taken, start) \div 2 <= Distance(middle, b)
<1> DEFINE N == UpdateInterval
           L == Gap(taken, start)
           g == L \div 2
           e == (b - start) % N
<1>1. N \in Nat \ {0} /\ start \in 0 .. N - 1 /\ b \in 0 .. N - 1
  BY MeshAssumption DEF Position
<1>2. /\ L \in 1 .. N
      /\ \A d \in 1 .. N : (start + d) % N \in taken => L <= d
  BY GapRange
<1> HIDE DEF L
<1>3. g \in Nat /\ 2 * g <= L /\ L <= 2 * g + 1
  BY <1>1, <1>2
<1> HIDE DEF g, N
<1>4. e = IF b >= start THEN b - start ELSE b - start + N
  BY <1>1, Backwards
<1>5. e \in 0 .. N - 1
  BY <1>1, <1>4
<1> HIDE DEF e
<1>6. (start + e) % N = b
  <2>1. (start + e) % N = IF start + e < N THEN start + e ELSE start + e - N
    <3>1. e \in 0 .. N
      BY <1>1, <1>5
    <3> QED BY <1>1, <3>1, Forwards
  <2> QED BY <1>1, <1>4, <2>1
<1>7. e = 0 \/ e >= L
  BY <1>1, <1>2, <1>5, <1>6
<1>8. middle = IF start + g < N THEN start + g ELSE start + g - N
  <2>1. middle = (start + g) % N
    BY DEF g, L, N
  <2>2. g \in 0 .. N
    BY <1>1, <1>2, <1>3
  <2> QED BY <1>1, <2>1, <2>2, Forwards
<1>9. middle \in 0 .. N - 1
  BY <1>1, <1>2, <1>3, <1>8
<1>10. g <= (middle - b) % N
  <2>1. (middle - b) % N = IF middle >= b THEN middle - b ELSE middle - b + N
    BY <1>1, <1>9, Backwards
  <2> QED BY <1>1, <1>2, <1>3, <1>4, <1>7, <1>8, <2>1
<1>11. g <= (b - middle) % N
  <2>1. (b - middle) % N = IF b >= middle THEN b - middle ELSE b - middle + N
    BY <1>1, <1>9, Backwards
  <2> QED BY <1>1, <1>2, <1>3, <1>4, <1>7, <1>8, <2>1
<1>12. middle \in Position /\ b \in Position
  BY <1>1, <1>9 DEF Position, N
<1>13. Distance(middle, b) \in {(middle - b) % N, (b - middle) % N}
  BY <1>12, DistanceIs DEF N
<1> QED BY <1>10, <1>11, <1>13 DEF g, L

(* Every position is in a gap, and within half of it from one of its ends.  *)
LEMMA NobodyIsClearer ==
  ASSUME NEW taken \in SUBSET Position, taken # {}, NEW a \in Position
  PROVE  \E q, b \in taken : Distance(a, b) <= Gap(taken, q) \div 2
<1> DEFINE N == UpdateInterval
           S == {(a - b) % N : b \in taken}
<1>1. N \in Nat \ {0} /\ a \in 0 .. N - 1 /\ \A b \in taken : b \in 0 .. N - 1
  BY MeshAssumption DEF Position
<1>2. S \in SUBSET Nat /\ S # {}
  <2>1. ASSUME NEW b \in taken PROVE (a - b) % N \in Nat
    <3>1. b \in 0 .. N - 1
      BY <1>1
    <3> QED BY <1>1, <3>1
  <2> QED BY <2>1
<1>3. Min(S) \in S /\ \A e \in S : Min(S) <= e
  BY <1>2, LeastElement
<1>4. PICK q \in taken : Min(S) = (a - q) % N
  BY <1>3
<1> DEFINE e == (a - q) % N
           L == Gap(taken, q)
           r == (q + L) % N
<1>5. \A b \in taken : e <= (a - b) % N
  BY <1>3, <1>4
<1>6. L \in 1 .. N /\ r \in taken
  BY GapRange
<1>11. e <= (a - r) % N
  BY <1>5, <1>6
<1>61. q \in 0 .. N - 1 /\ r \in 0 .. N - 1 /\ L \in 0 .. N
  BY <1>1, <1>6
<1> HIDE DEF S, N, L
<1>7. e = IF a >= q THEN a - q ELSE a - q + N
  BY <1>1, <1>61, Backwards
<1>8. r = IF q + L < N THEN q + L ELSE q + L - N
  BY <1>1, <1>61, Forwards
<1> HIDE DEF e, r
<1>9. (a - r) % N = IF a >= r THEN a - r ELSE a - r + N
  BY <1>1, <1>61, Backwards
<1>10. (r - a) % N = IF r >= a THEN r - a ELSE r - a + N
  BY <1>1, <1>61, Backwards
<1>12. e < L
  BY <1>1, <1>6, <1>61, <1>7, <1>8, <1>9, <1>11
<1>13. (r - a) % N <= L - e
  BY <1>1, <1>6, <1>61, <1>7, <1>8, <1>10, <1>12
<1>14. /\ Distance(a, q) \in Nat /\ Distance(a, q) <= e
       /\ Distance(a, r) \in Nat /\ Distance(a, r) <= (r - a) % N
  BY <1>6, DistanceIs DEF e, N
<1>15. Distance(a, q) <= L \div 2 \/ Distance(a, r) <= L \div 2
  <2> DEFINE g == L \div 2
  <2>1. g \in Nat /\ 2 * g <= L /\ L <= 2 * g + 1
    BY <1>1, <1>6
  <2>2. e \in Nat /\ (r - a) % N \in Int
    BY <1>1, <1>6, <1>7, <1>10
  <2> HIDE DEF g
  <2>3. Distance(a, q) <= g \/ Distance(a, r) <= g
    BY <1>1, <1>6, <1>13, <1>14, <2>1, <2>2
  <2> QED BY <2>3 DEF g
<1> QED BY <1>6, <1>15 DEF L

LEMMA TargetIsFarthest ==
  ASSUME NEW taken \in SUBSET Position, taken # {}, NEW a \in Position
  PROVE  Clearance(a, taken) <= Clearance(Target(taken), taken)
<1> DEFINE t == Target(taken)
<1>1. PICK start \in taken :
        /\ \A q \in taken : Gap(taken, q) <= Gap(taken, start)
        /\ t = (start + Gap(taken, start) \div 2) % UpdateInterval
  BY LargestGap
<1>2. t \in Position
  BY TargetRange
<1> HIDE DEF t
<1>3. PICK q \in taken, b \in taken : Distance(a, b) <= Gap(taken, q) \div 2
  BY NobodyIsClearer
<1>4. Gap(taken, q) \in Nat /\ Gap(taken, start) \in Nat /\ UpdateInterval \in Nat
  BY GapRange, MeshAssumption
<1>5. Gap(taken, q) \div 2 <= Gap(taken, start) \div 2
  BY <1>1, <1>4
<1>6. PICK c \in taken : Clearance(t, taken) = Distance(t, c)
  BY <1>2, ClearanceIs
<1>7. Gap(taken, start) \div 2 <= Distance(t, c)
  BY <1>1, MiddleIsClear
<1>8. Clearance(a, taken) <= Distance(a, b)
  BY ClearanceIs
<1>9. /\ Distance(a, b) \in Nat /\ Distance(t, c) \in Nat
      /\ Clearance(a, taken) \in Int
  <2>1. Distance(a, b) \in Nat /\ Distance(t, c) \in Nat
    BY <1>2, DistanceIs
  <2>2. PICK d \in taken : Clearance(a, taken) = Distance(a, d)
    BY ClearanceIs
  <2> QED BY <2>1, <2>2, DistanceIs
<1>10. Clearance(a, taken) <= Distance(t, c)
  BY <1>3, <1>4, <1>5, <1>7, <1>8, <1>9
<1> QED BY <1>6, <1>10 DEF t

(* When the startup sleep is over it is the target's time. *)
LEMMA WakesAtTarget ==
  ASSUME NEW now \in Position, NEW reported \in SUBSET Position,
         NEW oracle \in SUBSET Position, reported # {}
  PROVE  (now + StartupSleep(now, reported, oracle)) % UpdateInterval
           = Target(reported \cup oracle)
<1> DEFINE target == Target(reported \cup oracle)
           N == UpdateInterval
<1>1. N \in Nat \ {0} /\ now \in 0 .. N - 1
  BY MeshAssumption DEF Position
<1>2. target \in 0 .. N - 1
  BY TargetRange DEF Position
<1>3. StartupSleep(now, reported, oracle) = IF target >= now THEN target - now ELSE N - now + target
  BY DEF StartupSleep
<1> HIDE DEF target, N
<1>4. (now + StartupSleep(now, reported, oracle)) % N = target
  <2>1. now + StartupSleep(now, reported, oracle) = IF target >= now THEN target ELSE target + N
    BY <1>1, <1>2, <1>3
  <2> QED BY <1>1, <1>2, <2>1, OnceAround
<1> QED BY <1>4 DEF target, N

-----------------------------------------------------------------------------
(* Types.                                                                   *)

(* What the members of a fleet are, and that a step leaves them. *)
LEMMA FleetFacts ==
  ASSUME TypeOK
  PROVE  /\ fleet.peers \in [Members -> Seq(Members)]
         /\ fleet.crashes \in Nat
         /\ fleet.timed \in BOOLEAN
<1>1. PICK f \in Fleets : fleet \in {[f EXCEPT !.crashes = n] : n \in 0 .. f.crashes}
  BY DEF TypeOK
<1>2. PICK n \in 0 .. f.crashes : fleet = [f EXCEPT !.crashes = n]
  BY <1>1
<1>3. IsFleet(f)
  BY MeshAssumption
<1>4. /\ fleet.peers = f.peers /\ fleet.crashes = n /\ f.crashes \in Nat
  BY <1>2, <1>3 DEF IsFleet
<1>5. fleet.timed = f.timed /\ f.timed \in BOOLEAN
  BY <1>2, <1>3 DEF IsFleet
<1>6. f.peers \in [DOMAIN f.peers -> Seq(DOMAIN f.peers)]
  BY <1>3 DEF IsFleet
<1> QED BY <1>4, <1>5, <1>6 DEF Members

FleetOK == \E f \in Fleets : fleet \in {[f EXCEPT !.crashes = n] : n \in 0 .. f.crashes}

LEMMA SameFleet ==
  ASSUME TypeOK, [Next]_vars
  PROVE  FleetOK' /\ Members' = Members /\ UNCHANGED <<fleet.peers, fleet.weak, fleet.timed>>
<1>1. CASE UNCHANGED fleet
  BY <1>1 DEF TypeOK, FleetOK, Members
<1>2. CASE fleet.crashes > 0 /\ fleet' = [fleet EXCEPT !.crashes = @ - 1]
  <2>1. PICK f \in Fleets : fleet \in {[f EXCEPT !.crashes = n] : n \in 0 .. f.crashes}
    BY DEF TypeOK
  <2>2. PICK n \in 0 .. f.crashes : fleet = [f EXCEPT !.crashes = n]
    BY <2>1
  <2>3. IsFleet(f)
    BY MeshAssumption
  <2>4. fleet.crashes = n /\ f.crashes \in Nat
    BY <2>2, <2>3 DEF IsFleet
  <2>5. n - 1 \in 0 .. f.crashes
    BY <1>2, <2>4
  <2>6. fleet' = [f EXCEPT !.crashes = n - 1]
    BY <1>2, <2>2, <2>3, <2>4 DEF IsFleet
  <2>7. FleetOK'
    BY <2>5, <2>6 DEF FleetOK
  <2>8. UNCHANGED <<fleet.peers, fleet.weak>>
    BY <2>2, <2>3, <2>6 DEF IsFleet
  <2>9. UNCHANGED fleet.timed
    BY <2>2, <2>3, <2>6 DEF IsFleet
  <2> QED BY <2>7, <2>8, <2>9 DEF Members
<1> QED
  BY <1>1, <1>2
  DEF Next, vars, Keep, Start, Register, FallAsleep, Run, Notify, Join, SyncBegin,
      SyncPoll, SyncEnd, CycleOnTime, CycleEarly, Crash, Tick

(* One entry of one registry changes. *)
LEMMA RegistryEntry ==
  ASSUME NEW r \in [Members -> [Members -> PeerInfo \cup {None}]],
         NEW k \in Members, NEW p \in Members, NEW info \in PeerInfo \cup {None}
  PROVE  [r EXCEPT ![k][p] = info] \in [Members -> [Members -> PeerInfo \cup {None}]]
OBVIOUS

LEMMA EntryTypes ==
  /\ Fresh \in PeerInfo
  /\ \A info \in PeerInfo \cup {None} : Upserted(info) \in PeerInfo
  /\ \A info \in PeerInfo, lastCycle \in Age(UpdateInterval) \cup {None} :
       Polled(info, lastCycle) \in PeerInfo
<1>1. 0 \in Age(SixHours + 1)
  BY MeshAssumption DEF Age
<1>2. Fresh \in PeerInfo
  BY <1>1 DEF Fresh, PeerInfo
<1>3. ASSUME NEW info \in PeerInfo
      PROVE  [info EXCEPT !.seen = 0] \in PeerInfo
  BY <1>1 DEF PeerInfo
<1>4. ASSUME NEW info \in PeerInfo, NEW lastCycle \in Age(UpdateInterval) \cup {None}
      PROVE  Polled(info, lastCycle) \in PeerInfo
  <2>1. Age(UpdateInterval) \subseteq Age(FailoverAfter + 2)
    BY MeshAssumption DEF Age
  <2> QED BY <1>1, <2>1 DEF Polled, PeerInfo
<1> QED BY <1>2, <1>3, <1>4 DEF Upserted

(* What is left of a keeper's list after its head is a suffix of it too. *)
LEMMA SuffixTail ==
  ASSUME NEW S, NEW s \in Seq(S), NEW i \in 1 .. Len(s) + 1,
         SubSeq(s, i, Len(s)) # <<>>
  PROVE  /\ Tail(SubSeq(s, i, Len(s))) = SubSeq(s, i + 1, Len(s))
         /\ i + 1 \in 1 .. Len(s) + 1
         /\ Head(SubSeq(s, i, Len(s))) \in S
<1>1. i <= Len(s)
  BY SubSeqProperties
<1>2. /\ SubSeq(s, i, Len(s)) \in Seq(S)
      /\ Len(SubSeq(s, i, Len(s))) = Len(s) - i + 1
      /\ \A j \in 1 .. Len(s) - i + 1 : SubSeq(s, i, Len(s))[j] = s[i + j - 1]
  BY <1>1, SubSeqProperties
<1>3. /\ SubSeq(s, i + 1, Len(s)) \in Seq(S)
      /\ Len(SubSeq(s, i + 1, Len(s))) = Len(s) - i
      /\ \A j \in 1 .. Len(s) - i : SubSeq(s, i + 1, Len(s))[j] = s[i + j]
  BY <1>1, SubSeqProperties
<1>4. /\ Tail(SubSeq(s, i, Len(s))) \in Seq(S)
      /\ Len(Tail(SubSeq(s, i, Len(s)))) = Len(s) - i
      /\ \A j \in 1 .. Len(s) - i : Tail(SubSeq(s, i, Len(s)))[j] = s[i + j]
  BY <1>1, <1>2, HeadTailProperties
<1>5. Tail(SubSeq(s, i, Len(s))) = SubSeq(s, i + 1, Len(s))
  BY <1>3, <1>4, SeqEqual
<1> QED BY <1>1, <1>2, <1>5, HeadTailProperties

TodoOK ==
  /\ DOMAIN todo = Members
  /\ \A k \in Members : \E i \in 1 .. Len(fleet.peers[k]) + 1 :
       todo[k] = SubSeq(fleet.peers[k], i, Len(fleet.peers[k]))

Registries == [Members -> [Members -> PeerInfo \cup {None}]]

Notice == [from : Members, to : Members, about : Members]

Joining == [from : Members, to : Members, asked : BOOLEAN]

(* The parts of the type invariant, for a step that leaves the fleet's      *)
(* members what they are.                                                   *)
LEMMA TypeParts ==
  ASSUME TypeOK, [Next]_vars, TodoOK',
         phase' \in [Members -> Phase],
         nap' \in [Members -> 0 .. UpdateInterval - 1],
         registry' \in Registries,
         cycle' \in [Members -> Age(UpdateInterval) \cup {None}],
         permit' \in [Members -> BOOLEAN],
         pass' \in [Members -> Pass],
         notices' \subseteq Notice, joins' \subseteq Joining,
         cut' \subseteq fleet.weak,
         away' \in [Members -> [Members -> Age(SixHours)]]
  PROVE  TypeOK'
<1>1. FleetOK' /\ Members' = Members /\ fleet'.weak = fleet.weak
  BY SameFleet
<1> QED BY <1>1 DEF TypeOK, TodoOK, FleetOK, Registries, Notice, Joining

LEMMA TypeFacts ==
  ASSUME TypeOK
  PROVE  /\ TodoOK
         /\ phase \in [Members -> Phase]
         /\ nap \in [Members -> 0 .. UpdateInterval - 1]
         /\ registry \in Registries
         /\ cycle \in [Members -> Age(UpdateInterval) \cup {None}]
         /\ permit \in [Members -> BOOLEAN]
         /\ pass \in [Members -> Pass]
         /\ notices \subseteq Notice /\ joins \subseteq Joining
         /\ cut \subseteq fleet.weak
         /\ away \in [Members -> [Members -> Age(SixHours)]]
BY DEF TypeOK, TodoOK, Registries, Notice, Joining

LEMMA TodoUnchanged ==
  ASSUME TypeOK, [Next]_vars, UNCHANGED todo
  PROVE  TodoOK'
BY SameFleet, TypeFacts DEF TodoOK

LEMMA AnnouncedType ==
  ASSUME NEW k \in Members, NEW new \in Members
  PROVE  Announced(k, new) \subseteq Notice
BY DEF Announced, Known, Notice

LEMMA ReportedRange ==
  ASSUME TypeOK, NEW k \in Members, NEW now \in Position
  PROVE  Reported(k, now) \in SUBSET Position
<1>1. fleet.peers[k] \in Seq(Members)
  BY FleetFacts
<1>2. ASSUME NEW p \in ToSet(fleet.peers[k]), Status(p) # None
      PROVE  (now - Status(p)) % UpdateInterval \in Position
  <2>1. p \in Members
    BY <1>1, <1>2, ElementOfSeq DEF ToSet
  <2>2. cycle[p] \in Int /\ now \in Int /\ UpdateInterval \in Nat /\ UpdateInterval > 0
    BY <1>2, <2>1, TypeFacts, MeshAssumption DEF Status, Age, Position
  <2> QED BY <2>2 DEF Status, Position
<1> QED BY <1>2 DEF Reported

LEMMA StartType ==
  ASSUME TypeOK, [Next]_vars, NEW k \in Members, Start(k)
  PROVE  TypeOK'
<1>1. TodoOK'
  <2>1. /\ Members' = Members /\ fleet' = fleet /\ todo' = [todo EXCEPT ![k] = fleet.peers[k]]
        /\ fleet.peers[k] \in Seq(Members)
    BY SameFleet, FleetFacts DEF Start
  <2>2. /\ 1 \in 1 .. Len(fleet.peers[k]) + 1
        /\ fleet.peers[k] = SubSeq(fleet.peers[k], 1, Len(fleet.peers[k]))
    <3> DEFINE s == fleet.peers[k]
    <3>1. s \in Seq(Members) /\ Len(s) \in Nat /\ \A i \in 1 .. Len(s) : s[i] \in Members
      BY <2>1, LenProperties, ElementOfSeq
    <3> HIDE DEF s
    <3>2. /\ SubSeq(s, 1, Len(s)) \in Seq(Members)
          /\ Len(SubSeq(s, 1, Len(s))) = Len(s)
          /\ \A i \in 1 .. Len(s) : SubSeq(s, 1, Len(s))[i] = s[i]
      BY <3>1, SubSeqProperties
    <3>3. s = SubSeq(s, 1, Len(s))
      BY <3>1, <3>2, SeqEqual
    <3> QED BY <3>1, <3>3 DEF s
  <2> QED BY <2>1, <2>2, TypeFacts DEF TodoOK
<1>2. nap' \in [Members -> 0 .. UpdateInterval - 1]
  <2>1. PICK now \in Position, around \in Surroundings :
          nap' = [nap EXCEPT ![k] = StartupSleep(now, Reported(k, now) \cup around[1], around[2])]
    BY DEF Start
  <2>2. around[1] \in SUBSET Position /\ around[2] \in SUBSET Position
    BY DEF Surroundings
  <2>3. Reported(k, now) \in SUBSET Position
    BY ReportedRange
  <2>4. StartupSleep(now, Reported(k, now) \cup around[1], around[2])
          \in 0 .. UpdateInterval - 1
    BY <2>2, <2>3, SleepRange
  <2> QED BY <2>1, <2>4, TypeFacts
<1>3. phase' \in [Members -> Phase]
  BY TypeFacts DEF Start, Phase
<1>4. UNCHANGED <<registry, cycle, permit, pass, notices, joins, cut, away>>
  BY DEF Start
<1> QED BY <1>1, <1>2, <1>3, <1>4, TypeFacts, TypeParts

LEMMA RegisterType ==
  ASSUME TypeOK, [Next]_vars, NEW k \in Members, Register(k)
  PROVE  TypeOK'
<1>1. PICK i \in 1 .. Len(fleet.peers[k]) + 1 :
        todo[k] = SubSeq(fleet.peers[k], i, Len(fleet.peers[k]))
  BY TypeFacts DEF TodoOK
<1>2. /\ Tail(todo[k]) = SubSeq(fleet.peers[k], i + 1, Len(fleet.peers[k]))
      /\ i + 1 \in 1 .. Len(fleet.peers[k]) + 1
      /\ Head(todo[k]) \in Members
  <2>1. fleet.peers[k] \in Seq(Members) /\ todo[k] # <<>>
    BY FleetFacts DEF Register
  <2> QED BY <1>1, <2>1, SuffixTail
<1>3. TodoOK'
  <2>1. Members' = Members /\ fleet' = fleet /\ todo' = [todo EXCEPT ![k] = Tail(@)]
    BY SameFleet DEF Register
  <2> QED BY <1>2, <2>1, TypeFacts DEF TodoOK
<1> DEFINE p == Head(todo[k])
<1>4. registry' \in Registries /\ notices' \subseteq Notice /\ joins' \subseteq Joining
  <2>1. \A info \in PeerInfo \cup {None} :
          Registered(info) \in PeerInfo \cup {None} /\ Upserted(info) \in PeerInfo \cup {None}
    BY EntryTypes DEF Registered
  <2>2. CASE \E answered \in {TRUE, Reliable(k, p)} : PeerRegister(p, k, answered)
    <3>1. PICK answered \in {TRUE, Reliable(k, p)} : PeerRegister(p, k, answered)
      BY <2>2
    <3>2. UNCHANGED joins /\ notices' = notices \cup Announced(p, k)
      BY <3>1 DEF PeerRegister
    <3> HIDE DEF p
    <3>3. p \in Members
      BY <1>2 DEF p
    <3>4. PICK a \in PeerInfo \cup {None}, b \in PeerInfo \cup {None} :
            registry' = [registry EXCEPT ![p][k] = a, ![k][p] = b]
      <4> DEFINE x == Registered(registry[p][k])
                 y == IF answered THEN Upserted(registry[k][p]) ELSE registry[k][p]
      <4>1. registry[p][k] \in PeerInfo \cup {None} /\ registry[k][p] \in PeerInfo \cup {None}
        BY <3>3, TypeFacts DEF Registries
      <4>2. x \in PeerInfo \cup {None} /\ y \in PeerInfo \cup {None}
        BY <2>1, <4>1
      <4>3. registry' = [registry EXCEPT ![p][k] = x, ![k][p] = y]
        BY <3>1, Zenon DEF PeerRegister
      <4> HIDE DEF x, y
      <4> QED BY <4>2, <4>3
    <3>5. registry' \in Registries
      BY <3>3, <3>4, TypeFacts DEF Registries
    <3> QED BY <3>2, <3>3, <3>5, TypeFacts, AnnouncedType
  <2>3. CASE PeerVerify(p, k)
    <3>1. registry' \in Registries
      BY <1>2, <2>1, <2>3, TypeFacts DEF PeerVerify, Registries
    <3>2. notices' = notices /\ joins' = joins \cup {[from |-> p, to |-> k, asked |-> TRUE]}
      BY <2>3 DEF PeerVerify
    <3>3. [from |-> p, to |-> k, asked |-> TRUE] \in Joining
      BY <1>2 DEF Joining
    <3> QED BY <3>1, <3>2, <3>3, TypeFacts
  <2>4. CASE UNCHANGED <<registry, notices, joins>>
    BY <2>4, TypeFacts
  <2> QED BY <2>2, <2>3, <2>4 DEF Register
<1>5. UNCHANGED <<phase, nap, cycle, permit, pass, cut, away>>
  BY DEF Register
<1> QED BY <1>3, <1>4, <1>5, TypeFacts, TypeParts

LEMMA TaskTypes ==
  ASSUME TypeOK, [Next]_vars,
         (\E n \in notices : Notify(n)) \/ (\E j \in joins : Join(j))
  PROVE  TypeOK'
<1>1. CASE \E n \in notices : Notify(n)
  <2>1. PICK n \in notices : Notify(n)
    BY <1>1
  <2>2. n \in Notice
    BY <2>1, TypeFacts
  <2>3. [from |-> n.to, to |-> n.about, asked |-> FALSE] \in Joining
    BY <2>2 DEF Notice, Joining
  <2>4. notices' \subseteq Notice /\ joins' \subseteq Joining
    BY <2>1, <2>3, TypeFacts DEF Notify
  <2>5. UNCHANGED <<todo, phase, nap, registry, cycle, permit, pass, cut, away>>
    BY <2>1 DEF Notify
  <2> QED BY <2>4, <2>5, TypeFacts, TypeParts, TodoUnchanged
<1>2. CASE \E j \in joins : Join(j)
  <2>1. PICK j \in joins : Join(j)
    BY <1>2
  <2>2. j.from \in Members /\ j.to \in Members
    BY <2>1, TypeFacts DEF Joining
  <2>3. notices' \subseteq Notice /\ joins' \subseteq Joining
    BY <2>1, <2>2, AnnouncedType, TypeFacts DEF Join
  <2>4. registry' \in Registries
    <3>1. CASE registry' = [registry EXCEPT ![j.to][j.from] = Registered(@)]
      BY <2>2, <3>1, EntryTypes, TypeFacts DEF Registered, Registries
    <3> QED BY <2>1, <3>1, TypeFacts DEF Join
  <2>5. UNCHANGED <<todo, phase, nap, cycle, permit, pass, cut, away>>
    BY <2>1 DEF Join
  <2> QED BY <2>3, <2>4, <2>5, TypeFacts, TypeParts, TodoUnchanged
<1> QED BY <1>1, <1>2

LEMMA KeptType ==
  ASSUME NEW infos \in [Members -> PeerInfo \cup {None}]
  PROVE  Kept(infos) \in [Members -> PeerInfo \cup {None}]
BY DEF Kept

LEMMA SyncType ==
  ASSUME TypeOK, [Next]_vars, NEW k \in Members,
         SyncBegin(k) \/ (\E p \in Members : SyncPoll(k, p)) \/ SyncEnd(k)
  PROVE  TypeOK'
<1>1. Members \subseteq Keeper
  <2>1. PICK f \in Fleets : fleet \in {[f EXCEPT !.crashes = n] : n \in 0 .. f.crashes}
    BY DEF TypeOK
  <2>2. IsFleet(f)
    BY MeshAssumption
  <2>3. fleet.peers = f.peers
    BY <2>1, <2>2 DEF IsFleet
  <2> QED BY <2>2, <2>3 DEF IsFleet, Members
<1>2. pass[k] \in Pass
  BY TypeFacts
<1>3. CASE SyncBegin(k)
  <2>1. [pc |-> "polling", left |-> Known(k)] \in Pass
    BY <1>1 DEF Pass, Known
  <2>2. pass' \in [Members -> Pass]
    BY <1>3, <2>1, TypeFacts DEF SyncBegin
  <2>3. UNCHANGED <<todo, phase, nap, registry, cycle, permit, notices, joins, cut, away>>
    BY <1>3 DEF SyncBegin
  <2> QED BY <2>2, <2>3, TypeFacts, TypeParts, TodoUnchanged
<1>4. ASSUME NEW p \in Members, SyncPoll(k, p)
      PROVE  TypeOK'
  <2>1. pass' \in [Members -> Pass]
    <3>1. [pass[k] EXCEPT !.left = @ \ {p}] \in Pass
      BY <1>2 DEF Pass
    <3>2. pass' = [pass EXCEPT ![k] = [pass[k] EXCEPT !.left = @ \ {p}]]
      BY <1>4, TypeFacts DEF SyncPoll
    <3> QED BY <3>1, <3>2, TypeFacts
  <2>2. registry' \in Registries
    <3>1. ASSUME NEW status \in {Status(p), IF Reliable(k, p) THEN Status(p) ELSE None},
                 registry[k][p] # None,
                 registry' = [registry EXCEPT ![k][p] = Polled(@, status)]
          PROVE  registry' \in Registries
      <4>1. status \in Age(UpdateInterval) \cup {None} /\ registry[k][p] \in PeerInfo
        BY <3>1, TypeFacts DEF Status, Registries
      <4>2. Polled(registry[k][p], status) \in PeerInfo
        BY <4>1, EntryTypes
      <4> QED BY <3>1, <4>2, TypeFacts DEF Registries
    <3> QED BY <1>4, <3>1, TypeFacts DEF SyncPoll
  <2>3. UNCHANGED <<todo, phase, nap, cycle, permit, notices, joins, cut, away>>
    BY <1>4 DEF SyncPoll
  <2> QED BY <2>1, <2>2, <2>3, TypeFacts, TypeParts, TodoUnchanged
<1>5. CASE SyncEnd(k)
  <2>1. pass' \in [Members -> Pass]
    <3>1. [pass[k] EXCEPT !.pc = "done"] \in Pass
      BY <1>2 DEF Pass
    <3>2. pass' = [pass EXCEPT ![k] = [pass[k] EXCEPT !.pc = "done"]]
      BY <1>5, TypeFacts DEF SyncEnd
    <3> QED BY <3>1, <3>2, TypeFacts
  <2>2. registry' \in Registries
    <3>1. Kept(registry[k]) \in [Members -> PeerInfo \cup {None}]
      BY TypeFacts, KeptType DEF Registries
    <3> QED BY <1>5, <3>1, TypeFacts DEF SyncEnd, Registries
  <2>3. permit' \in [Members -> BOOLEAN]
    <3>1. PICK b \in BOOLEAN : permit' = [permit EXCEPT ![k] = b]
      <4> DEFINE x == permit[k] \/ \E p \in Members :
                        Kept(registry[k])[p] # None /\ Overdue(Kept(registry[k])[p])
      <4>1. permit' = [permit EXCEPT ![k] = x]
        BY <1>5, Zenon DEF SyncEnd
      <4>2. x \in BOOLEAN
        BY TypeFacts
      <4> HIDE DEF x
      <4> QED BY <4>1, <4>2
    <3> QED BY <3>1, TypeFacts
  <2>4. UNCHANGED <<todo, phase, nap, cycle, notices, joins, cut, away>>
    BY <1>5 DEF SyncEnd
  <2> QED BY <2>1, <2>2, <2>3, <2>4, TypeFacts, TypeParts, TodoUnchanged
<1> QED BY <1>3, <1>4, <1>5

LEMMA LoopType ==
  ASSUME TypeOK, [Next]_vars, NEW k \in Members,
         FallAsleep(k) \/ Run(k) \/ CycleOnTime(k) \/ CycleEarly(k)
  PROVE  TypeOK'
<1>1. UNCHANGED <<todo, nap, registry, pass, notices, joins, cut, away>>
  BY DEF FallAsleep, Run, CycleOnTime, CycleEarly
<1>2. phase' \in [Members -> Phase] /\ permit' \in [Members -> BOOLEAN]
  BY TypeFacts DEF FallAsleep, Run, CycleOnTime, CycleEarly, Phase
<1>3. cycle' \in [Members -> Age(UpdateInterval) \cup {None}]
  <2>1. 0 \in Age(UpdateInterval)
    BY MeshAssumption DEF Age
  <2> QED BY <2>1, TypeFacts DEF FallAsleep, Run, CycleOnTime, CycleEarly
<1> QED BY <1>1, <1>2, <1>3, TypeFacts, TypeParts, TodoUnchanged

(* Nothing of a list is a suffix of it, too. *)
LEMMA SuffixEmpty ==
  ASSUME NEW S, NEW s \in Seq(S)
  PROVE  Len(s) + 1 \in 1 .. Len(s) + 1 /\ <<>> = SubSeq(s, Len(s) + 1, Len(s))
<1>1. Len(s) \in Nat
  BY LenProperties
<1>2. SubSeq(s, Len(s) + 1, Len(s)) = <<>>
  BY <1>1, SubSeqEmpty
<1> QED BY <1>1, <1>2

LEMMA CrashType ==
  ASSUME TypeOK, [Next]_vars, NEW k \in Members, Crash(k)
  PROVE  TypeOK'
<1>1. TodoOK'
  <2>1. Members' = Members /\ fleet'.peers = fleet.peers /\ todo' = [todo EXCEPT ![k] = <<>>]
    BY SameFleet DEF Crash
  <2>2. /\ Len(fleet.peers[k]) + 1 \in 1 .. Len(fleet.peers[k]) + 1
        /\ <<>> = SubSeq(fleet.peers[k], Len(fleet.peers[k]) + 1, Len(fleet.peers[k]))
    BY FleetFacts, SuffixEmpty
  <2> QED BY <2>1, <2>2, TypeFacts DEF TodoOK
<1>2. nap' \in [Members -> 0 .. UpdateInterval - 1] /\ phase' \in [Members -> Phase]
  BY TypeFacts, MeshAssumption DEF Crash, Phase
<1>3. registry' \in Registries
  <2>1. Nobody \in [Members -> PeerInfo \cup {None}]
    BY DEF Nobody
  <2> QED BY <2>1, TypeFacts DEF Crash, Registries
<1>4. /\ cycle' \in [Members -> Age(UpdateInterval) \cup {None}]
      /\ permit' \in [Members -> BOOLEAN]
  BY TypeFacts DEF Crash
<1>5. pass' \in [Members -> Pass]
  <2>1. Due \in Pass
    BY DEF Due, Pass
  <2> QED BY <2>1, TypeFacts DEF Crash
<1>6. notices' \subseteq Notice /\ joins' \subseteq Joining /\ UNCHANGED <<cut, away>>
  BY TypeFacts DEF Crash
<1> QED BY <1>1, <1>2, <1>3, <1>4, <1>5, <1>6, TypeFacts, TypeParts

(* An entry grows old. *)
LEMMA AgedType ==
  ASSUME NEW info \in PeerInfo
  PROVE  [seen |-> Older(info.seen, SixHours + 1),
          push |-> Older(info.push, FailoverAfter + 2)] \in PeerInfo
<1>1. info.seen \in Age(SixHours + 1) /\ info.push \in Age(FailoverAfter + 2) \cup {None}
  BY DEF PeerInfo
<1>2. Older(info.seen, SixHours + 1) \in Age(SixHours + 1)
  <2>1. info.seen # None
    BY <1>1, MeshAssumption DEF Age
  <2>2. SixHours + 1 \in Nat
    BY MeshAssumption
  <2> QED BY <1>1, <2>1, <2>2, OlderType
<1>3. Older(info.push, FailoverAfter + 2) \in Age(FailoverAfter + 2) \cup {None}
  <2>1. FailoverAfter + 2 \in Nat
    BY MeshAssumption
  <2> QED BY <1>1, <2>1, OlderType
<1> QED BY <1>2, <1>3 DEF PeerInfo

LEMMA TickType ==
  ASSUME TypeOK, [Next]_vars, Tick
  PROVE  TypeOK'
<1>1. nap' \in [Members -> 0 .. UpdateInterval - 1]
  <2>1. ASSUME NEW k \in Members
        PROVE  (IF phase[k] = "waiting" THEN nap[k] - 1 ELSE 0) \in 0 .. UpdateInterval - 1
    <3>1. phase[k] = "waiting" => nap[k] # 0
      BY DEF Tick, Hurries
    <3>2. nap[k] \in 0 .. UpdateInterval - 1 /\ UpdateInterval \in Nat /\ UpdateInterval > 0
      BY TypeFacts, MeshAssumption
    <3> QED BY <3>1, <3>2
  <2> QED BY <2>1 DEF Tick
<1>2. registry' \in Registries
  <2>1. ASSUME NEW k \in Members, NEW p \in Members, registry[k][p] # None
        PROVE  [seen |-> Older(registry[k][p].seen, SixHours + 1),
                push |-> Older(registry[k][p].push, FailoverAfter + 2)] \in PeerInfo
    <3>1. registry[k][p] \in PeerInfo
      BY <2>1, TypeFacts DEF Registries
    <3> QED BY <3>1, AgedType
  <2> QED BY <2>1 DEF Tick, Registries
<1>3. cycle' \in [Members -> Age(UpdateInterval) \cup {None}]
  <2>1. ASSUME NEW k \in Members
        PROVE  Older(cycle[k], UpdateInterval) \in Age(UpdateInterval) \cup {None}
    BY TypeFacts, OlderType, MeshAssumption
  <2> QED BY <2>1 DEF Tick
<1>4. pass' \in [Members -> Pass]
  <2>1. Due \in Pass
    BY DEF Due, Pass
  <2> QED BY <2>1 DEF Tick
<1>5. away' \in [Members -> [Members -> Age(SixHours)]]
  <2>1. ASSUME NEW k \in Members, NEW p \in Members
        PROVE  Min({away[k][p] + 1, SixHours}) \in Age(SixHours) /\ 0 \in Age(SixHours)
    <3>1. away[k][p] \in 0 .. SixHours /\ SixHours \in Nat
      BY TypeFacts, MeshAssumption DEF Age
    <3>2. Min({away[k][p] + 1, SixHours})
            = IF away[k][p] + 1 <= SixHours THEN away[k][p] + 1 ELSE SixHours
      BY <3>1, MinOfTwo
    <3> QED BY <3>1, <3>2 DEF Age
  <2> QED BY <2>1 DEF Tick
<1>6. UNCHANGED <<todo, phase, permit, notices, joins>> /\ cut' \subseteq fleet.weak
  BY DEF Tick
<1> QED BY <1>1, <1>2, <1>3, <1>4, <1>5, <1>6, TypeFacts, TypeParts, TodoUnchanged

LEMMA NextType ==
  ASSUME TypeOK, [Next]_vars
  PROVE  TypeOK'
<1>1. CASE UNCHANGED vars
  BY <1>1, TypeFacts, TypeParts, TodoUnchanged DEF vars
<1>2. ASSUME NEW k \in Members, Start(k) \/ Keep(k) \/ Crash(k)
      PROVE  TypeOK'
  BY <1>2, StartType, RegisterType, SyncType, LoopType, CrashType DEF Keep
<1>3. CASE (\E n \in notices : Notify(n)) \/ (\E j \in joins : Join(j))
  BY <1>3, TaskTypes
<1>4. CASE Tick
  BY <1>4, TickType
<1> QED BY <1>1, <1>2, <1>3, <1>4 DEF Next

LEMMA InitType ==
  ASSUME Init
  PROVE  TypeOK
<1>1. fleet \in Fleets /\ IsFleet(fleet)
  BY MeshAssumption DEF Init
<1>2. FleetOK
  <2>1. fleet.crashes \in 0 .. fleet.crashes /\ fleet = [fleet EXCEPT !.crashes = fleet.crashes]
    BY <1>1 DEF IsFleet
  <2> QED BY <1>1, <2>1 DEF FleetOK
<1>3. fleet.peers \in [Members -> Seq(Members)]
  BY <1>1 DEF IsFleet, Members
<1>4. TodoOK
  <2>1. ASSUME NEW k \in Members
        PROVE  \E i \in 1 .. Len(fleet.peers[k]) + 1 :
                 todo[k] = SubSeq(fleet.peers[k], i, Len(fleet.peers[k]))
    <3>1. todo[k] = <<>> /\ fleet.peers[k] \in Seq(Members)
      BY <1>3 DEF Init
    <3> QED BY <3>1, SuffixEmpty
  <2> QED BY <2>1 DEF TodoOK, Init
<1>5. nap \in [Members -> 0 .. UpdateInterval - 1] /\ phase \in [Members -> Phase]
  BY MeshAssumption DEF Init, Phase
<1>6. registry \in Registries
  BY DEF Init, Registries, Nobody
<1>7. pass \in [Members -> Pass]
  BY DEF Init, Pass, Due
<1>8. away \in [Members -> [Members -> Age(SixHours)]]
  BY MeshAssumption DEF Init, Age
<1>9. /\ cycle \in [Members -> Age(UpdateInterval) \cup {None}]
      /\ permit \in [Members -> BOOLEAN] /\ notices = {} /\ joins = {} /\ cut = {}
  BY DEF Init
<1> QED
  BY <1>2, <1>4, <1>5, <1>6, <1>7, <1>8, <1>9 DEF TypeOK, FleetOK, TodoOK, Registries

(* A keeper's registry, its sleeps and its passes stay within their types:  *)
(* no startup sleep is as long as an interval, whatever peers report.       *)
THEOREM TypeCorrect == Spec => []TypeOK
<1>1. Init => TypeOK
  BY InitType
<1>2. TypeOK /\ [Next]_vars => TypeOK'
  BY NextType
<1> QED BY <1>1, <1>2, PTL DEF Spec

(* A keeper that starts takes the place in the peers' schedule that is      *)
(* farthest from the peers and the oracle, whatever the interval and        *)
(* whoever answers, and gets there in less than an interval.                *)
THEOREM StartupIsFarthest == Spec => []StartsFarthest
<1>1. TypeOK => StartsFarthest
  <2> SUFFICES ASSUME TypeOK, NEW k \in Members, NEW now \in Position, NEW around \in Surroundings
               PROVE  LET reported == Reported(k, now) \cup around[1]
                          taken    == reported \cup around[2]
                          sleep    == StartupSleep(now, reported, around[2])
                      IN  /\ sleep \in 0 .. UpdateInterval - 1
                          /\ reported # {} =>
                               \A a \in Position :
                                 Clearance(a, taken) <= Clearance((now + sleep) % UpdateInterval, taken)
    BY DEF StartsFarthest
  <2> DEFINE reported == Reported(k, now) \cup around[1]
             oracle   == around[2]
             sleep    == StartupSleep(now, reported, oracle)
  <2>1. reported \in SUBSET Position /\ oracle \in SUBSET Position
    BY ReportedRange DEF Surroundings
  <2> HIDE DEF reported, oracle
  <2>2. sleep \in 0 .. UpdateInterval - 1
    BY <2>1, SleepRange
  <2>3. ASSUME reported # {}, NEW a \in Position
        PROVE  Clearance(a, reported \cup oracle)
                 <= Clearance((now + sleep) % UpdateInterval, reported \cup oracle)
    BY <2>1, <2>3, WakesAtTarget, TargetIsFarthest
  <2> HIDE DEF sleep
  <2>4. /\ sleep \in 0 .. UpdateInterval - 1
        /\ reported # {} =>
             \A a \in Position :
               Clearance(a, reported \cup oracle)
                 <= Clearance((now + sleep) % UpdateInterval, reported \cup oracle)
    BY <2>2, <2>3
  <2> QED BY <2>4 DEF sleep, reported, oracle
<1> QED BY <1>1, TypeCorrect, PTL

-----------------------------------------------------------------------------
(* Failover.                                                                *)

(* A keeper that does not run its loops has polled nobody yet. *)
UnpolledBeforeLoops ==
  \A k \in Members :
    phase[k] # "running" =>
      /\ pass[k].pc = "due"
      /\ \A p \in Members : registry[k][p] # None => registry[k][p].push = None

(* After a pass, whoever knows of an overdue peer has been woken, and may   *)
(* have answered already.                                                   *)
WokenByPass ==
  \A k, p \in Members :
    (/\ phase[k] = "running" /\ pass[k].pc = "done"
     /\ registry[k][p] # None /\ registry[k][p].push # None
     /\ registry[k][p].push > FailoverAfter)
      => permit[k] \/ cycle[k] = 0

CoverInv == TypeOK /\ UnpolledBeforeLoops /\ WokenByPass /\ OverdueIsCovered

(* Steps that change no push time and do not move a pass, other than by     *)
(* starting it: registrations, and a keeper's way to its loops.             *)
PushesKept ==
  /\ UNCHANGED <<pass, permit, cycle>>
  /\ \A k \in Members : phase'[k] # "running" => phase[k] # "running"
  /\ \A k, p \in Members :
       registry'[k][p] # None /\ registry'[k][p].push # None
         => registry[k][p] # None /\ registry'[k][p].push = registry[k][p].push

LEMMA PushesKeptCover ==
  ASSUME CoverInv, TypeOK', Members' = Members, PushesKept
  PROVE  CoverInv'
<1>1. UnpolledBeforeLoops'
  BY DEF CoverInv, UnpolledBeforeLoops, PushesKept
<1>2. WokenByPass'
  <2>1. ASSUME NEW k \in Members, NEW p \in Members,
               phase'[k] = "running", pass[k].pc = "done",
               registry'[k][p] # None, registry'[k][p].push # None,
               registry'[k][p].push > FailoverAfter
        PROVE  permit[k] \/ cycle[k] = 0
    <3>1. phase[k] = "running"
      BY <2>1 DEF CoverInv, UnpolledBeforeLoops
    <3>2. registry[k][p] # None /\ registry'[k][p].push = registry[k][p].push
      BY <2>1 DEF PushesKept
    <3> QED BY <2>1, <3>1, <3>2 DEF CoverInv, WokenByPass
  <2>2. UNCHANGED <<pass, permit, cycle>>
    BY DEF PushesKept
  <2> QED BY <2>1, <2>2 DEF WokenByPass
<1>3. OverdueIsCovered'
  BY DEF CoverInv, UnpolledBeforeLoops, OverdueIsCovered, PushesKept
<1> QED BY <1>1, <1>2, <1>3 DEF CoverInv

LEMMA EntryPushes ==
  /\ \A info \in PeerInfo \cup {None} :
       /\ Registered(info).push = None
       /\ Upserted(info).push # None => info # None /\ Upserted(info).push = info.push
<1>1. Fresh.push = None
  BY DEF Fresh
<1>2. ASSUME NEW info \in PeerInfo PROVE [info EXCEPT !.seen = 0].push = info.push
  BY DEF PeerInfo
<1> QED BY <1>1, <1>2 DEF Registered, Upserted

LEMMA JoiningCover ==
  ASSUME CoverInv, TypeOK', Members' = Members,
         \/ \E k \in Members : Start(k) \/ Register(k) \/ FallAsleep(k) \/ Run(k)
         \/ \E n \in notices : Notify(n)
         \/ \E j \in joins : Join(j)
         \/ UNCHANGED vars
  PROVE  CoverInv'
<1>0. TypeOK /\ registry \in Registries /\ phase \in [Members -> Phase]
  BY TypeFacts DEF CoverInv
<1>1. ASSUME UNCHANGED <<pass, permit, cycle, registry>>,
             \A k \in Members : phase'[k] # "running" => phase[k] # "running"
      PROVE  CoverInv'
  BY <1>1, PushesKeptCover DEF PushesKept
<1>2. ASSUME NEW k \in Members, Start(k) \/ FallAsleep(k) \/ Run(k)
      PROVE  CoverInv'
  <2>1. UNCHANGED <<pass, permit, cycle, registry>>
    BY <1>2 DEF Start, FallAsleep, Run
  <2>2. \A l \in Members : phase'[l] # "running" => phase[l] # "running"
    BY <1>0, <1>2 DEF Start, FallAsleep, Run
  <2> QED BY <1>1, <2>1, <2>2
<1>3. ASSUME NEW a, NEW b, registry' = [registry EXCEPT ![a][b] = Registered(@)],
             UNCHANGED <<pass, permit, cycle, phase>>
      PROVE  CoverInv'
  <2>1. ASSUME NEW k \in Members, NEW p \in Members,
               registry'[k][p] # None, registry'[k][p].push # None
        PROVE  registry[k][p] # None /\ registry'[k][p].push = registry[k][p].push
    <3>1. registry'[k][p] = registry[k][p] \/ registry'[k][p] = Fresh
      BY <1>0, <1>3 DEF Registries, Registered
    <3>2. Fresh.push = None
      BY DEF Fresh
    <3> QED BY <2>1, <3>1, <3>2
  <2> QED BY <1>3, <2>1, PushesKeptCover DEF PushesKept
<1>4. ASSUME NEW k \in Members, Register(k)
      PROVE  CoverInv'
  <2> DEFINE p == Head(todo[k])
  <2>1. UNCHANGED <<phase, pass, permit, cycle>>
    BY <1>4 DEF Register
  <2>2. CASE \E answered \in {TRUE, Reliable(k, p)} : PeerRegister(p, k, answered)
    <3>1. PICK answered \in {TRUE, Reliable(k, p)} : PeerRegister(p, k, answered)
      BY <2>2
    <3> DEFINE x == Registered(registry[p][k])
               y == IF answered THEN Upserted(registry[k][p]) ELSE registry[k][p]
    <3>2. registry' = [registry EXCEPT ![p][k] = x, ![k][p] = y]
      BY <3>1, Zenon DEF PeerRegister
    <3>3. x.push = None
      BY DEF Registered, Fresh
    <3> HIDE DEF p, x
    <3>4. ASSUME NEW l \in Members, NEW q \in Members,
                 registry'[l][q] # None, registry'[l][q].push # None
          PROVE  registry[l][q] # None /\ registry'[l][q].push = registry[l][q].push
      <4>1. \/ registry'[l][q] = registry[l][q] \/ registry'[l][q] = x
            \/ l = k /\ q = p /\ registry'[l][q] = y
        <5> HIDE DEF y
        <5> QED BY <1>0, <3>2 DEF Registries
      <4>2. ASSUME l = k, q = p, registry'[l][q] = y
            PROVE  registry[l][q] # None /\ registry'[l][q].push = registry[l][q].push
        <5>1. registry[l][q] \in PeerInfo \cup {None}
          BY <1>0 DEF Registries
        <5>2. y = registry[l][q] \/ y = Upserted(registry[l][q])
          BY <4>2
        <5> HIDE DEF y
        <5> QED BY <3>4, <4>2, <5>1, <5>2, EntryPushes
      <4> HIDE DEF y
      <4> QED BY <3>3, <3>4, <4>1, <4>2
    <3> QED BY <2>1, <3>4, PushesKeptCover DEF PushesKept
  <2>3. CASE PeerVerify(p, k)
    <3>1. registry' = [registry EXCEPT ![p][k] = Upserted(@)]
      BY <2>3 DEF PeerVerify
    <3> HIDE DEF p
    <3>2. ASSUME NEW l \in Members, NEW q \in Members,
                 registry'[l][q] # None, registry'[l][q].push # None
          PROVE  registry[l][q] # None /\ registry'[l][q].push = registry[l][q].push
      <4>1. registry[l][q] \in PeerInfo \cup {None}
        BY <1>0 DEF Registries
      <4>2. registry'[l][q] = registry[l][q] \/ registry'[l][q] = Upserted(registry[l][q])
        BY <1>0, <3>1 DEF Registries
      <4> QED BY <3>2, <4>1, <4>2, EntryPushes
    <3> QED BY <2>1, <3>2, PushesKeptCover DEF PushesKept
  <2>4. CASE UNCHANGED registry
    BY <1>1, <2>1, <2>4
  <2> QED BY <1>4, <2>2, <2>3, <2>4 DEF Register
<1>5. ASSUME NEW n \in notices, Notify(n)
      PROVE  CoverInv'
  BY <1>1, <1>5 DEF Notify
<1>6. ASSUME NEW j \in joins, Join(j)
      PROVE  CoverInv'
  <2>1. UNCHANGED <<phase, pass, permit, cycle>>
    BY <1>6 DEF Join
  <2>2. UNCHANGED registry \/ registry' = [registry EXCEPT ![j.to][j.from] = Registered(@)]
    BY <1>6 DEF Join
  <2> QED BY <1>1, <1>3, <2>1, <2>2
<1>7. CASE UNCHANGED vars
  BY <1>1, <1>7 DEF vars
<1> QED BY <1>2, <1>4, <1>5, <1>6, <1>7

LEMMA SyncCover ==
  ASSUME CoverInv, TypeOK', Members' = Members, NEW k \in Members,
         SyncBegin(k) \/ (\E p \in Members : SyncPoll(k, p)) \/ SyncEnd(k)
  PROVE  CoverInv'
<1>0. /\ TypeOK /\ registry \in Registries /\ pass \in [Members -> Pass]
      /\ permit \in [Members -> BOOLEAN]
      /\ UNCHANGED <<phase, cycle>>
  BY TypeFacts DEF CoverInv, SyncBegin, SyncPoll, SyncEnd
<1>1. phase[k] = "running"
  <2>1. SyncBegin(k) \/ pass[k].pc = "polling"
    BY DEF SyncPoll, SyncEnd
  <2> QED BY <2>1 DEF SyncBegin, CoverInv, UnpolledBeforeLoops
<1>2. /\ \A l \in Members \ {k} :
           pass'[l] = pass[l] /\ registry'[l] = registry[l] /\ permit'[l] = permit[l]
  BY <1>0 DEF SyncBegin, SyncPoll, SyncEnd, Registries
<1>3. UnpolledBeforeLoops'
  BY <1>0, <1>1, <1>2 DEF CoverInv, UnpolledBeforeLoops
<1>4. ASSUME NEW p \in Members, registry'[k][p] # None, registry'[k][p].push # None
      PROVE  \/ registry[k][p] # None /\ registry'[k][p] = registry[k][p]
             \/ registry'[k][p].push <= FailoverAfter
             \/ registry[k][p] # None /\ registry'[k][p].push = registry[k][p].push
  <2>1. CASE SyncBegin(k)
    BY <1>4, <2>1 DEF SyncBegin
  <2>2. ASSUME NEW q \in Members, SyncPoll(k, q)
        PROVE  \/ registry[k][p] # None /\ registry'[k][p] = registry[k][p]
               \/ registry'[k][p].push <= FailoverAfter
               \/ registry[k][p] # None /\ registry'[k][p].push = registry[k][p].push
    <3>1. CASE registry'[k][p] = registry[k][p]
      BY <1>4, <3>1
    <3>2. CASE registry'[k][p] # registry[k][p]
      <4>1. PICK status \in {Status(q), IF Reliable(k, q) THEN Status(q) ELSE None} :
              registry[k][q] # None /\ registry' = [registry EXCEPT ![k][q] = Polled(@, status)]
        BY <2>2, <3>2 DEF SyncPoll
      <4>2. p = q /\ registry'[k][p] = Polled(registry[k][p], status)
        BY <1>0, <3>2, <4>1 DEF Registries
      <4>3. status \in Age(UpdateInterval) \cup {None}
        BY <1>0, <4>1, TypeFacts DEF Status
      <4>4. registry'[k][p].push = IF status = None THEN registry[k][p].push ELSE status
        BY <4>2 DEF Polled
      <4>5. CASE status = None
        BY <4>1, <4>2, <4>4, <4>5
      <4>6. CASE status # None
        <5>1. status \in 0 .. UpdateInterval
          BY <4>3, <4>6 DEF Age
        <5> QED BY <4>4, <4>6, <5>1, MeshAssumption
      <4> QED BY <4>5, <4>6
    <3> QED BY <3>1, <3>2
  <2>3. CASE SyncEnd(k)
    <3>1. registry'[k] = Kept(registry[k])
      BY <1>0, <2>3 DEF SyncEnd, Registries
    <3>2. registry[k] \in [Members -> PeerInfo \cup {None}]
      BY <1>0 DEF Registries
    <3>3. registry'[k][p] = IF registry[k][p] # None /\ Silent(registry[k][p]) THEN None
                           ELSE registry[k][p]
      BY <3>1, <3>2 DEF Kept
    <3> QED BY <1>4, <3>3
  <2> QED BY <2>1, <2>2, <2>3
<1>5. ASSUME NEW p \in Members, registry'[k][p] # None, registry'[k][p].push # None
      PROVE  registry'[k][p].push \in Int
  <2>1. registry'[k][p] \in PeerInfo
    <3>1. registry' \in [Members -> [Members -> PeerInfo \cup {None}]]
      BY DEF TypeOK
    <3> QED BY <1>5, <3>1
  <2>2. registry'[k][p].push \in 0 .. FailoverAfter + 2
    BY <1>5, <2>1 DEF PeerInfo, Age
  <2> QED BY <2>2, MeshAssumption
<1>6. OverdueIsCovered'
  <2>1. ASSUME NEW l \in Members, NEW p \in Members, phase[l] = "running",
               registry'[l][p] # None, registry'[l][p].push # None
        PROVE  registry'[l][p].push <= FailoverAfter + 1 \/ cycle[l] \in 0 .. 1
    <3>1. CASE l # k
      BY <1>2, <2>1, <3>1 DEF CoverInv, OverdueIsCovered
    <3>2. CASE l = k
      <4>1. CASE registry'[k][p].push <= FailoverAfter
        BY <1>5, <2>1, <3>2, <4>1, MeshAssumption
      <4>2. CASE registry[k][p] # None /\ registry'[k][p].push = registry[k][p].push
        BY <2>1, <3>2, <4>2 DEF CoverInv, OverdueIsCovered
      <4> QED BY <1>4, <2>1, <3>2, <4>1, <4>2
    <3> QED BY <3>1, <3>2
  <2> QED BY <1>0, <2>1 DEF OverdueIsCovered
<1>7. WokenByPass'
  <2>1. ASSUME NEW l \in Members, NEW p \in Members, phase[l] = "running",
               pass'[l].pc = "done", registry'[l][p] # None,
               registry'[l][p].push # None, registry'[l][p].push > FailoverAfter
        PROVE  permit'[l] \/ cycle[l] = 0
    <3>1. CASE l # k
      <4>1. permit[l] \/ cycle[l] = 0
        BY <1>2, <2>1, <3>1 DEF CoverInv, WokenByPass
      <4> QED BY <1>2, <3>1, <4>1
    <3>2. CASE l = k
      <4>1. SyncEnd(k)
        <5>1. ~SyncBegin(k)
          BY <1>0, <2>1, <3>2 DEF SyncBegin
        <5>2. ASSUME NEW q \in Members, SyncPoll(k, q) PROVE FALSE
          <6>1. pass' = [pass EXCEPT ![k].left = @ \ {q}] /\ pass[k].pc = "polling"
            BY <5>2 DEF SyncPoll
          <6>2. pass'[k].pc = "polling"
            BY <1>0, <6>1 DEF Pass
          <6> QED BY <2>1, <3>2, <6>2
        <5> QED BY <5>1, <5>2
      <4>2. registry'[k] = Kept(registry[k])
        BY <1>0, <4>1 DEF SyncEnd, Registries
      <4>3. Kept(registry[k])[p] # None /\ Overdue(Kept(registry[k])[p])
        BY <2>1, <3>2, <4>2 DEF Overdue
      <4>4. permit'[k] = (permit[k] \/ \E q \in Members :
                            Kept(registry[k])[q] # None /\ Overdue(Kept(registry[k])[q]))
        BY <1>0, <4>1 DEF SyncEnd
      <4>5. permit'[k] = TRUE
        BY <4>3, <4>4, Zenon
      <4> QED BY <3>2, <4>5
    <3> QED BY <3>1, <3>2
  <2> QED BY <1>0, <2>1 DEF WokenByPass
<1> QED BY <1>3, <1>6, <1>7 DEF CoverInv

LEMMA CycleCover ==
  ASSUME CoverInv, TypeOK', Members' = Members, NEW k \in Members,
         CycleOnTime(k) \/ CycleEarly(k)
  PROVE  CoverInv'
<1>1. /\ UNCHANGED <<phase, pass, registry>>
      /\ cycle'[k] = 0
      /\ \A l \in Members \ {k} : cycle'[l] = cycle[l] /\ permit'[l] = permit[l]
  BY TypeFacts DEF CoverInv, CycleOnTime, CycleEarly
<1>2. UnpolledBeforeLoops'
  BY <1>1 DEF CoverInv, UnpolledBeforeLoops
<1>3. WokenByPass'
  <2>1. ASSUME NEW l \in Members, NEW p \in Members, phase[l] = "running",
               pass[l].pc = "done", registry[l][p] # None,
               registry[l][p].push # None, registry[l][p].push > FailoverAfter
        PROVE  permit'[l] \/ cycle'[l] = 0
    <3>1. permit[l] \/ cycle[l] = 0
      BY <2>1 DEF CoverInv, WokenByPass
    <3> QED BY <1>1, <3>1
  <2> QED BY <1>1, <2>1 DEF WokenByPass
<1>4. OverdueIsCovered'
  <2>1. 0 \in 0 .. 1
    OBVIOUS
  <2>2. ASSUME NEW l \in Members, NEW p \in Members, phase[l] = "running",
               registry[l][p] # None, registry[l][p].push # None
        PROVE  registry[l][p].push <= FailoverAfter + 1 \/ cycle'[l] \in 0 .. 1
    BY <1>1, <2>1, <2>2 DEF CoverInv, OverdueIsCovered
  <2> QED BY <1>1, <2>2 DEF OverdueIsCovered
<1> QED BY <1>2, <1>3, <1>4 DEF CoverInv

LEMMA CrashCover ==
  ASSUME CoverInv, TypeOK', Members' = Members, NEW k \in Members, Crash(k)
  PROVE  CoverInv'
<1>0. TypeOK
  BY DEF CoverInv
<1>1. /\ phase'[k] = "down" /\ pass'[k] = Due
      /\ \A p \in Members : registry'[k][p] = None
  BY <1>0, TypeFacts DEF Crash, Registries, Nobody
<1>2. \A l \in Members \ {k} :
        /\ phase'[l] = phase[l] /\ pass'[l] = pass[l] /\ registry'[l] = registry[l]
        /\ cycle'[l] = cycle[l] /\ permit'[l] = permit[l]
  BY <1>0, TypeFacts DEF Crash, Registries
<1>3. UnpolledBeforeLoops'
  BY <1>1, <1>2 DEF CoverInv, UnpolledBeforeLoops, Due
<1>4. WokenByPass'
  <2>1. ASSUME NEW l \in Members, NEW p \in Members, phase'[l] = "running",
               pass'[l].pc = "done", registry'[l][p] # None,
               registry'[l][p].push # None, registry'[l][p].push > FailoverAfter
        PROVE  permit'[l] \/ cycle'[l] = 0
    <3>1. l # k
      BY <1>1, <2>1
    <3>2. permit[l] \/ cycle[l] = 0
      BY <1>2, <2>1, <3>1 DEF CoverInv, WokenByPass
    <3> QED BY <1>2, <3>1, <3>2
  <2> QED BY <2>1 DEF WokenByPass
<1>5. OverdueIsCovered'
  <2>1. ASSUME NEW l \in Members, NEW p \in Members, phase'[l] = "running",
               registry'[l][p] # None, registry'[l][p].push # None
        PROVE  registry'[l][p].push <= FailoverAfter + 1 \/ cycle'[l] \in 0 .. 1
    <3>1. l # k
      BY <1>1, <2>1
    <3> QED BY <1>2, <2>1, <3>1 DEF CoverInv, OverdueIsCovered
  <2> QED BY <2>1 DEF OverdueIsCovered
<1> QED BY <1>3, <1>4, <1>5 DEF CoverInv

(* Time passes only when every keeper's pass is done and its permit used: a *)
(* peer that becomes more than a tick overdue had been covered for.         *)
LEMMA TickCover ==
  ASSUME CoverInv, TypeOK', Members' = Members, Tick
  PROVE  CoverInv'
<1>0. TypeOK /\ registry \in Registries /\ UNCHANGED <<phase, permit>>
  BY TypeFacts DEF CoverInv, Tick
<1>1. \A k \in Members : pass'[k] = Due
  BY DEF Tick
<1>2. ASSUME NEW k \in Members, NEW p \in Members, registry'[k][p] # None,
             registry'[k][p].push # None
      PROVE  /\ registry[k][p] # None /\ registry[k][p].push \in 0 .. FailoverAfter + 2
             /\ registry'[k][p].push = IF registry[k][p].push < FailoverAfter + 2
                                       THEN registry[k][p].push + 1 ELSE FailoverAfter + 2
  <2>1. registry'[k][p] = IF registry[k][p] = None THEN None
                          ELSE [seen |-> Older(registry[k][p].seen, SixHours + 1),
                                push |-> Older(registry[k][p].push, FailoverAfter + 2)]
    BY DEF Tick
  <2>2. registry[k][p] # None /\ registry'[k][p].push = Older(registry[k][p].push, FailoverAfter + 2)
    BY <1>2, <2>1
  <2>3. registry[k][p].push \in Age(FailoverAfter + 2) \cup {None}
    BY <1>0, <2>2 DEF Registries, PeerInfo
  <2>4. FailoverAfter + 2 \in Nat
    BY MeshAssumption
  <2> QED BY <1>2, <2>2, <2>3, <2>4, OlderType DEF Age
<1>3. UnpolledBeforeLoops'
  BY <1>0, <1>1, <1>2, MeshAssumption DEF CoverInv, UnpolledBeforeLoops, Due
<1>4. WokenByPass'
  <2>1. \A k \in Members : pass'[k].pc # "done"
    BY <1>1 DEF Due
  <2> QED BY <2>1 DEF WokenByPass
<1>5. OverdueIsCovered'
  <2>1. ASSUME NEW k \in Members, NEW p \in Members, phase[k] = "running",
               registry'[k][p] # None, registry'[k][p].push # None,
               registry'[k][p].push > FailoverAfter + 1
        PROVE  cycle'[k] \in 0 .. 1
    <3>1. registry[k][p] # None /\ registry[k][p].push # None /\ registry[k][p].push > FailoverAfter
      BY <1>2, <2>1, MeshAssumption
    <3>2. pass[k].pc = "done" /\ ~permit[k]
      BY <2>1 DEF Tick, Hurries
    <3>3. cycle[k] = 0
      BY <2>1, <3>1, <3>2 DEF CoverInv, WokenByPass
    <3>4. cycle'[k] = Older(0, UpdateInterval)
      BY <3>3 DEF Tick
    <3>5. 0 # None /\ UpdateInterval \in Int
      BY MeshAssumption
    <3>6. Older(0, UpdateInterval) = IF 1 <= UpdateInterval THEN 1 ELSE UpdateInterval
      BY <3>5, MinOfTwo DEF Older
    <3> QED BY <3>4, <3>6, MeshAssumption
  <2>2. ASSUME NEW k \in Members, NEW p \in Members, registry'[k][p] # None,
               registry'[k][p].push # None
        PROVE  registry'[k][p].push \in Int
    BY <1>2, <2>2, MeshAssumption
  <2> QED BY <1>0, <2>1, <2>2, MeshAssumption DEF OverdueIsCovered
<1> QED BY <1>3, <1>4, <1>5 DEF CoverInv

(* A keeper that knows of a peer that is more than a tick overdue ends a    *)
(* cycle in every tick, in every fleet, with any crashes and any loss of    *)
(* requests: the failover of the sync loop misses no pass.                  *)
THEOREM FailoverCovers == Spec => []OverdueIsCovered
<1>1. Init => CoverInv
  <2> SUFFICES ASSUME Init PROVE CoverInv
    OBVIOUS
  <2>1. \A k \in Members : phase[k] = "down" /\ pass[k] = Due
                           /\ \A p \in Members : registry[k][p] = None
    BY DEF Init, Nobody
  <2> QED
    BY <2>1, InitType DEF CoverInv, UnpolledBeforeLoops, WokenByPass, OverdueIsCovered, Due
<1>2. CoverInv /\ [Next]_vars => CoverInv'
  <2> SUFFICES ASSUME CoverInv, [Next]_vars PROVE CoverInv'
    OBVIOUS
  <2>1. TypeOK' /\ Members' = Members
    BY NextType, SameFleet DEF CoverInv
  <2>2. ASSUME NEW k \in Members, Start(k) \/ Keep(k) \/ Crash(k)
        PROVE  CoverInv'
    BY <2>1, <2>2, JoiningCover, SyncCover, CycleCover, CrashCover DEF Keep
  <2> QED BY <2>1, <2>2, JoiningCover, TickCover DEF Next
<1>3. CoverInv => OverdueIsCovered
  BY DEF CoverInv
<1> QED BY <1>1, <1>2, <1>3, PTL DEF Spec

-----------------------------------------------------------------------------
(* Eviction.                                                                *)

(* A keeper that starts tells another: it is configured with it, and the    *)
(* registration gets through.                                               *)
Announces(p, k) == k \in ToSet(fleet.peers[p]) /\ Reliable(p, k)

(* If a peer comes back between two polls, then to stay or with notice.     *)
Noticed ==
  \A k, p \in Members :
    k # p => Announces(p, k) \/ (fleet.crashes <= 1 /\ Reliable(k, p))

(* The peer is up and the keeper reaches it, now and from now on. *)
Sure(k, p) == fleet.crashes = 0 /\ Reliable(k, p) /\ phase[p] # "down"

(* The keeper has dealt with the peer in its present pass. *)
Asked(k, p) == pass[k].pc # "due" /\ p \notin pass[k].left

(* A peer that has come back is about to register. *)
Coming(k, p) == phase[p] = "joining" /\ k \in ToSet(todo[p]) /\ Reliable(p, k)

(* How long a peer has been silent for is how long it has been away for.    *)
Accounted(k, p) ==
  /\ phase[p] = "down" => Announces(p, k) \/ fleet.crashes = 0
  /\ registry[k][p].seen <= away[k][p] + 1 \/ (Sure(k, p) /\ ~Asked(k, p))
  /\ Asked(k, p) /\ Reaches(k, p) =>
       registry[k][p].seen = 0 \/ Sure(k, p) \/ Coming(k, p)

InPhase ==
  /\ \A k \in Members :
       /\ phase[k] # "running" => pass[k].pc = "due"
       /\ pass[k].pc = "done" => pass[k].left = {}
       /\ phase[k] = "down" => \A p \in Members : registry[k][p] = None
  /\ \A j \in joins : phase[j.from] # "down"

OutageInv ==
  /\ Noticed
  /\ InPhase
  /\ \A k, p \in Members : registry[k][p] # None => Accounted(k, p)

(* A step that changes no other count than the crashes to come. *)
LEMMA SameLinks ==
  ASSUME TypeOK, [Next]_vars
  PROVE  /\ \A k \in Members : fleet'.peers[k] = fleet.peers[k]
         /\ fleet'.weak = fleet.weak
         /\ fleet.crashes \in Nat /\ fleet'.crashes \in Nat
         /\ fleet'.crashes <= fleet.crashes
         /\ (\E k \in Members : Crash(k)) => fleet.crashes > 0 /\ fleet'.crashes = fleet.crashes - 1
         /\ ~(\E k \in Members : Crash(k)) => fleet' = fleet
<1>1. UNCHANGED <<fleet.peers, fleet.weak>>
  BY SameFleet
<1>2. fleet.crashes \in Nat
  BY FleetFacts
<1>3. ASSUME NEW k \in Members, Crash(k)
      PROVE  fleet.crashes > 0 /\ fleet'.crashes = fleet.crashes - 1
  <2>1. PICK f \in Fleets : fleet \in {[f EXCEPT !.crashes = n] : n \in 0 .. f.crashes}
    BY DEF TypeOK
  <2>2. IsFleet(f)
    BY MeshAssumption
  <2>3. DOMAIN fleet = {"peers", "legacy", "timed", "weak", "crashes"}
    BY <2>1, <2>2 DEF IsFleet
  <2> QED BY <1>2, <1>3, <2>3 DEF Crash
<1>4. ASSUME ~(\E k \in Members : Crash(k))
      PROVE  fleet' = fleet
  BY <1>4
  DEF Next, vars, Keep, Start, Register, FallAsleep, Run, Notify, Join, SyncBegin,
      SyncPoll, SyncEnd, CycleOnTime, CycleEarly, Tick
<1> QED BY <1>1, <1>2, <1>3, <1>4

LEMMA NoticedStays ==
  ASSUME TypeOK, [Next]_vars, Noticed
  PROVE  Noticed'
<1>1. /\ Members' = Members
      /\ \A k \in Members : fleet'.peers[k] = fleet.peers[k]
      /\ fleet'.weak = fleet.weak
      /\ fleet.crashes \in Nat /\ fleet'.crashes \in Nat /\ fleet'.crashes <= fleet.crashes
  BY SameFleet, SameLinks
<1>2. ASSUME NEW k \in Members, NEW p \in Members, k # p
      PROVE  (Announces(p, k) \/ (fleet.crashes <= 1 /\ Reliable(k, p)))'
  <2>1. Announces(p, k) \/ (fleet.crashes <= 1 /\ Reliable(k, p))
    BY <1>2 DEF Noticed
  <2>2. fleet.crashes <= 1 => fleet'.crashes <= 1
    BY <1>1
  <2> QED BY <1>1, <2>1, <2>2 DEF Announces, Reliable
<1> QED BY <1>1, <1>2 DEF Noticed

(* An entry that has just been made or refreshed. *)
LEMMA FreshAccount ==
  ASSUME TypeOK', NEW k \in Members, NEW p \in Members, Members' = Members,
         registry'[k][p].seen = 0, phase'[p] # "down"
  PROVE  Accounted(k, p)'
<1>1. away'[k][p] \in Nat
  <2>1. away' \in [Members -> [Members -> Age(SixHours)]]
    BY DEF TypeOK
  <2> QED BY <2>1, MeshAssumption DEF Age
<1> QED BY <1>1 DEF Accounted

(* An entry that is left alone. *)
LEMMA KeptAccount ==
  ASSUME NEW k \in Members, NEW p \in Members,
         Accounted(k, p), UNCHANGED <<fleet, cut, away>>,
         registry'[k][p] = registry[k][p],
         phase'[p] = "down" <=> phase[p] = "down",
         Asked(k, p)' => Asked(k, p),
         Coming(k, p) => phase'[p] = "joining" /\ k \in ToSet(todo'[p])
  PROVE  Accounted(k, p)'
BY DEF Accounted, Sure, Coming, Reaches, Reliable, Announces

LEMMA StartOutage ==
  ASSUME TypeOK, TypeOK', Members' = Members, OutageInv, NEW l \in Members, Start(l)
  PROVE  InPhase' /\ \A k, p \in Members : registry'[k][p] # None => Accounted(k, p)'
<1>0. phase \in [Members -> Phase] /\ pass \in [Members -> Pass] /\ DOMAIN todo = Members
  BY TypeFacts DEF TodoOK
<1>1. /\ phase[l] = "down" /\ phase' = [phase EXCEPT ![l] = "joining"]
      /\ todo' = [todo EXCEPT ![l] = fleet.peers[l]]
      /\ UNCHANGED <<fleet, registry, pass, joins, cut, away>>
  BY DEF Start
<1>2. /\ phase'[l] = "joining" /\ todo'[l] = fleet.peers[l]
      /\ \A k \in Members \ {l} : phase'[k] = phase[k] /\ todo'[k] = todo[k]
  BY <1>0, <1>1
<1>3. InPhase'
  <2>1. joins \subseteq Joining
    BY TypeFacts
  <2>2. \A j \in joins : j.from \in Members
    BY <2>1 DEF Joining
  <2>3. \A j \in joins : phase'[j.from] # "down"
    BY <1>2, <2>2 DEF OutageInv, InPhase
  <2>4. \A k \in Members : /\ phase'[k] # "running" => pass[k].pc = "due"
                           /\ pass[k].pc = "done" => pass[k].left = {}
                           /\ phase'[k] = "down" => \A p \in Members : registry[k][p] = None
    BY <1>1, <1>2 DEF OutageInv, InPhase
  <2> QED BY <1>1, <2>3, <2>4 DEF InPhase
<1>4. ASSUME NEW k \in Members, NEW p \in Members, registry'[k][p] # None
      PROVE  Accounted(k, p)'
  <2>1. registry[k][p] # None /\ Accounted(k, p) /\ phase[k] # "down"
    BY <1>1, <1>4 DEF OutageInv, InPhase
  <2>2. CASE p # l
    BY <1>1, <1>2, <2>1, <2>2, KeptAccount DEF Coming, Asked
  <2>3. CASE p = l
    <3>1. k # l
      BY <1>1, <2>1
    <3>2. Announces(l, k) \/ (fleet.crashes = 0 /\ Reliable(k, l))
      BY <1>1, <2>1, <2>3, <3>1 DEF OutageInv, Noticed, Accounted
    <3>3. registry[k][l].seen <= away[k][l] + 1
      BY <1>1, <2>1, <2>3 DEF Accounted, Sure
    <3>4. Sure(k, l)' \/ Coming(k, l)'
      BY <1>1, <1>2, <3>2 DEF Sure, Coming, Announces, Reliable
    <3>5. registry'[k][l].seen <= away'[k][l] + 1
      BY <1>1, <3>3
    <3> QED BY <1>2, <2>3, <3>4, <3>5 DEF Accounted
  <2> QED BY <2>2, <2>3
<1> QED BY <1>3, <1>4

(* A registration makes or refreshes the two keepers' entries of each other *)
(* and leaves all others alone.                                             *)
RegistersBoth(l, m, k, p) ==
  \/ registry'[k][p] = registry[k][p] /\ (k = m /\ p = l => ~Reliable(l, m))
  \/ /\ registry'[k][p] \in PeerInfo /\ registry'[k][p].seen = 0
     /\ <<k, p>> \in {<<m, l>>, <<l, m>>}

LEMMA RegistrationEntries ==
  ASSUME TypeOK, NEW l \in Members, NEW m \in Members,
         \E answered \in {TRUE, Reliable(l, m)} : PeerRegister(m, l, answered),
         NEW k \in Members, NEW p \in Members
  PROVE  RegistersBoth(l, m, k, p)
<1>a. PICK answered \in {TRUE, Reliable(l, m)} : PeerRegister(m, l, answered)
  OBVIOUS
<1> DEFINE x == Registered(registry[m][l])
           y == IF answered THEN Upserted(registry[l][m]) ELSE registry[l][m]
<1>0. registry \in Registries
  BY TypeFacts
<1>1. registry' = [registry EXCEPT ![m][l] = x, ![l][m] = y]
  BY <1>a, Zenon DEF PeerRegister
<1>2. x \in PeerInfo /\ x.seen = 0
  BY EntryTypes DEF Registered, Fresh
<1>3. answered => y \in PeerInfo /\ y.seen = 0
  <2>1. registry[l][m] \in PeerInfo \cup {None}
    BY <1>0 DEF Registries
  <2>2. Fresh.seen = 0 /\ \A info \in PeerInfo : [info EXCEPT !.seen = 0].seen = 0
    BY DEF Fresh, PeerInfo
  <2>3. Upserted(registry[l][m]) \in PeerInfo
    BY <2>1, EntryTypes
  <2> QED BY <2>1, <2>2, <2>3 DEF Upserted
<1>4. ~answered => y = registry[l][m] /\ ~Reliable(l, m)
  OBVIOUS
<1> HIDE DEF x, y
<1>5. CASE k = l /\ p = m
  <2>1. registry'[k][p] = y
    BY <1>0, <1>1, <1>5 DEF Registries
  <2> QED BY <1>3, <1>4, <1>5, <2>1 DEF RegistersBoth
<1>6. CASE ~(k = l /\ p = m) /\ k = m /\ p = l
  <2>1. registry'[k][p] = x
    BY <1>0, <1>1, <1>6 DEF Registries
  <2> QED BY <1>2, <1>6, <2>1 DEF RegistersBoth
<1>7. CASE ~(k = l /\ p = m) /\ ~(k = m /\ p = l)
  <2>1. registry'[k][p] = registry[k][p]
    BY <1>0, <1>1, <1>7 DEF Registries
  <2> QED BY <1>7, <2>1 DEF RegistersBoth
<1> QED BY <1>5, <1>6, <1>7

LEMMA RegisterOutage ==
  ASSUME TypeOK, TypeOK', Members' = Members, OutageInv, NEW l \in Members, Register(l)
  PROVE  InPhase' /\ \A k, p \in Members : registry'[k][p] # None => Accounted(k, p)'
<1> DEFINE m == Head(todo[l])
<1>0. registry \in Registries /\ phase \in [Members -> Phase] /\ DOMAIN todo = Members
      /\ joins \subseteq Joining /\ cut \subseteq fleet.weak
  BY TypeFacts DEF TodoOK
<1>1. /\ phase[l] = "joining" /\ todo[l] # <<>>
      /\ todo' = [todo EXCEPT ![l] = Tail(@)]
      /\ UNCHANGED <<fleet, phase, pass, cut, away>>
  BY DEF Register
<1>2. m \in Members /\ todo[l] \in Seq(Members)
  <2>1. PICK i \in 1 .. Len(fleet.peers[l]) + 1 :
          todo[l] = SubSeq(fleet.peers[l], i, Len(fleet.peers[l]))
    BY TypeFacts DEF TodoOK
  <2>2. fleet.peers[l] \in Seq(Members)
    BY FleetFacts
  <2>3. m \in Members
    BY <1>1, <2>1, <2>2, SuffixTail
  <2>4. SubSeq(fleet.peers[l], i, Len(fleet.peers[l])) \in Seq(Members)
    BY <2>2, SubSeqProperties
  <2> QED BY <2>1, <2>3, <2>4
<1>3. /\ \A k \in ToSet(todo[l]) : k = m \/ k \in ToSet(todo'[l])
      /\ \A k \in Members \ {l} : todo'[k] = todo[k]
  <2>1. ASSUME NEW k \in ToSet(todo[l]), k # m
        PROVE  k \in ToSet(Tail(todo[l]))
    <3>1. PICK i \in 1 .. Len(todo[l]) : todo[l][i] = k
      BY <1>2 DEF ToSet
    <3>2. i # 1
      BY <1>1, <1>2, <2>1, <3>1, HeadTailProperties
    <3>3. i - 1 \in 1 .. Len(Tail(todo[l])) /\ Tail(todo[l])[i - 1] = todo[l][i]
      BY <1>1, <1>2, <3>1, <3>2
    <3>4. i - 1 \in DOMAIN Tail(todo[l])
      BY <1>1, <1>2, <3>3
    <3> QED BY <3>1, <3>3, <3>4 DEF ToSet
  <2>2. todo'[l] = Tail(todo[l])
    BY <1>0, <1>1
  <2> HIDE DEF m
  <2> QED BY <1>0, <1>1, <2>1, <2>2
<1>4. \/ \E answered \in {TRUE, Reliable(l, m)} : Reaches(l, m) /\ PeerRegister(m, l, answered)
      \/ Reaches(l, m) /\ PeerVerify(m, l)
      \/ (~Reaches(l, m) \/ ~Reliable(l, m)) /\ UNCHANGED <<registry, notices, joins>>
  BY DEF Register
<1> HIDE DEF m
<1>5. InPhase'
  <2>1. \A j \in joins' : phase[j.from] # "down"
    <3>1. joins' \subseteq joins \/ (Reaches(l, m) /\ joins' = joins \cup {[from |-> m, to |-> l, asked |-> TRUE]})
      BY <1>4 DEF PeerRegister, PeerVerify
    <3> QED BY <3>1 DEF OutageInv, InPhase, Reaches
  <2>2. ASSUME NEW k \in Members, phase[k] = "down", NEW p \in Members
        PROVE  registry'[k][p] = None
    <3>1. registry[k][p] = None /\ k # l
      BY <1>1, <2>2 DEF OutageInv, InPhase
    <3>2. Reaches(l, m) => k # m
      BY <2>2 DEF Reaches
    <3>3. CASE \E answered \in {TRUE, Reliable(l, m)} : Reaches(l, m) /\ PeerRegister(m, l, answered)
      <4>1. /\ \E answered \in {TRUE, Reliable(l, m)} : PeerRegister(m, l, answered)
            /\ k # m
        BY <3>2, <3>3
      <4>2. registry'[k][p] = registry[k][p] \/ <<k, p>> \in {<<m, l>>, <<l, m>>}
        BY <1>2, <4>1, RegistrationEntries DEF RegistersBoth
      <4> QED BY <3>1, <4>1, <4>2
    <3>4. CASE Reaches(l, m) /\ PeerVerify(m, l)
      BY <1>0, <1>2, <3>1, <3>2, <3>4 DEF PeerVerify, Registries
    <3> QED BY <1>4, <3>1, <3>3, <3>4
  <2> QED BY <1>1, <2>1, <2>2 DEF OutageInv, InPhase
<1>6. ASSUME NEW k \in Members, NEW p \in Members, registry'[k][p] # None
      PROVE  Accounted(k, p)'
  <2>1. ASSUME registry'[k][p] = registry[k][p], k = m /\ p = l => ~Coming(k, p)
        PROVE  Accounted(k, p)'
    <3>1. Accounted(k, p)
      BY <1>6, <2>1 DEF OutageInv
    <3>2. Coming(k, p) => phase'[p] = "joining" /\ k \in ToSet(todo'[p])
      <4>1. CASE p = l
        BY <1>1, <1>3, <2>1, <4>1 DEF Coming
      <4>2. CASE p # l
        BY <1>1, <1>3, <4>2 DEF Coming
      <4> QED BY <4>1, <4>2
    <3> QED BY <1>1, <2>1, <3>1, <3>2, KeptAccount DEF Asked
  <2>2. ASSUME registry'[k][p].seen = 0, <<k, p>> \in {<<m, l>>, <<l, m>>}, Reaches(l, m)
        PROVE  Accounted(k, p)'
    <3>1. phase'[p] # "down"
      BY <1>1, <2>2 DEF Reaches
    <3> QED BY <2>2, <3>1, FreshAccount
  <2>3. CASE \E answered \in {TRUE, Reliable(l, m)} : Reaches(l, m) /\ PeerRegister(m, l, answered)
    <3>1. Reaches(l, m)
      BY <2>3
    <3>2. \E answered \in {TRUE, Reliable(l, m)} : PeerRegister(m, l, answered)
      BY <2>3
    <3>3. CASE registry'[k][p] = registry[k][p] /\ (k = m /\ p = l => ~Reliable(l, m))
      <4>1. ~Reliable(l, m) => ~Coming(m, l)
        BY DEF Coming
      <4> QED BY <2>1, <3>3, <4>1
    <3>4. CASE registry'[k][p].seen = 0 /\ <<k, p>> \in {<<m, l>>, <<l, m>>}
      BY <2>2, <3>1, <3>4
    <3>5. RegistersBoth(l, m, k, p)
      BY <1>2, <3>2, RegistrationEntries
    <3> QED BY <3>3, <3>4, <3>5 DEF RegistersBoth
  <2>4. CASE Reaches(l, m) /\ PeerVerify(m, l)
    <3>1. registry' = [registry EXCEPT ![m][l] = Upserted(@)]
      BY <2>4 DEF PeerVerify
    <3>2. CASE k = m /\ p = l
      <4>1. registry[m][l] \in PeerInfo \cup {None} /\ registry'[k][p] = Upserted(registry[m][l])
        BY <1>0, <1>2, <3>1, <3>2 DEF Registries
      <4>2. Fresh.seen = 0 /\ \A info \in PeerInfo : [info EXCEPT !.seen = 0].seen = 0
        BY DEF Fresh, PeerInfo
      <4>3. registry'[k][p].seen = 0
        BY <4>1, <4>2 DEF Upserted
      <4> QED BY <2>2, <2>4, <3>2, <4>3
    <3>3. CASE ~(k = m /\ p = l)
      <4>1. registry'[k][p] = registry[k][p]
        BY <1>0, <1>2, <3>1, <3>3 DEF Registries
      <4> QED BY <2>1, <3>3, <4>1
    <3> QED BY <3>2, <3>3
  <2>5. CASE (~Reaches(l, m) \/ ~Reliable(l, m)) /\ UNCHANGED <<registry, notices, joins>>
    <3>1. ASSUME k = m, p = l
          PROVE  ~Coming(k, p)
      <4>1. phase[m] # "down"
        BY <1>6, <2>5, <3>1 DEF OutageInv, InPhase
      <4>2. Reliable(l, m) => Reaches(l, m)
        BY <1>0, <4>1 DEF Reliable, Reaches
      <4> QED BY <2>5, <3>1, <4>2 DEF Coming
    <3> QED BY <2>1, <2>5, <3>1
  <2> QED BY <1>4, <2>3, <2>4, <2>5
<1> QED BY <1>5, <1>6

(* A keeper's way to its loops, and steps of the scheduled loop. *)
LEMMA QuietOutage ==
  ASSUME TypeOK, TypeOK', Members' = Members, OutageInv,
         \/ \E l \in Members : FallAsleep(l) \/ Run(l) \/ CycleOnTime(l) \/ CycleEarly(l)
         \/ UNCHANGED vars
  PROVE  InPhase' /\ \A k, p \in Members : registry'[k][p] # None => Accounted(k, p)'
<1>0. phase \in [Members -> Phase] /\ joins \subseteq Joining
  BY TypeFacts
<1>1. UNCHANGED <<fleet, todo, registry, pass, joins, cut, away>>
  BY DEF FallAsleep, Run, CycleOnTime, CycleEarly, vars
<1>2. \A k \in Members :
        /\ phase'[k] = "down" <=> phase[k] = "down"
        /\ phase[k] = "running" => phase'[k] = "running"
        /\ phase[k] = "joining" /\ todo[k] # <<>> => phase'[k] = "joining"
  BY <1>0 DEF FallAsleep, Run, CycleOnTime, CycleEarly, vars
<1>3. InPhase'
  <2>1. \A j \in joins : j.from \in Members
    BY <1>0 DEF Joining
  <2> QED BY <1>1, <1>2, <2>1 DEF OutageInv, InPhase
<1>4. ASSUME NEW k \in Members, NEW p \in Members, registry'[k][p] # None
      PROVE  Accounted(k, p)'
  <2>1. Accounted(k, p)
    BY <1>1, <1>4 DEF OutageInv
  <2>2. Coming(k, p) => phase'[p] = "joining" /\ k \in ToSet(todo'[p])
    <3>1. k \in ToSet(todo[p]) => todo[p] # <<>>
      BY DEF ToSet
    <3> QED BY <1>1, <1>2, <3>1 DEF Coming
  <2> QED BY <1>1, <1>2, <2>1, <2>2, KeptAccount DEF Asked
<1> QED BY <1>3, <1>4

LEMMA NotifyOutage ==
  ASSUME TypeOK, TypeOK', Members' = Members, OutageInv, NEW n \in notices, Notify(n)
  PROVE  InPhase' /\ \A k, p \in Members : registry'[k][p] # None => Accounted(k, p)'
<1>1. UNCHANGED <<fleet, phase, todo, registry, pass, cut, away>>
  BY DEF Notify
<1>2. \/ joins' = joins
      \/ /\ joins' = joins \cup {[from |-> n.to, to |-> n.about, asked |-> FALSE]}
         /\ phase[n.to] # "down"
  BY DEF Notify, Reaches
<1>3. InPhase'
  BY <1>1, <1>2 DEF OutageInv, InPhase
<1>4. ASSUME NEW k \in Members, NEW p \in Members, registry'[k][p] # None
      PROVE  Accounted(k, p)'
  <2>1. Accounted(k, p)
    BY <1>1, <1>4 DEF OutageInv
  <2> QED BY <1>1, <2>1, KeptAccount DEF Coming, Asked
<1> QED BY <1>3, <1>4

LEMMA JoinOutage ==
  ASSUME TypeOK, TypeOK', Members' = Members, OutageInv, NEW j \in joins, Join(j)
  PROVE  InPhase' /\ \A k, p \in Members : registry'[k][p] # None => Accounted(k, p)'
<1>0. registry \in Registries /\ j.from \in Members /\ j.to \in Members
  BY TypeFacts DEF Joining
<1>1. UNCHANGED <<fleet, phase, todo, pass, cut, away>> /\ joins' \subseteq joins
  BY DEF Join
<1>2. phase[j.from] # "down"
  BY DEF OutageInv, InPhase
<1>3. \/ registry' = registry
      \/ registry' = [registry EXCEPT ![j.to][j.from] = Fresh] /\ phase[j.to] # "down"
  BY DEF Join, Registered, Reaches
<1>4. \A k, p \in Members :
        registry'[k][p] = registry[k][p]
          \/ (k = j.to /\ p = j.from /\ registry'[k][p] = Fresh /\ phase[k] # "down")
  BY <1>0, <1>3 DEF Registries
<1>5. InPhase'
  <2>1. \A i \in joins' : phase[i.from] # "down"
    BY <1>1 DEF OutageInv, InPhase
  <2>2. ASSUME NEW k \in Members, phase[k] = "down", NEW p \in Members
        PROVE  registry'[k][p] = None
    <3>1. registry[k][p] = None
      BY <2>2 DEF OutageInv, InPhase
    <3> QED BY <1>4, <2>2, <3>1
  <2> QED BY <1>1, <2>1, <2>2 DEF OutageInv, InPhase
<1>6. ASSUME NEW k \in Members, NEW p \in Members, registry'[k][p] # None
      PROVE  Accounted(k, p)'
  <2>1. CASE registry'[k][p] = registry[k][p]
    <3>1. Accounted(k, p)
      BY <1>6, <2>1 DEF OutageInv
    <3> QED BY <1>1, <2>1, <3>1, KeptAccount DEF Coming, Asked
  <2>2. CASE k = j.to /\ p = j.from /\ registry'[k][p] = Fresh
    <3>1. registry'[k][p].seen = 0 /\ phase'[p] # "down"
      BY <1>1, <1>2, <2>2 DEF Fresh
    <3> QED BY <3>1, FreshAccount
  <2> QED BY <1>4, <2>1, <2>2
<1> QED BY <1>5, <1>6

(* A pass of the sync loop: whom it reaches it has seen. *)
LEMMA SyncOutage ==
  ASSUME TypeOK, TypeOK', Members' = Members, OutageInv, NEW l \in Members,
         SyncBegin(l) \/ (\E q \in Members : SyncPoll(l, q)) \/ SyncEnd(l)
  PROVE  InPhase' /\ \A k, p \in Members : registry'[k][p] # None => Accounted(k, p)'
<1>0. /\ registry \in Registries /\ pass \in [Members -> Pass] /\ cut \subseteq fleet.weak
      /\ UNCHANGED <<fleet, phase, todo, joins, cut, away>>
  BY TypeFacts DEF SyncBegin, SyncPoll, SyncEnd
<1>1. phase[l] = "running"
  <2>1. SyncBegin(l) \/ pass[l].pc = "polling"
    BY DEF SyncPoll, SyncEnd
  <2> QED BY <2>1 DEF SyncBegin, OutageInv, InPhase
<1>2. \A k \in Members \ {l} : pass'[k] = pass[k] /\ registry'[k] = registry[k]
  BY <1>0 DEF SyncBegin, SyncPoll, SyncEnd, Registries
<1>3. pass'[l].pc = "done" => pass'[l].left = {}
  <2>1. SyncBegin(l) => pass'[l].pc = "polling"
    BY <1>0 DEF SyncBegin
  <2>2. ASSUME NEW q \in Members, SyncPoll(l, q)
        PROVE  pass'[l].pc = "polling"
    BY <1>0, <2>2 DEF SyncPoll, Pass
  <2>3. SyncEnd(l) => pass'[l].left = {}
    BY <1>0 DEF SyncEnd
  <2> QED BY <2>1, <2>2, <2>3
<1>4. InPhase'
  BY <1>0, <1>1, <1>2, <1>3 DEF OutageInv, InPhase
<1>5. ASSUME NEW k \in Members, NEW p \in Members, registry'[k][p] = registry[k][p],
             registry'[k][p] # None, Asked(k, p)' => Asked(k, p)
      PROVE  Accounted(k, p)'
  <2>1. Accounted(k, p)
    BY <1>5 DEF OutageInv
  <2> QED BY <1>0, <1>5, <2>1, KeptAccount DEF Coming
<1>6. ASSUME NEW k \in Members \ {l}, NEW p \in Members, registry'[k][p] # None
      PROVE  Accounted(k, p)'
  BY <1>2, <1>5, <1>6 DEF Asked
<1>7. ASSUME NEW p \in Members, registry'[l][p] # None
      PROVE  Accounted(l, p)'
  <2>1. CASE SyncBegin(l)
    <3>1. registry' = registry /\ pass'[l].left = Known(l)
      BY <1>0, <2>1 DEF SyncBegin
    <3>2. p \in pass'[l].left
      BY <1>7, <3>1 DEF Known
    <3> QED BY <1>5, <1>7, <3>1, <3>2 DEF Asked
  <2>2. ASSUME NEW q \in Members, SyncPoll(l, q)
        PROVE  Accounted(l, p)'
    <3>1. pass[l].pc = "polling" /\ pass'[l].pc = "polling" /\ pass'[l].left = pass[l].left \ {q}
      BY <1>0, <2>2 DEF SyncPoll, Pass
    <3>2. ASSUME registry[l][q] # None, Reaches(l, q),
                 \E status \in {Status(q), IF Reliable(l, q) THEN Status(q) ELSE None} :
                   registry' = [registry EXCEPT ![l][q] = Polled(@, status)]
          PROVE  Accounted(l, p)'
      <4>1. CASE p = q
        <5>1. registry'[l][p].seen = 0
          BY <1>0, <3>2, <4>1 DEF Registries, Polled
        <5>2. phase'[p] # "down"
          BY <1>0, <3>2, <4>1 DEF Reaches
        <5> QED BY <5>1, <5>2, FreshAccount
      <4>2. CASE p # q
        <5>1. registry'[l][p] = registry[l][p]
          BY <1>0, <3>2, <4>2 DEF Registries
        <5> QED BY <1>5, <1>7, <3>1, <4>2, <5>1 DEF Asked
      <4> QED BY <4>1, <4>2
    <3>3. ASSUME ~Reaches(l, q) \/ registry[l][q] = None, registry' = registry
          PROVE  Accounted(l, p)'
      <4>1. CASE p = q
        <5>1. ~Reaches(l, q) /\ Accounted(l, q)
          BY <1>7, <3>3, <4>1 DEF OutageInv
        <5>2. ~Sure(l, q)
          BY <1>0, <5>1 DEF Sure, Reaches, Reliable
        <5>3. ~Reaches(l, q)'
          BY <1>0, <5>1 DEF Reaches
        <5> QED BY <1>0, <3>3, <4>1, <5>1, <5>2, <5>3 DEF Accounted, Announces, Reliable
      <4>2. CASE p # q
        BY <1>5, <1>7, <3>1, <3>3, <4>2 DEF Asked
      <4> QED BY <4>1, <4>2
    <3> QED BY <2>2, <3>2, <3>3 DEF SyncPoll
  <2>3. CASE SyncEnd(l)
    <3>1. Asked(l, p)
      BY <2>3 DEF SyncEnd, Asked
    <3>2. registry'[l] = Kept(registry[l])
      BY <1>0, <2>3 DEF SyncEnd, Registries
    <3>3. registry'[l][p] = registry[l][p]
      BY <1>0, <1>7, <3>2 DEF Kept, Registries
    <3> QED BY <1>5, <1>7, <3>1, <3>3
  <2> QED BY <2>1, <2>2, <2>3
<1> QED BY <1>4, <1>6, <1>7

LEMMA CrashOutage ==
  ASSUME TypeOK, TypeOK', [Next]_vars, Members' = Members, OutageInv,
         NEW l \in Members, Crash(l)
  PROVE  InPhase' /\ \A k, p \in Members : registry'[k][p] # None => Accounted(k, p)'
<1>0. /\ phase \in [Members -> Phase] /\ pass \in [Members -> Pass] /\ registry \in Registries
      /\ DOMAIN todo = Members /\ joins \subseteq Joining
  BY TypeFacts DEF TodoOK
<1>1. /\ \A k \in Members : fleet'.peers[k] = fleet.peers[k]
      /\ fleet'.weak = fleet.weak
      /\ fleet.crashes \in Nat
      /\ fleet.crashes > 0 /\ fleet'.crashes = fleet.crashes - 1
  BY SameLinks
<1>2. /\ phase'[l] = "down" /\ pass'[l] = Due /\ \A p \in Members : registry'[l][p] = None
      /\ \A k \in Members \ {l} :
           /\ phase'[k] = phase[k] /\ pass'[k] = pass[k] /\ registry'[k] = registry[k]
           /\ todo'[k] = todo[k]
      /\ joins' = {j \in joins : j.from # l}
      /\ UNCHANGED <<cut, away>>
  BY <1>0 DEF Crash, Registries, Nobody
<1>3. InPhase'
  <2>1. \A j \in joins' : j.from \in Members \ {l} /\ phase[j.from] # "down"
    BY <1>0, <1>2 DEF OutageInv, InPhase, Joining
  <2>2. Due.pc = "due"
    BY DEF Due
  <2> QED BY <1>2, <2>1, <2>2 DEF OutageInv, InPhase
<1>4. ASSUME NEW k \in Members, NEW p \in Members, registry'[k][p] # None
      PROVE  Accounted(k, p)'
  <2>1. k # l
    BY <1>2, <1>4
  <2>2. registry'[k][p] = registry[k][p] /\ pass'[k] = pass[k] /\ Accounted(k, p)
    BY <1>2, <1>4, <2>1 DEF OutageInv
  <2>3. fleet.crashes # 0 /\ ~Sure(k, p)
    BY <1>1 DEF Sure
  <2>4. registry[k][p].seen <= away[k][p] + 1
    BY <2>2, <2>3 DEF Accounted
  <2>5. Announces(p, k)' <=> Announces(p, k)
    BY <1>1 DEF Announces, Reliable
  <2>6. CASE p # l
    <3>1. phase'[p] = phase[p] /\ todo'[p] = todo[p]
      BY <1>2, <2>6
    <3>2. phase'[p] = "down" => Announces(p, k)'
      BY <2>2, <2>3, <2>5, <3>1 DEF Accounted
    <3>3. ASSUME Asked(k, p)', Reaches(k, p)'
          PROVE  registry'[k][p].seen = 0 \/ Coming(k, p)'
      <4>1. Asked(k, p) /\ Reaches(k, p)
        BY <1>2, <2>2, <3>1, <3>3 DEF Asked, Reaches
      <4>2. registry[k][p].seen = 0 \/ Coming(k, p)
        BY <2>2, <2>3, <4>1 DEF Accounted
      <4> QED BY <1>1, <2>2, <3>1, <4>2 DEF Coming, Reliable
    <3> QED BY <1>2, <2>2, <2>4, <3>2, <3>3 DEF Accounted
  <2>7. CASE p = l
    <3>1. Announces(p, k) \/ fleet.crashes <= 1
      BY <2>1, <2>7 DEF OutageInv, Noticed
    <3>2. Announces(p, k)' \/ fleet'.crashes = 0
      BY <1>1, <2>5, <3>1
    <3>3. ~Reaches(k, p)'
      BY <1>2, <2>7 DEF Reaches
    <3> QED BY <1>2, <2>2, <2>4, <3>2, <3>3 DEF Accounted
  <2> QED BY <2>6, <2>7
<1> QED BY <1>3, <1>4

(* Time passes: whom a keeper has not seen in this tick it has not reached, *)
(* or was not yet polling.                                                  *)
LEMMA TickOutage ==
  ASSUME TypeOK, TypeOK', Members' = Members, OutageInv, Tick
  PROVE  InPhase' /\ \A k, p \in Members : registry'[k][p] # None => Accounted(k, p)'
<1>0. registry \in Registries /\ phase \in [Members -> Phase] /\ away \in [Members -> [Members -> Age(SixHours)]]
  BY TypeFacts
<1>1. /\ UNCHANGED <<fleet, phase, todo, joins>>
      /\ \A k \in Members : pass'[k] = Due /\ ~Hurries(k)
  BY DEF Tick
<1>2. \A k, p \in Members :
        registry'[k][p] = IF registry[k][p] = None THEN None
                          ELSE [seen |-> Older(registry[k][p].seen, SixHours + 1),
                                push |-> Older(registry[k][p].push, FailoverAfter + 2)]
  BY DEF Tick
<1>3. InPhase'
  <2>1. \A k, p \in Members : registry[k][p] = None => registry'[k][p] = None
    BY <1>2
  <2> QED BY <1>1, <2>1 DEF OutageInv, InPhase, Due
<1>4. ASSUME NEW k \in Members, NEW p \in Members, registry'[k][p] # None
      PROVE  Accounted(k, p)'
  <2>1. registry[k][p] # None
    BY <1>2, <1>4
  <2>2. Accounted(k, p) /\ phase[k] # "down"
    BY <2>1 DEF OutageInv, InPhase
  <2>3. ~Asked(k, p)'
    BY <1>1 DEF Asked, Due
  <2>4. phase'[p] = "down" => (Announces(p, k) \/ fleet.crashes = 0)'
    BY <1>1, <2>2 DEF Accounted, Announces, Reliable
  <2>5. CASE Sure(k, p)
    <3>1. Sure(k, p)'
      BY <1>1, <2>5 DEF Sure, Reliable
    <3> QED BY <2>3, <2>4, <3>1 DEF Accounted
  <2>6. CASE ~Sure(k, p)
    <3> DEFINE s == registry[k][p].seen
               a == away[k][p]
               t == registry'[k][p].seen
               b == away'[k][p]
    <3>1. s \in 0 .. SixHours + 1 /\ a \in 0 .. SixHours /\ SixHours \in Nat
      <4>1. registry[k][p] \in PeerInfo
        BY <1>0, <2>1 DEF Registries
      <4> QED BY <1>0, <4>1, MeshAssumption DEF PeerInfo, Age
    <3>2. s <= a + 1
      BY <2>2, <2>6 DEF Accounted
    <3>3. t = IF s < SixHours + 1 THEN s + 1 ELSE SixHours + 1
      <4>1. registry'[k][p] = [seen |-> Older(registry[k][p].seen, SixHours + 1),
                               push |-> Older(registry[k][p].push, FailoverAfter + 2)]
        BY <1>2, <2>1
      <4>2. t = Older(s, SixHours + 1)
        BY <4>1
      <4>3. s \in Age(SixHours + 1) /\ s # None /\ SixHours + 1 \in Nat
        BY <3>1, MeshAssumption DEF Age
      <4> HIDE DEF s, t
      <4> QED BY <4>2, <4>3, OlderType
    <3>4. p \in Known(k)
      BY <2>1 DEF Known
    <3>5. CASE phase[k] = "waiting" \/ ~Reaches(k, p)
      <4>1. b = Min({a + 1, SixHours})
        BY <3>4, <3>5 DEF Tick
      <4> HIDE DEF a, b, s, t
      <4>2. b = IF a + 1 <= SixHours THEN a + 1 ELSE SixHours
        BY <3>1, <4>1, MinOfTwo
      <4>3. t <= b + 1
        BY <3>1, <3>2, <3>3, <4>2
      <4> QED BY <2>3, <2>4, <4>3 DEF Accounted, b, t
    <3>6. CASE ~(phase[k] = "waiting" \/ ~Reaches(k, p))
      <4>1. b = 0
        BY <3>4, <3>6 DEF Tick
      <4>2. phase[k] = "running" /\ pass[k].pc = "done"
        BY <1>0, <1>1, <2>2, <3>6 DEF Hurries, Phase
      <4>3. Asked(k, p)
        BY <4>2 DEF Asked, OutageInv, InPhase
      <4>4. ~Coming(k, p)
        BY <1>1 DEF Coming, Hurries
      <4>5. s = 0
        BY <2>2, <2>6, <3>6, <4>3, <4>4 DEF Accounted
      <4> HIDE DEF a, b, s, t
      <4>6. t <= b + 1
        BY <3>1, <3>3, <4>1, <4>5
      <4> QED BY <2>3, <2>4, <4>6 DEF Accounted, b, t
    <3> QED BY <3>5, <3>6
  <2> QED BY <2>5, <2>6
<1> QED BY <1>3, <1>4

LEMMA NextOutage ==
  ASSUME TypeOK, OutageInv, [Next]_vars
  PROVE  OutageInv'
<1>1. TypeOK' /\ Members' = Members /\ Noticed'
  BY NextType, SameFleet, NoticedStays DEF OutageInv
<1> DEFINE Good == InPhase' /\ \A k, p \in Members : registry'[k][p] # None => Accounted(k, p)'
<1>2. ASSUME NEW k \in Members, Start(k) \/ Keep(k) \/ Crash(k)
      PROVE  Good
  <2>1. CASE Start(k)
    BY <1>1, <2>1, StartOutage
  <2>2. CASE Register(k)
    BY <1>1, <2>2, RegisterOutage
  <2>3. CASE FallAsleep(k) \/ Run(k) \/ CycleOnTime(k) \/ CycleEarly(k)
    BY <1>1, <2>3, QuietOutage
  <2>4. CASE SyncBegin(k) \/ (\E p \in Members : SyncPoll(k, p)) \/ SyncEnd(k)
    BY <1>1, <2>4, SyncOutage
  <2>5. CASE Crash(k)
    BY <1>1, <2>5, CrashOutage
  <2> HIDE DEF Good
  <2> QED BY <1>2, <2>1, <2>2, <2>3, <2>4, <2>5 DEF Keep
<1>3. ASSUME NEW n \in notices, Notify(n)
      PROVE  Good
  BY <1>1, <1>3, NotifyOutage
<1>4. ASSUME NEW j \in joins, Join(j)
      PROVE  Good
  BY <1>1, <1>4, JoinOutage
<1>5. ASSUME Tick
      PROVE  Good
  BY <1>1, <1>5, TickOutage
<1>6. ASSUME UNCHANGED vars
      PROVE  Good
  BY <1>1, <1>6, QuietOutage
<1>7. Good
  <2> HIDE DEF Good
  <2> QED BY <1>2, <1>3, <1>4, <1>5, <1>6 DEF Next
<1> QED BY <1>1, <1>7 DEF OutageInv

(* An entry that a step removes from a registry, but for a crash of the     *)
(* keeper, is one that a pass of its sync loop finds silent.                *)
LEMMA EntryStays ==
  ASSUME TypeOK, TypeOK', Members' = Members, [Next]_vars,
         NEW k \in Members, NEW p \in Members, registry[k][p] # None, registry'[k][p] = None
  PROVE  Crash(k) \/ (SyncEnd(k) /\ Silent(registry[k][p]))
<1>0. registry \in Registries /\ registry[k][p] \in PeerInfo
      /\ cycle \in [Members -> Age(UpdateInterval) \cup {None}]
      /\ joins \subseteq Joining
  BY TypeFacts DEF Registries
<1>1. ASSUME NEW l \in Members, Register(l) PROVE FALSE
  <2> DEFINE m == Head(todo[l])
  <2>1. m \in Members
    <3>1. PICK i \in 1 .. Len(fleet.peers[l]) + 1 :
            todo[l] = SubSeq(fleet.peers[l], i, Len(fleet.peers[l]))
      BY TypeFacts DEF TodoOK
    <3>2. fleet.peers[l] \in Seq(Members)
      BY FleetFacts
    <3> QED BY <1>1, <3>1, <3>2, SuffixTail DEF Register
  <2>2. \/ \E answered \in {TRUE, Reliable(l, m)} : PeerRegister(m, l, answered)
        \/ registry' = [registry EXCEPT ![m][l] = Upserted(@)]
        \/ registry' = registry
    BY <1>1 DEF Register, PeerVerify
  <2> HIDE DEF m
  <2>3. CASE \E answered \in {TRUE, Reliable(l, m)} : PeerRegister(m, l, answered)
    <3>1. RegistersBoth(l, m, k, p)
      BY <2>1, <2>3, RegistrationEntries
    <3> QED BY <3>1, NoneIsNoPeer DEF RegistersBoth
  <2>4. CASE registry' = [registry EXCEPT ![m][l] = Upserted(@)]
    <3>1. Upserted(registry[m][l]) # None
      BY <1>0, <2>1, EntryTypes, NoneIsNoPeer DEF Registries
    <3> QED BY <1>0, <2>1, <2>4, <3>1 DEF Registries
  <2> QED BY <2>2, <2>3, <2>4
<1>2. ASSUME NEW l \in Members, NEW q \in Members, SyncPoll(l, q) PROVE FALSE
  <2>1. PICK status \in {Status(q), IF Reliable(l, q) THEN Status(q) ELSE None} :
          registry[l][q] # None /\ registry' = [registry EXCEPT ![l][q] = Polled(@, status)]
    BY <1>2 DEF SyncPoll
  <2>2. status \in Age(UpdateInterval) \cup {None} /\ registry[l][q] \in PeerInfo
    BY <1>0, <2>1 DEF Status, Registries
  <2>3. Polled(registry[l][q], status) # None
    BY <2>2, EntryTypes, NoneIsNoPeer
  <2> QED BY <1>0, <2>1, <2>3 DEF Registries
<1>3. ASSUME NEW j \in joins, Join(j) PROVE FALSE
  <2>1. j.from \in Members /\ j.to \in Members /\ Fresh # None
    BY <1>0, EntryTypes, NoneIsNoPeer DEF Joining
  <2>2. registry' = registry \/ registry' = [registry EXCEPT ![j.to][j.from] = Fresh]
    BY <1>3 DEF Join, Registered
  <2> QED BY <1>0, <2>1, <2>2 DEF Registries
<1>4. CASE Tick
  <2>1. registry'[k][p] = [seen |-> Older(registry[k][p].seen, SixHours + 1),
                           push |-> Older(registry[k][p].push, FailoverAfter + 2)]
    BY <1>4 DEF Tick
  <2>2. registry'[k][p] \in PeerInfo
    BY <1>0, <2>1, AgedType
  <2> QED BY <2>2, NoneIsNoPeer
<1>5. ASSUME NEW l \in Members, Crash(l)
      PROVE  Crash(k)
  BY <1>0, <1>5 DEF Crash, Registries
<1>6. ASSUME NEW l \in Members, SyncEnd(l)
      PROVE  SyncEnd(k) /\ Silent(registry[k][p])
  <2>1. registry' = [registry EXCEPT ![l] = Kept(registry[l])]
    BY <1>6 DEF SyncEnd
  <2>2. CASE l # k
    BY <1>0, <2>1, <2>2 DEF Registries
  <2>3. CASE l = k
    <3>1. Kept(registry[k])[p] = None
      BY <1>0, <2>1, <2>3 DEF Registries
    <3>2. p \in DOMAIN registry[k]
      BY <1>0 DEF Registries
    <3>3. Silent(registry[k][p])
      BY <3>1, <3>2 DEF Kept
    <3> QED BY <1>6, <2>3, <3>3
  <2> QED BY <2>2, <2>3
<1>7. ASSUME NEW l \in Members,
             Start(l) \/ FallAsleep(l) \/ Run(l) \/ SyncBegin(l) \/ CycleOnTime(l) \/ CycleEarly(l)
      PROVE  FALSE
  BY <1>7 DEF Start, FallAsleep, Run, SyncBegin, CycleOnTime, CycleEarly
<1>8. ASSUME NEW n \in notices, Notify(n) PROVE FALSE
  BY <1>8 DEF Notify
<1>9. CASE UNCHANGED vars
  BY <1>9 DEF vars
<1> QED BY <1>1, <1>2, <1>3, <1>4, <1>5, <1>6, <1>7, <1>8, <1>9 DEF Next, Keep

(* A keeper that comes back says so to those that may know it: it is        *)
(* configured with them and its requests reach them.  Only where keepers    *)
(* crash at most once, and can be reached when they are up, is there no     *)
(* need to.                                                                 *)
ReturnsAreNoticed ==
  \A f \in Fleets : \A k, p \in DOMAIN f.peers :
    k # p => \/ k \in ToSet(f.peers[p]) /\ <<p, k>> \notin f.weak
             \/ f.crashes <= 1 /\ <<k, p>> \notin f.weak

(* In such fleets a peer leaves a registry only after six hours without     *)
(* contact, for every fleet and length of the interval, with any crashes    *)
(* and restarts, and with any loss of requests on the other links: polls    *)
(* and registrations leave no gap that the eviction could mistake for it.   *)
THEOREM EvictionNeedsOutage ==
  ASSUME ReturnsAreNoticed
  PROVE  Spec => EvictedOnlyAfterOutage
<1>1. Init => TypeOK /\ OutageInv
  <2> SUFFICES ASSUME Init PROVE TypeOK /\ OutageInv
    OBVIOUS
  <2>1. /\ \A k \in Members : phase[k] = "down" /\ pass[k] = Due
                              /\ \A p \in Members : registry[k][p] = None
        /\ joins = {} /\ fleet \in Fleets
    BY DEF Init, Nobody
  <2>2. Noticed
    BY <2>1 DEF ReturnsAreNoticed, Noticed, Announces, Reliable, Members
  <2>3. InPhase
    BY <2>1 DEF InPhase, Due
  <2> QED BY <2>1, <2>2, <2>3, InitType DEF OutageInv
<1>2. TypeOK /\ OutageInv /\ [Next]_vars => TypeOK' /\ OutageInv'
  BY NextType, NextOutage
<1>3. TypeOK /\ OutageInv /\ [Next]_vars
        => [\A k, p \in Members :
              registry[k][p] # None /\ registry'[k][p] = None /\ phase'[k] # "down"
                => away[k][p] >= SixHours]_vars
  <2> SUFFICES ASSUME TypeOK, OutageInv, [Next]_vars, NEW k \in Members, NEW p \in Members,
                      registry[k][p] # None, registry'[k][p] = None, phase'[k] # "down"
               PROVE  away[k][p] >= SixHours
    OBVIOUS
  <2>1. TypeOK' /\ Members' = Members
    BY NextType, SameFleet
  <2>2. Crash(k) \/ (SyncEnd(k) /\ Silent(registry[k][p]))
    BY <2>1, EntryStays
  <2>3. ~Crash(k)
    BY TypeFacts DEF Crash
  <2>4. registry[k][p].seen > SixHours /\ Asked(k, p)
    BY <2>2, <2>3 DEF Silent, SyncEnd, Asked
  <2>5. registry[k][p].seen <= away[k][p] + 1
    BY <2>4 DEF OutageInv, Accounted
  <2>6. registry[k][p].seen \in Nat /\ away[k][p] \in Nat /\ SixHours \in Nat
    <3>1. registry[k][p] \in PeerInfo
      BY TypeFacts DEF Registries
    <3> QED BY <3>1, TypeFacts, MeshAssumption DEF PeerInfo, Age
  <2> QED BY <2>4, <2>5, <2>6
<1>4. Spec => [](TypeOK /\ OutageInv)
  BY <1>1, <1>2, PTL DEF Spec
<1> QED BY <1>3, <1>4, PTL DEF Spec, EvictedOnlyAfterOutage
=============================================================================
