------------------------ MODULE SpokeVaultOracle_proofs ------------------------
(***************************************************************************)
(* What SpokeVaultOracle guarantees for every word size, every set of      *)
(* accounts, values and prices.  The inductive invariant adds to the type  *)
(* invariant that the two copies the contract keeps of its latest value    *)
(* and time agree (Coherent); the properties of the history rest on it.    *)
(***************************************************************************)
EXTENDS SpokeVaultOracle, SequenceTheorems, TLAPS

(* The words the storage is made of. *)
USE DEF Word, Round

(* update() yields a well-formed oracle whose only new round is the next. *)
LEMMA UpdatedFields ==
  ASSUME NEW o \in OracleState, NEW sender, NEW v \in Word, NEW p, NEW time \in Nat,
         CanUpdate(o, sender, v, p),
         NEW u, u = Updated(o, v, time)
  PROVE  /\ u \in OracleState
         /\ o.roundId + 1 \in Round
         /\ u.roundId = o.roundId + 1
         /\ u.storedTotalAssets = v
         /\ u.latestTimestamp = time
         /\ u.rawAnswers = [o.rawAnswers EXCEPT ![o.roundId + 1] = v]
         /\ u.timestamps = [o.timestamps EXCEPT ![o.roundId + 1] = time]
         /\ u.owner = o.owner
         /\ u.pendingOwner = o.pendingOwner
<1>1. o.roundId + 1 \in Round /\ o.roundId \in Nat
  <2>1. o.roundId \in Round
    BY DEF OracleState
  <2>2. o.roundId < MaxRound
    BY Zenon DEF CanUpdate
  <2> QED BY <2>1, <2>2, WidthAssumption
<1>2. /\ o.rawAnswers \in [Round -> Word]
      /\ o.timestamps \in [Round -> Nat]
  BY DEF OracleState
<1>3. /\ [o.rawAnswers EXCEPT ![o.roundId + 1] = v] \in [Round -> Word]
      /\ [o.timestamps EXCEPT ![o.roundId + 1] = time] \in [Round -> Nat]
  BY <1>1, <1>2
<1>4. u = [o EXCEPT !.roundId = o.roundId + 1,
                    !.storedTotalAssets = v,
                    !.latestTimestamp = time,
                    !.rawAnswers = [o.rawAnswers EXCEPT ![o.roundId + 1] = v],
                    !.timestamps = [o.timestamps EXCEPT ![o.roundId + 1] = time]]
  BY DEF Updated, OracleState
<1> QED
  BY <1>1, <1>3, <1>4 DEF OracleState

(* The same of a step of the specification. *)
LEMMA UpdateStep ==
  ASSUME TypeOK, NEW sender \in Address, NEW v \in Value, update(sender, v)
  PROVE  /\ CanUpdate(oracle, sender, v, price)
         /\ v \in Word
         /\ now \in Nat
         /\ now' = now
         /\ nominator' = nominator
         /\ inForce' = [inForce EXCEPT ![oracle.roundId + 1] = oracle.maxChangeBps]
         /\ oracle' \in OracleState
         /\ oracle.roundId + 1 \in Round
         /\ oracle'.roundId = oracle.roundId + 1
         /\ oracle'.storedTotalAssets = v
         /\ oracle'.latestTimestamp = now
         /\ oracle'.rawAnswers = [oracle.rawAnswers EXCEPT ![oracle.roundId + 1] = v]
         /\ oracle'.timestamps = [oracle.timestamps EXCEPT ![oracle.roundId + 1] = now]
         /\ oracle'.owner = oracle.owner
         /\ oracle'.pendingOwner = oracle.pendingOwner
<1>1. /\ CanUpdate(oracle, sender, v, price)
      /\ v \in Word
      /\ now \in Nat
      /\ now' = now
      /\ nominator' = nominator
      /\ inForce' = [inForce EXCEPT ![oracle.roundId + 1] = oracle.maxChangeBps]
      /\ oracle' = Updated(oracle, v, now)
      /\ oracle \in OracleState
  BY InputAssumption DEF update, TypeOK
<1> HIDE DEF Word, Round
<1> QED BY <1>1, UpdatedFields

(* The constructor leaves a well-formed oracle. *)
LEMMA DeployedOracle ==
  ASSUME NEW owner \in Address
  PROVE  Deployed(owner) \in OracleState
BY WidthAssumption DEF Deployed, OracleState

-----------------------------------------------------------------------------
(* A freshly deployed contract has the storage its types ask for. *)
LEMMA InitType == Init => TypeOK
BY DeployedOracle, WidthAssumption, InputAssumption DEF Init, TypeOK

(* Every transaction keeps the storage within its types. *)
LEMMA NextType ==
  ASSUME TypeOK, [Next]_vars
  PROVE  TypeOK'
<1> USE DEF TypeOK
<1>1. ASSUME NEW sender \in Address, NEW updater \in Address, NEW status \in BOOLEAN,
             setWhitelisted(sender, updater, status)
      PROVE  TypeOK'
  BY <1>1 DEF setWhitelisted, OracleState
<1>2. ASSUME NEW sender \in Address, NEW bps \in Bps, setMaxChangeBps(sender, bps)
      PROVE  TypeOK'
  BY <1>2, InputAssumption DEF setMaxChangeBps, OracleState
<1>3. ASSUME NEW sender \in Address, NEW newOwner \in Address,
             transferOwnership(sender, newOwner)
      PROVE  TypeOK'
  BY <1>3 DEF transferOwnership, OracleState
<1>4. ASSUME NEW sender \in Address, acceptOwnership(sender)
      PROVE  TypeOK'
  BY <1>4 DEF acceptOwnership, OracleState
<1>5. ASSUME NEW sender \in Address, NEW totalAssets \in Value,
             update(sender, totalAssets)
      PROVE  TypeOK'
  <2>1. oracle' \in OracleState /\ oracle.roundId + 1 \in Round
    BY <1>5, UpdateStep
  <2>2. inForce' \in [Round -> Word]
    BY <1>5, <2>1, UpdateStep DEF OracleState
  <2> QED BY <1>5, <2>1, <2>2 DEF update
<1>6. CASE NextBlock
  BY <1>6, InputAssumption DEF NextBlock
<1>7. CASE RegistryMoves
  BY <1>7 DEF RegistryMoves
<1>8. CASE UNCHANGED vars
  BY <1>8 DEF vars
<1> QED
  BY <1>1, <1>2, <1>3, <1>4, <1>5, <1>6, <1>7, <1>8 DEF Next, Transaction

(* The contract's storage stays within its types: rounds within uint80,     *)
(* values and the breaker within uint256, owners among the accounts.        *)
THEOREM TypeCorrect == Spec => []TypeOK
<1>1. Init => TypeOK
  BY InitType
<1>2. TypeOK /\ [Next]_vars => TypeOK'
  BY NextType
<1> QED BY <1>1, <1>2, PTL DEF Spec

-----------------------------------------------------------------------------
(* A nomination that is open was made by the present owner: a nominee that  *)
(* accepts closes it, so nobody a former owner nominated can take over.     *)
THEOREM NominationStaysCurrent == Spec => []NominationIsCurrent
<1>1. Init => NominationIsCurrent
  BY DEF Init, Deployed, NominationIsCurrent
<1>2. ASSUME TypeOK, NominationIsCurrent, [Next]_vars
      PROVE  NominationIsCurrent'
  <2> USE <1>2 DEF NominationIsCurrent
  <2>1. ASSUME NEW sender \in Address, NEW updater \in Address, NEW status \in BOOLEAN,
               setWhitelisted(sender, updater, status)
        PROVE  NominationIsCurrent'
    BY <2>1 DEF setWhitelisted, TypeOK, OracleState
  <2>2. ASSUME NEW sender \in Address, NEW bps \in Bps, setMaxChangeBps(sender, bps)
        PROVE  NominationIsCurrent'
    BY <2>2 DEF setMaxChangeBps, TypeOK, OracleState
  <2>3. ASSUME NEW sender \in Address, NEW newOwner \in Address,
               transferOwnership(sender, newOwner)
        PROVE  NominationIsCurrent'
    BY <2>3 DEF transferOwnership, TypeOK, OracleState
  <2>4. ASSUME NEW sender \in Address, acceptOwnership(sender)
        PROVE  NominationIsCurrent'
    BY <2>4 DEF acceptOwnership, TypeOK, OracleState
  <2>5. ASSUME NEW sender \in Address, NEW totalAssets \in Value,
               update(sender, totalAssets)
        PROVE  NominationIsCurrent'
    BY <2>5, UpdateStep
  <2>6. CASE NextBlock \/ RegistryMoves \/ UNCHANGED vars
    BY <2>6 DEF NextBlock, RegistryMoves, vars
  <2> QED
    BY <2>1, <2>2, <2>3, <2>4, <2>5, <2>6 DEF Next, Transaction
<1> QED BY <1>1, <1>2, TypeCorrect, PTL DEF Spec

-----------------------------------------------------------------------------
(* The two copies of the latest value and of its time. *)
Coherent ==
  /\ oracle.storedTotalAssets = oracle.rawAnswers[oracle.roundId]
  /\ oracle.latestTimestamp = oracle.timestamps[oracle.roundId]

(* The inductive invariant behind the properties of the history. *)
HistoryInv == TypeOK /\ Coherent /\ RoundsInOrder /\ HistoryWithinBreaker

(* The published history and the two copies of its last entry. *)
HistoryVars ==
  <<oracle.roundId, oracle.rawAnswers, oracle.timestamps, oracle.storedTotalAssets,
    oracle.latestTimestamp, inForce>>

(* Only update() changes the published history: the admin functions, the    *)
(* registry and the clock leave it as it is, and time does not go back.     *)
LEMMA HistoryMoves ==
  ASSUME TypeOK, [Next]_vars
  PROVE  \/ UNCHANGED HistoryVars /\ now' \in Nat /\ now <= now'
         \/ \E sender \in Address, totalAssets \in Value : update(sender, totalAssets)
<1> USE DEF TypeOK, HistoryVars
<1>1. ASSUME NEW sender \in Address, NEW updater \in Address, NEW status \in BOOLEAN,
             setWhitelisted(sender, updater, status)
      PROVE  UNCHANGED HistoryVars /\ now' = now
  BY <1>1 DEF setWhitelisted, OracleState
<1>2. ASSUME NEW sender \in Address, NEW bps \in Bps, setMaxChangeBps(sender, bps)
      PROVE  UNCHANGED HistoryVars /\ now' = now
  BY <1>2 DEF setMaxChangeBps, OracleState
<1>3. ASSUME NEW sender \in Address, NEW newOwner \in Address,
             transferOwnership(sender, newOwner)
      PROVE  UNCHANGED HistoryVars /\ now' = now
  BY <1>3 DEF transferOwnership, OracleState
<1>4. ASSUME NEW sender \in Address, acceptOwnership(sender)
      PROVE  UNCHANGED HistoryVars /\ now' = now
  BY <1>4 DEF acceptOwnership, OracleState
<1>5. CASE NextBlock
  BY <1>5, InputAssumption DEF NextBlock
<1>6. CASE RegistryMoves \/ UNCHANGED vars
  BY <1>6, InputAssumption DEF RegistryMoves, vars
<1> QED
  BY <1>1, <1>2, <1>3, <1>4, <1>5, <1>6, InputAssumption DEF Next, Transaction

(* A freshly deployed contract satisfies it: nothing is published. *)
LEMMA InitHistory == Init => HistoryInv
<1> SUFFICES ASSUME Init PROVE HistoryInv
  OBVIOUS
<1>1. TypeOK
  BY InitType
<1>2. /\ oracle.roundId = 0
      /\ oracle.storedTotalAssets = 0
      /\ oracle.latestTimestamp = 0
      /\ oracle.rawAnswers = [r \in Round |-> 0]
      /\ oracle.timestamps = [r \in Round |-> 0]
  BY DEF Init, Deployed
<1>3. Coherent /\ RoundsInOrder /\ HistoryWithinBreaker
  BY <1>2, WidthAssumption DEF Coherent, RoundsInOrder, HistoryWithinBreaker, Published
<1> QED BY <1>1, <1>3 DEF HistoryInv

(* update() preserves it.  The old rounds keep their values; the new one is *)
(* positive by the zero check, no older than the last by the clock, and     *)
(* within the breaker of the round before because storedTotalAssets, which  *)
(* the breaker reads, is that round's value (Coherent).                     *)
LEMMA UpdateHistory ==
  ASSUME HistoryInv, NEW sender \in Address, NEW v \in Value, update(sender, v)
  PROVE  Coherent' /\ RoundsInOrder' /\ HistoryWithinBreaker'
<1> DEFINE n == oracle.roundId + 1
<1>1. /\ v \in Word
      /\ now \in Nat
      /\ CanUpdate(oracle, sender, v, price)
      /\ inForce' = [inForce EXCEPT ![n] = oracle.maxChangeBps]
      /\ now' = now
  BY UpdateStep DEF HistoryInv
<1>2. /\ n \in Round
      /\ oracle'.roundId = n
      /\ oracle'.storedTotalAssets = v
      /\ oracle'.latestTimestamp = now
      /\ oracle'.rawAnswers = [oracle.rawAnswers EXCEPT ![n] = v]
      /\ oracle'.timestamps = [oracle.timestamps EXCEPT ![n] = now]
  BY UpdateStep DEF HistoryInv
<1>3. /\ oracle.rawAnswers \in [Round -> Word]
      /\ oracle.timestamps \in [Round -> Nat]
      /\ inForce \in [Round -> Word]
      /\ oracle.roundId \in Round
      /\ oracle.maxChangeBps \in Word
      /\ oracle.storedTotalAssets \in Word
  BY DEF HistoryInv, TypeOK, OracleState
<1>4. /\ n \in 1 .. MaxRound
      /\ oracle.roundId = n - 1
      /\ \A r \in Round : r # n => /\ oracle'.rawAnswers[r] = oracle.rawAnswers[r]
                                 /\ oracle'.timestamps[r] = oracle.timestamps[r]
                                 /\ inForce'[r] = inForce[r]
      /\ oracle'.rawAnswers[n] = v
      /\ oracle'.timestamps[n] = now
      /\ inForce'[n] = oracle.maxChangeBps
  <2>1. n \in 1 .. MaxRound /\ oracle.roundId = n - 1
    <3>1. n \in Round /\ oracle.roundId \in Round /\ MaxRound \in Nat
      BY <1>2, <1>3, WidthAssumption
    <3>2. n \in Int /\ n = oracle.roundId + 1
      BY <3>1
    <3>3. n >= 1 /\ n <= MaxRound
      BY <3>1
    <3> HIDE DEF n
    <3> QED BY <3>1, <3>2, <3>3
  <2>2. \A r \in Round : r # n => oracle'.rawAnswers[r] = oracle.rawAnswers[r]
    BY <1>2, <1>3
  <2>3. \A r \in Round : r # n => oracle'.timestamps[r] = oracle.timestamps[r]
    BY <1>2, <1>3
  <2>4. \A r \in Round : r # n => inForce'[r] = inForce[r]
    BY <1>1, <1>3
  <2>5. oracle'.rawAnswers[n] = v /\ oracle'.timestamps[n] = now
    BY <1>2, <1>3
  <2>6. inForce'[n] = oracle.maxChangeBps
    BY <1>1, <1>2, <1>3
  <2> QED BY <2>1, <2>2, <2>3, <2>4, <2>5, <2>6
<1>5. Published = 1 .. (n - 1) /\ Published' = 1 .. n
  BY <1>2, <1>4 DEF Published
<1>6. /\ \A r \in 1 .. (n - 1) : oracle.rawAnswers[r] > 0 /\ oracle.timestamps[r] <= now
      /\ \A r, s \in 1 .. (n - 1) : r < s => oracle.timestamps[r] <= oracle.timestamps[s]
      /\ \A r \in Round \ 1 .. (n - 1) : oracle.rawAnswers[r] = 0 /\ oracle.timestamps[r] = 0
  BY <1>5 DEF HistoryInv, RoundsInOrder
<1>7. /\ oracle.storedTotalAssets = oracle.rawAnswers[n - 1]
      /\ oracle.latestTimestamp = oracle.timestamps[n - 1]
  BY <1>4 DEF HistoryInv, Coherent
<1> HIDE DEF n
<1>8. Coherent'
  BY <1>2, <1>4 DEF Coherent
<1>9. RoundsInOrder'
  <2>1. v > 0
    <3>1. v # 0
      BY <1>1, Zenon DEF CanUpdate
    <3> QED BY <1>1, <3>1, WidthAssumption
  <2>2. \A r \in 1 .. n : oracle'.rawAnswers[r] > 0 /\ oracle'.timestamps[r] <= now'
    BY <1>1, <1>4, <1>6, <2>1, WidthAssumption
  <2>3. \A r, s \in 1 .. n : r < s => oracle'.timestamps[r] <= oracle'.timestamps[s]
    BY <1>1, <1>4, <1>6, WidthAssumption
  <2>4. \A r \in Round \ 1 .. n : oracle'.rawAnswers[r] = 0 /\ oracle'.timestamps[r] = 0
    BY <1>4, <1>6, WidthAssumption
  <2> QED BY <1>5, <2>2, <2>3, <2>4 DEF RoundsInOrder
<1>10. HistoryWithinBreaker'
  <2> SUFFICES ASSUME NEW r \in 1 .. n, r > 1, inForce'[r] > 0
               PROVE  Distance(oracle'.rawAnswers[r], oracle'.rawAnswers[r - 1]) * BpsScale
                        <= oracle'.rawAnswers[r - 1] * inForce'[r]
    BY <1>5 DEF HistoryWithinBreaker
  <2>1. CASE r # n
    <3>1. r \in 1 .. (n - 1) /\ r \in Round /\ r - 1 \in Round /\ r - 1 # n
      BY <2>1, <1>4, WidthAssumption
    <3>2. /\ oracle'.rawAnswers[r] = oracle.rawAnswers[r]
          /\ oracle'.rawAnswers[r - 1] = oracle.rawAnswers[r - 1]
          /\ inForce'[r] = inForce[r]
      BY <1>4, <2>1, <3>1
    <3> QED BY <1>5, <3>1, <3>2 DEF HistoryInv, HistoryWithinBreaker
  <2>2. CASE r = n
    <3>1. /\ oracle'.rawAnswers[r] = v
          /\ oracle'.rawAnswers[r - 1] = oracle.storedTotalAssets
          /\ inForce'[r] = oracle.maxChangeBps
      BY <1>4, <1>7, <2>2, WidthAssumption
    <3>2. oracle.storedTotalAssets # 0
      BY <1>4, <1>6, <1>7, <2>2
    <3>3. oracle.maxChangeBps # 0
      BY <3>1
    <3>4. BreakerAllows(oracle.storedTotalAssets, v, oracle.maxChangeBps)
      BY <1>1, Zenon DEF CanUpdate
    <3>5. Distance(v, oracle.storedTotalAssets) * BpsScale
            <= oracle.storedTotalAssets * oracle.maxChangeBps
      BY <3>2, <3>3, <3>4, Zenon DEF BreakerAllows
    <3> QED BY <3>1, <3>5
  <2> QED BY <2>1, <2>2
<1> QED BY <1>8, <1>9, <1>10

(* So does every other step. *)
LEMMA NextHistory ==
  ASSUME HistoryInv, [Next]_vars
  PROVE  HistoryInv'
<1>1. TypeOK'
  BY NextType DEF HistoryInv
<1>2. CASE \E sender \in Address, totalAssets \in Value : update(sender, totalAssets)
  BY <1>1, <1>2, UpdateHistory DEF HistoryInv
<1>3. CASE UNCHANGED HistoryVars /\ now' \in Nat /\ now <= now'
  <2>1. Coherent' /\ HistoryWithinBreaker'
    BY <1>3 DEF HistoryInv, HistoryVars, Coherent, HistoryWithinBreaker, Published
  <2>2. RoundsInOrder'
    <3>1. \A r \in Published : oracle.timestamps[r] \in Nat
      BY WidthAssumption DEF HistoryInv, TypeOK, OracleState, Published
    <3>2. now \in Nat
      BY InputAssumption DEF HistoryInv, TypeOK
    <3> QED BY <1>3, <3>1, <3>2 DEF HistoryInv, HistoryVars, RoundsInOrder, Published
  <2> QED BY <1>1, <2>1, <2>2 DEF HistoryInv
<1> QED
  BY <1>2, <1>3, HistoryMoves DEF HistoryInv

(* The history is in order in every reachable state. *)
LEMMA HistoryInvariant == Spec => []HistoryInv
BY InitHistory, NextHistory, PTL DEF Spec

(* Published rounds are gap-free, positive and ordered in time. *)
THEOREM RoundsStayInOrder == Spec => []RoundsInOrder
BY HistoryInvariant, PTL DEF HistoryInv

(* Whatever the owner does to the breaker, and whenever, each round that    *)
(* was written while it was enabled lies within it of the round before.     *)
THEOREM BreakerBoundsHistory == Spec => []HistoryWithinBreaker
BY HistoryInvariant, PTL DEF HistoryInv

(* Truncation to uint80 does not change the id of a published round. *)
LEMMA Uint80OfRound ==
  ASSUME NEW r \in Round
  PROVE  Uint80(r) = r
BY WidthAssumption DEF Uint80

(* latestRoundData, getRoundData of the latest round, getAnswer and         *)
(* getTimestamp never contradict each other.                                *)
THEOREM ReadersAgree == Spec => []LatestIsLastRound
<1>1. HistoryInv => LatestIsLastRound
  <2> SUFFICES ASSUME HistoryInv, NEW p \in Price PROVE
        LET latest == LatestRoundData(oracle, p)
        IN  /\ latest = GetRoundData(oracle, oracle.roundId, p)
            /\ latest.answer = GetAnswer(oracle, oracle.roundId, p)
            /\ latest.updatedAt = GetTimestamp(oracle, oracle.roundId)
    BY DEF LatestIsLastRound
  <2>1. Uint80(oracle.roundId) = oracle.roundId
    BY Uint80OfRound DEF HistoryInv, TypeOK, OracleState
  <2> QED
    BY <2>1 DEF HistoryInv, Coherent, LatestRoundData, GetRoundData, GetAnswer, GetTimestamp
<1> QED BY <1>1, HistoryInvariant, PTL
-----------------------------------------------------------------------------
(* The feed its readers rely on.                                            *)

(* A function on one more index that agrees below it is the longer sequence. *)
LEMMA AppendExtends ==
  ASSUME NEW S, NEW n \in Nat, NEW f \in [1 .. n -> S], NEW e \in S,
         NEW g \in [1 .. (n + 1) -> S],
         g[n + 1] = e, \A r \in 1 .. n : g[r] = f[r]
  PROVE  /\ f \in Seq(S) /\ Len(f) = n
         /\ g \in Seq(S) /\ Len(g) = n + 1
         /\ g[n + 1] = e
         /\ g = Append(f, e)
<1>1. f \in Seq(S) /\ Len(f) = n
  OBVIOUS
<1>2. \A r \in 1 .. (n + 1) : r = n + 1 \/ r \in 1 .. n
  OBVIOUS
<1>3. g \in Seq(S) /\ Len(g) = n + 1
  OBVIOUS
<1>4. Append(f, e) \in Seq(S) /\ Len(Append(f, e)) = n + 1
  BY <1>1
<1>5. \A r \in 1 .. (n + 1) : g[r] = Append(f, e)[r]
  BY <1>1, <1>2
<1>6. g = Append(f, e)
  BY <1>3, <1>4, <1>5, SeqEqual
<1> QED BY <1>1, <1>3, <1>6

(* The published rounds, as FeedSpec passes them to RoundFeed. *)
Log == [r \in Published |-> [value |-> oracle.rawAnswers[r], at |-> oracle.timestamps[r]]]

(* update() is one step of the abstract feed: it publishes its argument now. *)
LEMMA UpdatePublishes ==
  ASSUME HistoryInv, HistoryInv', NEW sender \in Address, NEW v \in Value, update(sender, v)
  PROVE  Feed!FeedNext
<1> DEFINE n == oracle.roundId
           entry == [value |-> v, at |-> now]
<1>1. /\ oracle'.roundId = n + 1
      /\ oracle'.rawAnswers = [oracle.rawAnswers EXCEPT ![n + 1] = v]
      /\ oracle'.timestamps = [oracle.timestamps EXCEPT ![n + 1] = now]
      /\ now' = now
      /\ now \in Nat
      /\ v \in Word
      /\ v # 0
      /\ n + 1 \in Round
  <2>1. v # 0
    BY UpdateStep, Zenon DEF HistoryInv, CanUpdate
  <2> QED BY UpdateStep, <2>1 DEF HistoryInv
<1>2. /\ n \in Round
      /\ oracle.rawAnswers \in [Round -> Word]
      /\ oracle.timestamps \in [Round -> Nat]
  BY DEF HistoryInv, TypeOK, OracleState
<1>n. n \in Nat /\ MaxRound \in Nat
  BY <1>2, WidthAssumption
<1>3. Published = 1 .. n /\ Published' = 1 .. (n + 1)
  BY <1>n, <1>1 DEF Published
<1>4. /\ \A r \in 1 .. n : /\ r \in Round
                          /\ oracle'.rawAnswers[r] = oracle.rawAnswers[r]
                          /\ oracle'.timestamps[r] = oracle.timestamps[r]
      /\ oracle'.rawAnswers[n + 1] = v
      /\ oracle'.timestamps[n + 1] = now
  <2>1. \A r \in 1 .. n : r \in Round /\ r # n + 1
    BY <1>n, <1>2
  <2>2. \A r \in Round : r # n + 1 => oracle'.rawAnswers[r] = oracle.rawAnswers[r]
    BY <1>1, <1>2
  <2>3. \A r \in Round : r # n + 1 => oracle'.timestamps[r] = oracle.timestamps[r]
    BY <1>1, <1>2
  <2>4. oracle'.rawAnswers[n + 1] = v /\ oracle'.timestamps[n + 1] = now
    BY <1>1, <1>2
  <2> QED BY <2>1, <2>2, <2>3, <2>4
<1>5. entry \in Feed!Entry
  BY <1>1, WidthAssumption DEF Feed!Entry, Feed!Positive
<1>6. Log \in [1 .. n -> Feed!Entry]
  <2>1. \A r \in 1 .. n : /\ oracle.rawAnswers[r] \in Nat \ {0}
                         /\ oracle.timestamps[r] \in Nat
    <3>1. \A r \in 1 .. n : oracle.rawAnswers[r] > 0
      BY <1>3 DEF HistoryInv, RoundsInOrder
    <3>2. \A r \in 1 .. n : oracle.rawAnswers[r] \in Nat /\ oracle.timestamps[r] \in Nat
      BY <1>2, <1>4, WidthAssumption
    <3> QED BY <3>1, <3>2
  <2> QED BY <1>3, <2>1 DEF Log, Feed!Entry, Feed!Positive
<1>7. Log' = [r \in 1 .. (n + 1) |-> IF r = n + 1 THEN entry ELSE Log[r]]
  <2>1. Log' = [r \in 1 .. (n + 1) |-> [value |-> oracle'.rawAnswers[r],
                                       at |-> oracle'.timestamps[r]]]
    BY <1>3 DEF Log
  <2>2. ASSUME NEW r \in 1 .. (n + 1)
        PROVE  [value |-> oracle'.rawAnswers[r], at |-> oracle'.timestamps[r]]
                  = IF r = n + 1 THEN entry ELSE Log[r]
    <3>1. CASE r = n + 1
      BY <3>1, <1>4
    <3>2. CASE r # n + 1
      <4>1. r \in 1 .. n /\ r \in Published
        BY <1>n, <3>2, <1>3
      <4>2. Log[r] = [value |-> oracle.rawAnswers[r], at |-> oracle.timestamps[r]]
        BY <4>1 DEF Log
      <4> QED BY <3>2, <4>1, <4>2, <1>4
    <3> QED BY <3>1, <3>2
  <2> QED BY <2>1, <2>2
<1> HIDE DEF n, entry, Log
<1>8. /\ Len(Log) = n
      /\ Len(Log') = n + 1
      /\ Log'[n + 1] = entry
      /\ Log' = Append(Log, entry)
  <2> DEFINE f == Log
             g == Log'
  <2>1. f \in [1 .. n -> Feed!Entry]
    BY <1>6
  <2>2. g = [r \in 1 .. (n + 1) |-> IF r = n + 1 THEN entry ELSE f[r]]
    BY <1>7
  <2>3. /\ g \in [1 .. (n + 1) -> Feed!Entry]
        /\ g[n + 1] = entry
        /\ \A r \in 1 .. n : g[r] = f[r]
    BY <1>n, <1>5, <2>1, <2>2
  <2> HIDE DEF f, g
  <2>4. /\ Len(f) = n
        /\ Len(g) = n + 1
        /\ g[n + 1] = entry
        /\ g = Append(f, entry)
    BY <1>n, <1>5, <2>1, <2>3, AppendExtends
  <2> QED BY <2>4 DEF f, g
<1>9. Log = <<>> \/ Log[Len(Log)].at <= now
  <2>1. CASE n = 0
    BY <2>1, <1>6, <1>8
  <2>2. CASE n # 0
    <3>1. n \in Published
      BY <2>2, <1>2, <1>3
    <3>2. Log[n].at = oracle.timestamps[n]
      BY <3>1 DEF Log
    <3> QED BY <3>1, <3>2, <1>8 DEF HistoryInv, RoundsInOrder
  <2> QED BY <2>1, <2>2
<1>10. entry.value = v /\ entry.at = now
  BY DEF entry
<1> QED
  BY <1>5, <1>8, <1>9, <1>10 DEF Feed!FeedNext, Feed!Publish, Feed!NotBeforeLast, Log, entry

(* The contract's rounds are an append-only log of positive values with     *)
(* times that never go back: update() appends to it and nothing else        *)
(* touches it.                                                              *)
THEOREM ImplementsFeed == Spec => FeedSpec
<1>1. Init => Feed!FeedInit
  <2> SUFFICES ASSUME Init PROVE Feed!FeedInit
    OBVIOUS
  <2>1. oracle.roundId = 0
    BY DEF Init, Deployed
  <2> QED BY <2>1 DEF Feed!FeedInit, Published
<1>2. ASSUME HistoryInv, HistoryInv', [Next]_vars
      PROVE  [Feed!FeedNext]_(Log)
  <2>1. CASE \E sender \in Address, totalAssets \in Value : update(sender, totalAssets)
    BY <1>2, <2>1, UpdatePublishes
  <2>2. CASE UNCHANGED HistoryVars
    BY <2>2 DEF HistoryVars, Log, Published
  <2> QED BY <1>2, <2>1, <2>2, HistoryMoves DEF HistoryInv
<1> QED
  BY <1>1, <1>2, HistoryInvariant, PTL DEF Spec, FeedSpec, Feed!FeedSpec, Log
=============================================================================
