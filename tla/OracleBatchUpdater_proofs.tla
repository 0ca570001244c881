----------------------- MODULE OracleBatchUpdater_proofs -----------------------
(***************************************************************************)
(* What the batch updater guarantees for every set of oracles and for      *)
(* batches of every length.  A batch is followed call by call: the lemmas  *)
(* say what holds of the storage after each of its prefixes.               *)
(***************************************************************************)
EXTENDS OracleBatchUpdater, Filtering_proofs

BatchCall == [oracle : Oracle, value : Value]
Progress == [ok : BOOLEAN, oracles : [Oracle -> OracleState]]

(* update() yields a well-formed oracle whose only new round is the next. *)
LEMMA UpdatedFields ==
  ASSUME NEW o \in OracleState, NEW sender, NEW v \in Word, NEW p, NEW time \in Nat,
         CanUpdate(o, sender, v, p),
         NEW u, u = Updated(o, v, time)
  PROVE  /\ u \in OracleState
         /\ o.roundId + 1 \in Round
         /\ u.roundId = o.roundId + 1
         /\ u.storedTotalAssets = v
         /\ u.latestTimestamp = time
         /\ u.rawAnswers = [o.rawAnswers EXCEPT ![o.roundId + 1] = v]
         /\ u.timestamps = [o.timestamps EXCEPT ![o.roundId + 1] = time]
<1>1. o.roundId + 1 \in Round /\ o.roundId \in Nat
  <2>1. o.roundId \in Round
    BY DEF OracleState
  <2>2. o.roundId < MaxRound
    BY Zenon DEF CanUpdate
  <2> QED BY <2>1, <2>2, WidthAssumption DEF Round
<1>2. /\ o.rawAnswers \in [Round -> Word]
      /\ o.timestamps \in [Round -> Nat]
  BY DEF OracleState
<1>3. /\ [o.rawAnswers EXCEPT ![o.roundId + 1] = v] \in [Round -> Word]
      /\ [o.timestamps EXCEPT ![o.roundId + 1] = time] \in [Round -> Nat]
  BY <1>1, <1>2
<1>4. u = [o EXCEPT !.roundId = o.roundId + 1,
                    !.storedTotalAssets = v,
                    !.latestTimestamp = time,
                    !.rawAnswers = [o.rawAnswers EXCEPT ![o.roundId + 1] = v],
                    !.timestamps = [o.timestamps EXCEPT ![o.roundId + 1] = time]]
  BY DEF Updated, OracleState
<1> QED
  BY <1>1, <1>3, <1>4 DEF OracleState

(* One call of a batch: it is executed on the oracle it names and on no     *)
(* other, or the transaction is doomed.                                     *)
LEMMA ApplyCallCases ==
  ASSUME NEW tx \in Progress, NEW call \in BatchCall, now \in Nat,
         NEW r, r = ApplyCall(tx, call)
  PROVE  /\ r \in Progress
         /\ \/ /\ r.ok = FALSE
               /\ r.oracles = tx.oracles
            \/ /\ tx.ok
               /\ r.ok
               /\ CanUpdate(tx.oracles[call.oracle], UpdaterAddress, call.value, Price)
               /\ Updated(tx.oracles[call.oracle], call.value, now) \in OracleState
               /\ r.oracles = [tx.oracles EXCEPT ![call.oracle] =
                                 Updated(tx.oracles[call.oracle], call.value, now)]
<1>1. /\ tx.ok \in BOOLEAN
      /\ tx.oracles \in [Oracle -> OracleState]
      /\ tx = [ok |-> tx.ok, oracles |-> tx.oracles]
  BY DEF Progress
<1>2. call.oracle \in Oracle /\ call.value \in Word
  BY BatchAssumption DEF BatchCall
<1>3. tx.oracles[call.oracle] \in OracleState
  BY <1>1, <1>2
<1> DEFINE good == tx.ok /\ CanUpdate(tx.oracles[call.oracle], UpdaterAddress, call.value, Price)
           u    == Updated(tx.oracles[call.oracle], call.value, now)
<1>4. CASE good
  <2>1. u \in OracleState
    BY <1>2, <1>3, <1>4, UpdatedFields
  <2>2. r = [tx EXCEPT !.oracles[call.oracle] = u]
    BY <1>4 DEF ApplyCall
  <2> HIDE DEF u
  <2> DEFINE os == [tx.oracles EXCEPT ![call.oracle] = u]
  <2>3. os \in [Oracle -> OracleState]
    BY <1>1, <2>1
  <2>4. r = [ok |-> tx.ok, oracles |-> os]
    BY <1>1, <2>2
  <2> HIDE DEF os
  <2>5. r \in Progress /\ r.ok = tx.ok /\ r.oracles = os
    BY <1>1, <2>3, <2>4 DEF Progress
  <2> QED BY <1>4, <2>1, <2>5 DEF u, os
<1>5. CASE ~good
  <2>1. r = [tx EXCEPT !.ok = FALSE]
    BY <1>5 DEF ApplyCall
  <2>2. r = [ok |-> FALSE, oracles |-> tx.oracles]
    BY <1>1, <2>1
  <2> QED BY <1>1, <2>2 DEF Progress
<1> QED BY <1>4, <1>5

(* The loop, call by call. *)
LEMMA ExecutedStep ==
  ASSUME oracles \in [Oracle -> OracleState], now \in Nat, NEW calls \in Seq(BatchCall)
  PROVE  /\ ExecutedUpTo(calls)[0] = [ok |-> TRUE, oracles |-> oracles]
         /\ \A n \in 0 .. Len(calls) : ExecutedUpTo(calls)[n] \in Progress
         /\ \A n \in 1 .. Len(calls) :
              ExecutedUpTo(calls)[n] = ApplyCall(ExecutedUpTo(calls)[n - 1], calls[n])
<1> DEFINE N == Len(calls)
           base == [ok |-> TRUE, oracles |-> oracles]
           step == [n \in 1 .. N |-> [tx \in Progress |-> ApplyCall(tx, calls[n])]]
           Body(g) == [n \in 0 .. N |-> IF n = 0 THEN base ELSE ApplyCall(g[n - 1], calls[n])]
<1>1. N \in Nat /\ \A n \in 1 .. N : calls[n] \in BatchCall
  OBVIOUS
<1>2. base \in Progress
  BY DEF Progress
<1>3. \A n \in 1 .. N, tx \in Progress : ApplyCall(tx, calls[n]) \in Progress
  BY <1>1, ApplyCallCases
<1>4. step \in [1 .. N -> [Progress -> Progress]]
  BY <1>3
<1>5. \A n \in 1 .. N, tx \in Progress : step[n][tx] = ApplyCall(tx, calls[n])
  OBVIOUS
<1> HIDE DEF step, base
<1>6. PICK g \in [0 .. N -> Progress] : Iterates(g, base, step, N)
  BY <1>1, <1>2, <1>4, PrefixRecursion
<1>7. g = Body(g)
  <2>1. ASSUME NEW n \in 0 .. N
        PROVE  g[n] = Body(g)[n]
    <3>1. CASE n = 0
      BY <3>1, <1>6 DEF Iterates
    <3>2. CASE n # 0
      <4>1. n \in 1 .. N /\ n - 1 \in 0 .. N
        BY <1>1, <3>2
      <4>2. g[n - 1] \in Progress
        BY <4>1, <1>6
      <4>3. g[n] = ApplyCall(g[n - 1], calls[n])
        BY <4>1, <4>2, <1>5, <1>6 DEF Iterates
      <4> QED BY <3>2, <4>3
    <3> QED BY <3>1, <3>2
  <2> QED BY <2>1, <1>6
<1>8. ExecutedUpTo(calls) = CHOOSE f : f = Body(f)
  BY DEF ExecutedUpTo, base
<1>9. ExecutedUpTo(calls) = Body(ExecutedUpTo(calls))
  BY <1>7, <1>8
<1> DEFINE E == ExecutedUpTo(calls)
<1> HIDE DEF E
<1>10. E = Body(E)
  BY <1>9 DEF E
<1>11. E[0] = base
  BY <1>1, <1>10
<1>12. ASSUME NEW n \in 1 .. N
       PROVE  E[n] = ApplyCall(E[n - 1], calls[n])
  <2>1. n \in 0 .. N /\ n # 0
    BY <1>1
  <2>2. E[n] = Body(E)[n]
    BY <1>10
  <2> QED BY <2>1, <2>2
<1> DEFINE P == {n \in 0 .. N : E[n] \in Progress}
<1>13. 0 \in P
  BY <1>1, <1>2, <1>11
<1>14. \A n \in 1 .. N : n - 1 \in P => n \in P
  BY <1>1, <1>3, <1>12
<1> HIDE DEF P
<1>15. \A n \in 0 .. N : n \in P
  BY <1>1, <1>13, <1>14, PrefixInduction
<1>16. \A n \in 0 .. N : E[n] \in Progress
  BY <1>15 DEF P
<1> QED BY <1>11, <1>12, <1>16 DEF E, base

-----------------------------------------------------------------------------
(* The calldata of a transaction as the calls of its loop. *)
LEMMA CallsOfBatch ==
  ASSUME NEW os \in BoundedSeq(Oracle, MaxBatch), NEW vs \in BoundedSeq(Value, MaxBatch),
         Len(os) = Len(vs)
  PROVE  /\ [i \in DOMAIN os |-> [oracle |-> os[i], value |-> vs[i]]] \in Calls
         /\ [i \in DOMAIN os |-> [oracle |-> os[i], value |-> vs[i]]] \in Seq(BatchCall)
<1> DEFINE calls == [i \in DOMAIN os |-> [oracle |-> os[i], value |-> vs[i]]]
<1>1. PICK m \in 0 .. MaxBatch : os \in [1 .. m -> Oracle]
  BY DEF BoundedSeq, SeqOf
<1>2. PICK k \in 0 .. MaxBatch : vs \in [1 .. k -> Value]
  BY DEF BoundedSeq, SeqOf
<1>3. MaxBatch \in Nat /\ m \in Nat /\ k \in Nat
  BY BatchAssumption
<1>4. Len(os) = m /\ Len(vs) = k
  BY <1>1, <1>2, <1>3, LenProperties, IsASeq
<1>5. calls \in [1 .. m -> BatchCall]
  BY <1>1, <1>2, <1>4 DEF BatchCall
<1> HIDE DEF calls
<1>6. calls \in Seq(BatchCall)
  BY <1>3, <1>5, IsASeq
<1>7. calls \in Calls
  BY <1>5 DEF Calls, BoundedSeq, SeqOf, BatchCall
<1> QED BY <1>6, <1>7 DEF calls

(* What an executed batch step does, in one place. *)
LEMMA BatchStep ==
  ASSUME TypeOK, NEW sender, NEW os \in BoundedSeq(Oracle, MaxBatch),
         NEW vs \in BoundedSeq(Value, MaxBatch), batchUpdate(sender, os, vs)
  PROVE  \E calls \in Calls :
           /\ calls \in Seq(BatchCall)
           /\ Executed(calls) \in Progress
           /\ oracles' = IF Executed(calls).ok THEN Executed(calls).oracles ELSE oracles
           /\ lastTx' = [batch |-> TRUE, ok |-> Executed(calls).ok,
                         calls |-> IF Executed(calls).ok THEN calls ELSE <<>>]
           /\ sender \in updater.isWhitelisted
           /\ UNCHANGED <<updater, now>>
<1> DEFINE calls == [i \in DOMAIN os |-> [oracle |-> os[i], value |-> vs[i]]]
<1>1. Len(os) = Len(vs)
  BY DEF batchUpdate
<1>2. calls \in Calls /\ calls \in Seq(BatchCall)
  BY <1>1, CallsOfBatch
<1>3. /\ oracles' = IF Executed(calls).ok THEN Executed(calls).oracles ELSE oracles
      /\ lastTx' = [batch |-> TRUE, calls |-> IF Executed(calls).ok THEN calls ELSE <<>>,
                    ok |-> Executed(calls).ok]
      /\ sender \in updater.isWhitelisted
      /\ UNCHANGED <<updater, now>>
  BY DEF batchUpdate
<1> HIDE DEF calls
<1>4. oracles \in [Oracle -> OracleState] /\ now \in Nat
  BY BatchAssumption DEF TypeOK
<1>5. Len(calls) \in 0 .. Len(calls)
  BY <1>2
<1>6. Executed(calls) \in Progress
  BY <1>2, <1>4, <1>5, ExecutedStep DEF Executed
<1> QED BY <1>2, <1>3, <1>6

-----------------------------------------------------------------------------
(* A step that is no batch leaves no calls behind. *)
LEMMA NoCalls == <<>> \in Calls /\ NotABatch \in [batch : BOOLEAN, calls : Calls, ok : BOOLEAN]
<1>1. 0 \in 0 .. MaxBatch /\ <<>> \in [1 .. 0 -> [oracle : Oracle, value : Value]]
  BY BatchAssumption
<1>2. <<>> \in Calls
  BY <1>1 DEF Calls, BoundedSeq, SeqOf
<1> QED BY <1>2 DEF NotABatch

(* Freshly deployed contracts have the storage their types ask for. *)
LEMMA InitType == Init => TypeOK
<1> SUFFICES ASSUME Init
             PROVE  TypeOK
  OBVIOUS
<1>1. PICK deployer \in Wallet :
        updater = [owner |-> deployer, pendingOwner |-> ZeroAddress, isWhitelisted |-> {}]
  BY DEF Init
<1>2. deployer \in Address
  BY DEF Wallet
<1>3. Deployed(OracleOwner) \in OracleState
  BY BatchAssumption, WidthAssumption DEF Deployed, OracleState, Word, Round
<1>4. oracles \in [Oracle -> OracleState]
  BY <1>3 DEF Init
<1>6. lastTx \in [batch : BOOLEAN, calls : Calls, ok : BOOLEAN]
  BY NoCalls DEF Init
<1>7. now \in 0 .. MaxTime
  BY BatchAssumption DEF Init
<1>8. updater \in [owner : Address, pendingOwner : Address \cup {ZeroAddress},
                   isWhitelisted : SUBSET Address]
  BY <1>1, <1>2
<1> QED BY <1>4, <1>6, <1>7, <1>8 DEF TypeOK

(* A transaction that is not a batch changes one oracle at most, and the    *)
(* published part of it only when it is an update() of a wallet.            *)
AdminMove ==
  \E o \in Oracle, w \in SUBSET Address, bps \in Word :
    oracles' = [oracles EXCEPT ![o] = [oracles[o] EXCEPT !.isWhitelisted = w,
                                                        !.maxChangeBps = bps]]

WalletUpdate ==
  \E sender \in Wallet, o \in Oracle, value \in Value :
    /\ CanUpdate(oracles[o], sender, value, Price)
    /\ now' = now
    /\ oracles' = [oracles EXCEPT ![o] = Updated(oracles[o], value, now)]

UpdaterState ==
  [owner : Address, pendingOwner : Address \cup {ZeroAddress},
   isWhitelisted : SUBSET Address]

Plain ==
  /\ updater' \in UpdaterState
  /\ now' \in 0 .. MaxTime /\ now <= now'
  /\ lastTx' = NotABatch \/ UNCHANGED vars
  /\ UNCHANGED oracles \/ AdminMove \/ WalletUpdate

LEMMA PlainStep ==
  ASSUME TypeOK, [Next]_vars,
         ~ \E sender \in Wallet, os \in BoundedSeq(Oracle, MaxBatch),
              vs \in BoundedSeq(Value, MaxBatch) : batchUpdate(sender, os, vs)
  PROVE  Plain
<1>0. /\ updater \in UpdaterState
      /\ oracles \in [Oracle -> OracleState]
      /\ now \in 0 .. MaxTime
      /\ MaxTime \in Nat
      /\ now \in Nat /\ now <= now
  BY BatchAssumption DEF TypeOK, UpdaterState
<1>1. ASSUME NEW sender \in Wallet, NEW keeper \in Wallet, NEW status \in BOOLEAN,
             setWhitelisted(sender, keeper, status)
      PROVE  Plain
  <2>1. updater' \in UpdaterState
    BY <1>0, <1>1 DEF setWhitelisted, Wallet, UpdaterState
  <2> QED BY <1>0, <1>1, <2>1 DEF setWhitelisted, Plain
<1>2. ASSUME NEW sender \in Wallet, NEW newOwner \in Wallet,
             transferOwnership(sender, newOwner)
      PROVE  Plain
  <2>1. updater' \in UpdaterState
    BY <1>0, <1>2 DEF transferOwnership, Wallet, UpdaterState
  <2> QED BY <1>0, <1>2, <2>1 DEF transferOwnership, Plain
<1>3. ASSUME NEW sender \in Wallet, acceptOwnership(sender)
      PROVE  Plain
  <2>1. updater' \in UpdaterState
    BY <1>0, <1>3 DEF acceptOwnership, Wallet, UpdaterState
  <2> QED BY <1>0, <1>3, <2>1 DEF acceptOwnership, Plain
<1>4. ASSUME NEW sender \in Wallet, NEW o \in Oracle, NEW value \in Value,
             DirectUpdate(sender, o, value)
      PROVE  Plain
  <2>1. /\ UNCHANGED <<updater, now>> /\ lastTx' = NotABatch
        /\ CanUpdate(oracles[o], sender, value, Price)
        /\ oracles' = [oracles EXCEPT ![o] = Updated(oracles[o], value, now)]
    BY <1>4 DEF DirectUpdate
  <2>2. WalletUpdate
    BY <2>1 DEF WalletUpdate
  <2> QED BY <1>0, <2>1, <2>2 DEF Plain
<1>5. ASSUME NEW o \in Oracle, NEW account \in Address, NEW status \in BOOLEAN,
             OracleSetWhitelisted(o, account, status)
      PROVE  Plain
  <2> DEFINE w == IF status THEN oracles[o].isWhitelisted \cup {account}
                            ELSE oracles[o].isWhitelisted \ {account}
             b == oracles[o].maxChangeBps
             s == [oracles[o] EXCEPT !.isWhitelisted = w, !.maxChangeBps = b]
  <2>1. oracles[o] \in OracleState
    BY <1>0
  <2>2. w \in SUBSET Address /\ b \in Word
    BY <2>1 DEF OracleState
  <2>3. oracles' = [oracles EXCEPT ![o] = [oracles[o] EXCEPT !.isWhitelisted = w]]
    BY <1>0, <1>5 DEF OracleSetWhitelisted
  <2>4. [oracles[o] EXCEPT !.isWhitelisted = w] = s
    BY <2>1 DEF OracleState
  <2> HIDE DEF w, b
  <2>5. oracles' = [oracles EXCEPT ![o] = s]
    BY <2>3, <2>4
  <2>6. AdminMove
    BY <2>2, <2>5 DEF AdminMove
  <2> QED BY <1>0, <1>5, <2>6 DEF OracleSetWhitelisted, Plain
<1>6. ASSUME NEW o \in Oracle, NEW bps \in Bps, OracleSetMaxChangeBps(o, bps)
      PROVE  Plain
  <2> DEFINE w == oracles[o].isWhitelisted
             s == [oracles[o] EXCEPT !.isWhitelisted = w, !.maxChangeBps = bps]
  <2>1. oracles[o] \in OracleState
    BY <1>0
  <2>2. w \in SUBSET Address /\ bps \in Word
    BY <2>1, BatchAssumption DEF OracleState
  <2>3. oracles' = [oracles EXCEPT ![o] = [oracles[o] EXCEPT !.maxChangeBps = bps]]
    BY <1>0, <1>6 DEF OracleSetMaxChangeBps
  <2>4. [oracles[o] EXCEPT !.maxChangeBps = bps] = s
    BY <2>1 DEF OracleState
  <2> HIDE DEF w
  <2>5. oracles' = [oracles EXCEPT ![o] = s]
    BY <2>3, <2>4
  <2>6. AdminMove
    BY <2>2, <2>5 DEF AdminMove
  <2> QED BY <1>0, <1>6, <2>6 DEF OracleSetMaxChangeBps, Plain
<1>7. CASE NextBlock
  BY <1>0, <1>7 DEF NextBlock, Plain
<1>8. CASE UNCHANGED vars
  BY <1>0, <1>8 DEF vars, Plain
<1> QED
  BY <1>1, <1>2, <1>3, <1>4, <1>5, <1>6, <1>7, <1>8 DEF Next

(* Every transaction keeps the storage within its types. *)
LEMMA NextType ==
  ASSUME TypeOK, [Next]_vars
  PROVE  TypeOK'
<1>1. CASE \E sender \in Wallet, os \in BoundedSeq(Oracle, MaxBatch),
             vs \in BoundedSeq(Value, MaxBatch) : batchUpdate(sender, os, vs)
  <2>1. PICK calls \in Calls :
          /\ Executed(calls) \in Progress
          /\ oracles' = IF Executed(calls).ok THEN Executed(calls).oracles ELSE oracles
          /\ lastTx' = [batch |-> TRUE, ok |-> Executed(calls).ok,
                        calls |-> IF Executed(calls).ok THEN calls ELSE <<>>]
          /\ UNCHANGED <<updater, now>>
    BY <1>1, BatchStep
  <2>2. /\ Executed(calls).ok \in BOOLEAN
        /\ Executed(calls).oracles \in [Oracle -> OracleState]
    BY <2>1 DEF Progress
  <2>3. oracles' \in [Oracle -> OracleState]
    BY <2>1, <2>2 DEF TypeOK
  <2>4. lastTx' \in [batch : BOOLEAN, calls : Calls, ok : BOOLEAN]
    BY <2>1, <2>2, NoCalls
  <2> QED BY <2>1, <2>3, <2>4 DEF TypeOK
<1>2. CASE ~ \E sender \in Wallet, os \in BoundedSeq(Oracle, MaxBatch),
             vs \in BoundedSeq(Value, MaxBatch) : batchUpdate(sender, os, vs)
  <2>1. Plain
    BY <1>2, PlainStep
  <2>2. oracles \in [Oracle -> OracleState] /\ now \in Nat
    BY BatchAssumption DEF TypeOK
  <2>3. ASSUME AdminMove
        PROVE  oracles' \in [Oracle -> OracleState]
    <3>1. PICK o \in Oracle, w \in SUBSET Address, bps \in Word :
            oracles' = [oracles EXCEPT ![o] = [oracles[o] EXCEPT !.isWhitelisted = w,
                                                                !.maxChangeBps = bps]]
      BY <2>3 DEF AdminMove
    <3>2. [oracles[o] EXCEPT !.isWhitelisted = w, !.maxChangeBps = bps] \in OracleState
      BY <2>2 DEF OracleState
    <3> QED BY <2>2, <3>1, <3>2
  <2>4. ASSUME WalletUpdate
        PROVE  oracles' \in [Oracle -> OracleState]
    <3>1. PICK sender \in Wallet, o \in Oracle, value \in Value :
            /\ CanUpdate(oracles[o], sender, value, Price)
            /\ oracles' = [oracles EXCEPT ![o] = Updated(oracles[o], value, now)]
      BY <2>4 DEF WalletUpdate
    <3>2. Updated(oracles[o], value, now) \in OracleState
      BY <2>2, <3>1, UpdatedFields, BatchAssumption
    <3> QED BY <2>2, <3>1, <3>2
  <2>5. oracles' \in [Oracle -> OracleState]
    BY <2>1, <2>2, <2>3, <2>4 DEF Plain
  <2>6. lastTx' \in [batch : BOOLEAN, calls : Calls, ok : BOOLEAN]
    BY <2>1, NoCalls DEF Plain, TypeOK, vars
  <2> QED BY <2>1, <2>5, <2>6 DEF Plain, TypeOK, UpdaterState
<1> QED BY <1>1, <1>2

(* The updater's and every oracle's storage stay within their types,        *)
(* whatever a batch does on the way: rounds within uint80, values and       *)
(* breakers within uint256.                                                 *)
THEOREM TypeCorrect == Spec => []TypeOK
<1>1. Init => TypeOK
  BY InitType
<1>2. TypeOK /\ [Next]_vars => TypeOK'
  BY NextType
<1> QED BY <1>1, <1>2, PTL DEF Spec

-----------------------------------------------------------------------------
(* The inductive invariant behind FeedsInOrder: the last round is not later *)
(* than the block, so that the next one comes after it.                     *)
InOrder(s, time) ==
  /\ s.rawAnswers[s.roundId] = s.storedTotalAssets
  /\ s.timestamps[s.roundId] = s.latestTimestamp
  /\ s.latestTimestamp <= time
  /\ \A r \in 1 .. s.roundId :
       s.rawAnswers[r] > 0 /\ s.timestamps[r - 1] <= s.timestamps[r]

FeedInv == \A o \in Oracle : InOrder(oracles[o], now)

LEMMA UpdateInOrder ==
  ASSUME NEW s \in OracleState, NEW time \in Nat, InOrder(s, time),
         NEW v \in Word, NEW sender, CanUpdate(s, sender, v, Price)
  PROVE  InOrder(Updated(s, v, time), time)
<1> DEFINE u == Updated(s, v, time)
           n == s.roundId
<1>1. /\ n + 1 \in Round
      /\ u.roundId = n + 1
      /\ u.storedTotalAssets = v
      /\ u.latestTimestamp = time
      /\ u.rawAnswers = [s.rawAnswers EXCEPT ![n + 1] = v]
      /\ u.timestamps = [s.timestamps EXCEPT ![n + 1] = time]
  BY UpdatedFields
<1>2. /\ s.rawAnswers \in [Round -> Word]
      /\ s.timestamps \in [Round -> Nat]
      /\ n \in Round
  BY DEF OracleState
<1>3. Round = 0 .. MaxRound /\ MaxRound \in Nat /\ n \in Nat /\ v \in Nat
  BY <1>2, WidthAssumption DEF Round, Word
<1>4. v # 0
  BY DEF CanUpdate
<1> HIDE DEF u
<1>5. u.rawAnswers[n + 1] = v /\ u.timestamps[n + 1] = time
  BY <1>1, <1>2
<1>6. \A r \in Round : r # n + 1 =>
        u.rawAnswers[r] = s.rawAnswers[r] /\ u.timestamps[r] = s.timestamps[r]
  BY <1>1, <1>2
<1>7. s.timestamps[n] <= time
  BY DEF InOrder
<1>8. ASSUME NEW r \in 1 .. n + 1
      PROVE  u.rawAnswers[r] > 0 /\ u.timestamps[r - 1] <= u.timestamps[r]
  <2>1. CASE r = n + 1
    <3>1. n # n + 1 /\ r - 1 = n
      BY <1>3, <2>1
    <3>2. u.timestamps[n] = s.timestamps[n]
      BY <1>2, <1>6, <3>1
    <3> QED BY <1>3, <1>4, <1>5, <1>7, <2>1, <3>1, <3>2
  <2>2. CASE r # n + 1
    <3>1. r \in 1 .. n /\ r \in Round /\ r - 1 \in Round /\ r - 1 # n + 1
      BY <1>1, <1>3, <2>2
    <3>2. s.rawAnswers[r] > 0 /\ s.timestamps[r - 1] <= s.timestamps[r]
      BY <3>1 DEF InOrder
    <3> QED BY <1>6, <2>2, <3>1, <3>2
  <2> QED BY <2>1, <2>2
<1>9. InOrder(u, time)
  BY <1>1, <1>5, <1>8 DEF InOrder
<1> QED BY <1>9 DEF u

(* ... and so do the calls of a batch, one after the other. *)
LEMMA ExecutedInOrder ==
  ASSUME TypeOK, FeedInv, NEW calls \in Seq(BatchCall), NEW o \in Oracle
  PROVE  InOrder(Executed(calls).oracles[o], now)
<1> DEFINE N == Len(calls)
           E == ExecutedUpTo(calls)
           P == {n \in 0 .. N : \A x \in Oracle : InOrder(E[n].oracles[x], now)}
<1>1. oracles \in [Oracle -> OracleState] /\ now \in Nat
  BY BatchAssumption DEF TypeOK
<1>2. N \in Nat /\ \A n \in 1 .. N : calls[n] \in BatchCall
  OBVIOUS
<1>3. /\ E[0] = [ok |-> TRUE, oracles |-> oracles]
      /\ \A n \in 0 .. N : E[n] \in Progress
      /\ \A n \in 1 .. N : E[n] = ApplyCall(E[n - 1], calls[n])
  BY <1>1, ExecutedStep
<1> HIDE DEF E
<1>4. 0 \in P
  BY <1>2, <1>3 DEF FeedInv
<1>5. ASSUME NEW n \in 1 .. N, n - 1 \in P
      PROVE  n \in P
  <2>1. /\ n \in 0 .. N /\ n - 1 \in 0 .. N
        /\ E[n - 1] \in Progress
        /\ \A x \in Oracle : InOrder(E[n - 1].oracles[x], now)
    BY <1>2, <1>3, <1>5
  <2> DEFINE old == E[n - 1].oracles
             c   == calls[n]
             u   == Updated(old[c.oracle], c.value, now)
  <2>2. \/ E[n].oracles = old
        \/ /\ CanUpdate(old[c.oracle], UpdaterAddress, c.value, Price)
           /\ E[n].oracles = [old EXCEPT ![c.oracle] = u]
    <3>1. /\ E[n - 1] \in Progress /\ calls[n] \in BatchCall
          /\ E[n] = ApplyCall(E[n - 1], calls[n])
      BY <1>2, <1>3, <2>1
    <3> DEFINE tx == E[n - 1]
               r  == E[n]
    <3>2. tx \in Progress /\ c \in BatchCall /\ r = ApplyCall(tx, c)
      BY <3>1
    <3> HIDE DEF tx, r, c
    <3>3. \/ r.oracles = tx.oracles
          \/ /\ CanUpdate(tx.oracles[c.oracle], UpdaterAddress, c.value, Price)
             /\ r.oracles = [tx.oracles EXCEPT ![c.oracle] =
                               Updated(tx.oracles[c.oracle], c.value, now)]
      BY <1>1, <3>2, ApplyCallCases, ZenonT(60)
    <3> QED BY <3>3 DEF tx, r, c
  <2>3. old \in [Oracle -> OracleState] /\ c.oracle \in Oracle /\ c.value \in Word
    BY <1>2, <2>1, BatchAssumption DEF Progress, BatchCall
  <2>4. ASSUME CanUpdate(old[c.oracle], UpdaterAddress, c.value, Price)
        PROVE  InOrder(u, now)
    BY <1>1, <2>1, <2>3, <2>4, UpdateInOrder
  <2> HIDE DEF old, c, u
  <2>5. \A x \in Oracle : InOrder(old[x], now)
    BY <2>1 DEF old
  <2>6. \A x \in Oracle : InOrder(E[n].oracles[x], now)
    BY <2>2, <2>3, <2>4, <2>5
  <2> QED BY <2>1, <2>6
<1> HIDE DEF P
<1>6. \A n \in 0 .. N : n \in P
  BY <1>2, <1>4, <1>5, PrefixInduction
<1>7. N \in P
  BY <1>2, <1>6
<1> QED BY <1>7 DEF P, E, Executed

LEMMA NextFeedInv ==
  ASSUME TypeOK, FeedInv, [Next]_vars
  PROVE  FeedInv'
<1>0. oracles \in [Oracle -> OracleState] /\ now \in Nat
  BY BatchAssumption DEF TypeOK
<1>1. CASE \E sender \in Wallet, os \in BoundedSeq(Oracle, MaxBatch),
             vs \in BoundedSeq(Value, MaxBatch) : batchUpdate(sender, os, vs)
  <2>1. PICK calls \in Calls :
          /\ calls \in Seq(BatchCall)
          /\ oracles' = IF Executed(calls).ok THEN Executed(calls).oracles ELSE oracles
          /\ UNCHANGED <<updater, now>>
    BY <1>1, BatchStep
  <2> QED BY <2>1, ExecutedInOrder DEF FeedInv
<1>2. CASE ~ \E sender \in Wallet, os \in BoundedSeq(Oracle, MaxBatch),
             vs \in BoundedSeq(Value, MaxBatch) : batchUpdate(sender, os, vs)
  <2>1. Plain
    BY <1>2, PlainStep
  <2>2. now' \in Nat /\ now <= now'
    BY <2>1, BatchAssumption DEF Plain
  <2>3. ASSUME NEW s \in OracleState, InOrder(s, now)
        PROVE  InOrder(s, now')
    <3>1. s.latestTimestamp \in Nat
      BY DEF OracleState
    <3> QED BY <1>0, <2>2, <2>3, <3>1 DEF InOrder
  <2>4. CASE UNCHANGED oracles
    BY <1>0, <2>3, <2>4 DEF FeedInv
  <2>5. CASE AdminMove
    <3>1. PICK p \in Oracle, w \in SUBSET Address, bps \in Word :
            oracles' = [oracles EXCEPT ![p] = [oracles[p] EXCEPT !.isWhitelisted = w,
                                                                !.maxChangeBps = bps]]
      BY <2>5 DEF AdminMove
    <3>2. oracles[p] \in OracleState /\ InOrder(oracles[p], now')
      BY <1>0, <2>3 DEF FeedInv
    <3>3. InOrder([oracles[p] EXCEPT !.isWhitelisted = w, !.maxChangeBps = bps], now')
      BY <3>2 DEF OracleState, InOrder
    <3>4. \A x \in Oracle : InOrder(oracles[x], now')
      BY <1>0, <2>3 DEF FeedInv
    <3> DEFINE s == [oracles[p] EXCEPT !.isWhitelisted = w, !.maxChangeBps = bps]
    <3>5. oracles' = [oracles EXCEPT ![p] = s] /\ InOrder(s, now')
      BY <3>1, <3>3
    <3> HIDE DEF s
    <3>6. \A x \in Oracle : oracles'[x] = IF x = p THEN s ELSE oracles[x]
      BY <1>0, <3>5
    <3> QED BY <3>4, <3>5, <3>6 DEF FeedInv
  <2>6. CASE WalletUpdate
    <3>1. PICK sender \in Wallet, p \in Oracle, value \in Value :
            /\ CanUpdate(oracles[p], sender, value, Price)
            /\ now' = now
            /\ oracles' = [oracles EXCEPT ![p] = Updated(oracles[p], value, now)]
      BY <2>6 DEF WalletUpdate
    <3> DEFINE s == Updated(oracles[p], value, now)
    <3>2. InOrder(s, now)
      BY <1>0, <3>1, UpdateInOrder, BatchAssumption DEF FeedInv
    <3>3. oracles' = [oracles EXCEPT ![p] = s] /\ now' = now
      BY <3>1
    <3> HIDE DEF s
    <3>4. \A x \in Oracle : oracles'[x] = IF x = p THEN s ELSE oracles[x]
      BY <1>0, <3>3
    <3> QED BY <3>2, <3>3, <3>4 DEF FeedInv
  <2> QED BY <2>1, <2>4, <2>5, <2>6 DEF Plain
<1> QED BY <1>1, <1>2

LEMMA InitFeedInv == Init => FeedInv
<1> SUFFICES ASSUME Init, NEW o \in Oracle
             PROVE  InOrder(oracles[o], now)
  BY DEF FeedInv
<1>1. oracles[o] = Deployed(OracleOwner) /\ now = 0 /\ 0 \in Round
  BY WidthAssumption DEF Init, Round
<1> QED BY <1>1 DEF Deployed, InOrder

(* Every oracle's feed stays readable in order, whatever a batch names how  *)
(* often: its last round is its latest value, and times do not go back.     *)
THEOREM FeedsStayInOrder == Spec => []FeedsInOrder
<1>1. Init => FeedInv
  BY InitFeedInv
<1>2. TypeOK /\ FeedInv /\ [Next]_vars => FeedInv'
  BY NextFeedInv
<1>3. FeedInv => FeedsInOrder
  BY DEF FeedInv, InOrder, FeedsInOrder
<1> QED BY <1>1, <1>2, <1>3, TypeCorrect, PTL DEF Spec

-----------------------------------------------------------------------------
(* A batch after its first n calls, as long as none was refused: an oracle  *)
(* k of these calls have named has got k rounds, and the value of the last  *)
(* of them; one they have not named is as it was.  The first call to an     *)
(* oracle has passed that oracle's own breaker.                             *)
Follows(s, was, k) ==
  IF k = <<>>
  THEN s = was
  ELSE /\ s.storedTotalAssets = k[Len(k)].value
       /\ s.latestTimestamp = now
       /\ s.roundId = was.roundId + Len(k)
       /\ Len(k) = 1 =>
            BreakerAllows(was.storedTotalAssets, s.storedTotalAssets, was.maxChangeBps)

Naming(calls, o) == {i \in DOMAIN calls : calls[i].oracle = o}

LEMMA UpdateFollows ==
  ASSUME NEW s \in OracleState, NEW was \in OracleState, now \in Nat,
         NEW k \in Seq(BatchCall), NEW call \in BatchCall, Follows(s, was, k),
         CanUpdate(s, UpdaterAddress, call.value, Price)
  PROVE  Follows(Updated(s, call.value, now), was, Append(k, call))
<1> DEFINE u == Updated(s, call.value, now)
           l == Append(k, call)
<1>1. call.value \in Word
  BY BatchAssumption DEF BatchCall
<1>2. u.roundId = s.roundId + 1 /\ u.storedTotalAssets = call.value /\ u.latestTimestamp = now
  BY DEF Updated, OracleState
<1>3. l # <<>> /\ Len(l) = Len(k) + 1 /\ l[Len(l)] = call /\ Len(k) \in Nat
  OBVIOUS
<1>4. was.roundId \in Nat
  BY WidthAssumption DEF OracleState, Round
<1> HIDE DEF u, l
<1>5. CASE k = <<>>
  <2>1. s = was /\ Len(k) = 0
    BY <1>5 DEF Follows
  <2>2. BreakerAllows(was.storedTotalAssets, call.value, was.maxChangeBps)
    BY <2>1 DEF CanUpdate
  <2>3. u.roundId = was.roundId + Len(l)
    BY <1>2, <1>3, <2>1
  <2> QED BY <1>2, <1>3, <2>2, <2>3 DEF Follows, u, l
<1>6. CASE k # <<>>
  <2>1. s.roundId = was.roundId + Len(k)
    BY <1>6 DEF Follows
  <2>2. Len(k) # 0
    BY <1>6, EmptySeq
  <2> DEFINE n == Len(k)
             m == Len(l)
             r == was.roundId
  <2>3. n \in Nat /\ n # 0 /\ m = n + 1 /\ s.roundId = r + n /\ u.roundId = s.roundId + 1
    BY <1>2, <1>3, <2>1, <2>2
  <2>4. r \in Nat
    BY <1>4
  <2> HIDE DEF n, m, r
  <2>5. m # 1
    BY <2>3
  <2>6. u.roundId = r + m
    BY <2>3, <2>4
  <2> QED BY <1>2, <1>3, <2>5, <2>6 DEF Follows, u, l, m, r
<1> QED BY <1>5, <1>6

LEMMA ExecutedFollows ==
  ASSUME TypeOK, NEW calls \in Seq(BatchCall), NEW o \in Oracle, Executed(calls).ok
  PROVE  Follows(Executed(calls).oracles[o], oracles[o], Filtered(calls, Naming(calls, o)))
<1> DEFINE N == Len(calls)
           E == ExecutedUpTo(calls)
           keep == Naming(calls, o)
           F == FilteredUpTo(calls, keep)
           Good(n) == /\ F[n] \in Seq(BatchCall)
                      /\ E[n].ok => Follows(E[n].oracles[o], oracles[o], F[n])
           P == {n \in 0 .. N : Good(n)}
<1>1. oracles \in [Oracle -> OracleState] /\ now \in Nat /\ oracles[o] \in OracleState
  BY BatchAssumption DEF TypeOK
<1>2. /\ N \in Nat
      /\ \A n \in 1 .. N : calls[n] \in BatchCall /\ (n \in keep <=> calls[n].oracle = o)
  BY DEF Naming
<1>3. /\ E[0] = [ok |-> TRUE, oracles |-> oracles]
      /\ \A n \in 0 .. N : E[n] \in Progress
      /\ \A n \in 1 .. N : E[n] = ApplyCall(E[n - 1], calls[n])
  BY <1>1, ExecutedStep
<1>4. F[0] = <<>> /\ \A n \in 1 .. N :
        F[n] = IF n \in keep THEN Append(F[n - 1], calls[n]) ELSE F[n - 1]
  BY FilterStep
<1> HIDE DEF E, F, keep
<1>5. 0 \in P
  <2>1. F[0] = <<>> /\ F[0] \in Seq(BatchCall)
    BY <1>4
  <2>2. Follows(E[0].oracles[o], oracles[o], F[0])
    BY <1>3, <2>1 DEF Follows
  <2>3. 0 \in 0 .. N
    BY <1>2
  <2> QED BY <2>1, <2>2, <2>3
<1>6. ASSUME NEW n \in 1 .. N, Good(n - 1)
      PROVE  Good(n)
  <2> DEFINE tx == E[n - 1]
             r  == E[n]
             c  == calls[n]
             k  == F[n - 1]
  <2>1. /\ n \in 0 .. N /\ n - 1 \in 0 .. N
        /\ tx \in Progress /\ r \in Progress /\ c \in BatchCall
        /\ r = ApplyCall(tx, c)
        /\ k \in Seq(BatchCall)
        /\ tx.ok => Follows(tx.oracles[o], oracles[o], k)
        /\ F[n] = IF c.oracle = o THEN Append(k, c) ELSE k
    <3>1. n \in 0 .. N /\ n - 1 \in 0 .. N
      BY <1>2
    <3>2. tx \in Progress /\ r \in Progress /\ c \in BatchCall /\ r = ApplyCall(tx, c)
      BY <1>2, <1>3, <3>1
    <3>3. /\ k \in Seq(BatchCall)
          /\ tx.ok => Follows(tx.oracles[o], oracles[o], k)
      BY <1>6
    <3>4. F[n] = IF c.oracle = o THEN Append(k, c) ELSE k
      BY <1>2, <1>4
    <3> QED BY <3>1, <3>2, <3>3, <3>4
  <2> HIDE DEF tx, r, c, k
  <2>2. F[n] \in Seq(BatchCall)
    BY <2>1
  <2>3. ASSUME r.ok
        PROVE  Follows(r.oracles[o], oracles[o], F[n])
    <3>1. /\ tx.ok
          /\ CanUpdate(tx.oracles[c.oracle], UpdaterAddress, c.value, Price)
          /\ r.oracles = [tx.oracles EXCEPT ![c.oracle] =
                            Updated(tx.oracles[c.oracle], c.value, now)]
      <4>1. tx \in Progress /\ c \in BatchCall /\ r = ApplyCall(tx, c)
        BY <2>1
      <4> QED BY <1>1, <4>1, <2>3, ApplyCallCases
    <3>2. tx.oracles \in [Oracle -> OracleState] /\ c.oracle \in Oracle
      BY <2>1 DEF Progress, BatchCall
    <3>3. CASE c.oracle = o
      <4>1. Follows(Updated(tx.oracles[o], c.value, now), oracles[o], Append(k, c))
        BY <1>1, <2>1, <3>1, <3>2, <3>3, UpdateFollows
      <4> QED BY <2>1, <3>1, <3>2, <3>3, <4>1
    <3>4. CASE c.oracle # o
      BY <2>1, <3>1, <3>2, <3>4
    <3> QED BY <3>3, <3>4
  <2> QED BY <2>1, <2>2, <2>3 DEF r
<1> HIDE DEF Good
<1>7. \A n \in 1 .. N : n - 1 \in P => n \in P
  BY <1>2, <1>6
<1>8. Good(N)
  <2> HIDE DEF P
  <2>1. \A n \in 0 .. N : n \in P
    BY <1>2, <1>5, <1>7, PrefixInduction
  <2>2. N \in P
    BY <1>2, <2>1
  <2> QED BY <2>2 DEF P
<1>9. E[N] = Executed(calls) /\ F[N] = Filtered(calls, Naming(calls, o))
  BY DEF E, F, keep, Executed, Filtered
<1>10. E[N].ok => Follows(E[N].oracles[o], oracles[o], F[N])
  BY <1>8 DEF Good
<1> QED BY <1>9, <1>10

(* What a batch step does to one oracle. *)
LEMMA BatchOutcome ==
  ASSUME TypeOK, [Next]_vars, NEW o \in Oracle, lastTx'.batch, ~ UNCHANGED vars
  PROVE  /\ lastTx'.ok => Follows(oracles'[o], oracles[o], CallsTo(lastTx', o))
         /\ ~lastTx'.ok => oracles'[o] = oracles[o] /\ CallsTo(lastTx', o) = <<>>
         /\ updater.isWhitelisted # {}
<1>1. \E sender \in Wallet, os \in BoundedSeq(Oracle, MaxBatch),
         vs \in BoundedSeq(Value, MaxBatch) : batchUpdate(sender, os, vs)
  BY PlainStep DEF Plain, NotABatch
<1>2. PICK calls \in Calls :
        /\ calls \in Seq(BatchCall)
        /\ oracles' = IF Executed(calls).ok THEN Executed(calls).oracles ELSE oracles
        /\ lastTx' = [batch |-> TRUE, ok |-> Executed(calls).ok,
                      calls |-> IF Executed(calls).ok THEN calls ELSE <<>>]
        /\ updater.isWhitelisted # {}
  BY <1>1, BatchStep
<1>3. CASE Executed(calls).ok
  <2>1. oracles' = Executed(calls).oracles /\ lastTx'.calls = calls /\ lastTx'.ok
    BY <1>2, <1>3
  <2>2. CallsTo(lastTx', o) = Filtered(calls, Naming(calls, o))
    BY <2>1 DEF CallsTo, Naming
  <2> QED BY <1>2, <1>3, <2>1, <2>2, ExecutedFollows
<1>4. CASE ~Executed(calls).ok
  <2>1. oracles' = oracles /\ lastTx'.calls = <<>> /\ ~lastTx'.ok
    BY <1>2, <1>4
  <2>2. CallsTo(lastTx', o) = Filtered(<<>>, Naming(<<>>, o))
    BY <2>1 DEF CallsTo, Naming
  <2>3. Filtered(<<>>, Naming(<<>>, o)) = <<>>
    <3>1. <<>> \in Seq(BatchCall) /\ Len(<<>>) = 0
      OBVIOUS
    <3> DEFINE e == Filtered(<<>>, Naming(<<>>, o))
    <3>2. e \in Seq(BatchCall) /\ Len(e) <= 0
      BY <3>1, FilteredElements, FilteredLength
    <3> HIDE DEF e
    <3>3. e = <<>>
      BY <3>2, EmptySeq
    <3> QED BY <3>3 DEF e
  <2> QED BY <1>2, <2>1, <2>2, <2>3
<1> QED BY <1>3, <1>4

-----------------------------------------------------------------------------
(* A batch of any length is all or nothing, oracle by oracle. *)
THEOREM BatchesAreAtomic == Spec => BatchIsAtomic
<1> DEFINE A == lastTx'.batch =>
                  \A o \in Oracle :
                    LET calls == CallsTo(lastTx', o)
                    IN  IF lastTx'.ok /\ calls # <<>>
                        THEN /\ oracles'[o].storedTotalAssets = Last(calls).value
                             /\ oracles'[o].latestTimestamp = now
                             /\ oracles'[o].roundId = oracles[o].roundId + Len(calls)
                        ELSE oracles'[o] = oracles[o]
<1>1. TypeOK /\ [Next]_vars => [A]_vars
  <2> SUFFICES ASSUME TypeOK, [Next]_vars, ~ UNCHANGED vars
               PROVE  A
    OBVIOUS
  <2> SUFFICES ASSUME lastTx'.batch, NEW o \in Oracle
               PROVE  LET calls == CallsTo(lastTx', o)
                      IN  IF lastTx'.ok /\ calls # <<>>
                          THEN /\ oracles'[o].storedTotalAssets = Last(calls).value
                               /\ oracles'[o].latestTimestamp = now
                               /\ oracles'[o].roundId = oracles[o].roundId + Len(calls)
                          ELSE oracles'[o] = oracles[o]
    OBVIOUS
  <2> QED BY BatchOutcome DEF Follows, Last
<1> QED BY <1>1, TypeCorrect, PTL DEF Spec, BatchIsAtomic

(* One batch moves an oracle it names once within that oracle's breaker,    *)
(* whatever else it contains.                                               *)
THEOREM BatchesStayWithinBreaker == Spec => BatchWithinBreaker
<1> DEFINE A == lastTx'.batch =>
                  \A o \in Oracle :
                    Len(CallsTo(lastTx', o)) = 1 =>
                      BreakerAllows(oracles[o].storedTotalAssets,
                                    oracles'[o].storedTotalAssets,
                                    oracles[o].maxChangeBps)
<1>1. TypeOK /\ [Next]_vars => [A]_vars
  <2> SUFFICES ASSUME TypeOK, [Next]_vars, ~ UNCHANGED vars, lastTx'.batch,
                      NEW o \in Oracle, Len(CallsTo(lastTx', o)) = 1
               PROVE  BreakerAllows(oracles[o].storedTotalAssets,
                                    oracles'[o].storedTotalAssets,
                                    oracles[o].maxChangeBps)
    OBVIOUS
  <2>1. CallsTo(lastTx', o) # <<>>
    <3> DEFINE s == CallsTo(lastTx', o)
    <3>1. Len(s) = 1
      OBVIOUS
    <3> HIDE DEF s
    <3>2. s # <<>>
      BY <3>1
    <3> QED BY <3>2 DEF s
  <2>2. lastTx'.ok /\ Follows(oracles'[o], oracles[o], CallsTo(lastTx', o))
    <3>1. lastTx'.ok => Follows(oracles'[o], oracles[o], CallsTo(lastTx', o))
      BY BatchOutcome
    <3>2. ~lastTx'.ok => CallsTo(lastTx', o) = <<>>
      BY BatchOutcome
    <3> QED BY <2>1, <3>1, <3>2
  <2> QED BY <2>1, <2>2 DEF Follows
<1> QED BY <1>1, TypeCorrect, PTL DEF Spec, BatchWithinBreaker

(* An oracle that whitelists only the updater is written only in a batch,   *)
(* and only while the updater whitelists a wallet.                          *)
THEOREM UpdaterIsTheOnlyWay == Spec => OnlyThroughTheUpdater
<1> DEFINE A == \A o \in Oracle :
                  /\ oracles[o].isWhitelisted \subseteq {UpdaterAddress}
                  /\ oracles'[o].roundId # oracles[o].roundId
                  => lastTx'.batch /\ updater.isWhitelisted # {}
<1>1. TypeOK /\ [Next]_vars => [A]_vars
  <2> SUFFICES ASSUME TypeOK, [Next]_vars, ~ UNCHANGED vars, NEW o \in Oracle,
                      oracles[o].isWhitelisted \subseteq {UpdaterAddress},
                      oracles'[o].roundId # oracles[o].roundId
               PROVE  lastTx'.batch /\ updater.isWhitelisted # {}
    OBVIOUS
  <2>0. oracles \in [Oracle -> OracleState] /\ oracles[o] \in OracleState
    BY DEF TypeOK
  <2>1. CASE \E sender \in Wallet, os \in BoundedSeq(Oracle, MaxBatch),
               vs \in BoundedSeq(Value, MaxBatch) : batchUpdate(sender, os, vs)
    <3>1. PICK calls \in Calls :
            lastTx' = [batch |-> TRUE, ok |-> Executed(calls).ok,
                       calls |-> IF Executed(calls).ok THEN calls ELSE <<>>]
      BY <2>1, BatchStep
    <3> QED BY <3>1, BatchOutcome
  <2>2. CASE ~ \E sender \in Wallet, os \in BoundedSeq(Oracle, MaxBatch),
               vs \in BoundedSeq(Value, MaxBatch) : batchUpdate(sender, os, vs)
    <3>1. UNCHANGED oracles \/ AdminMove \/ WalletUpdate
      BY <2>2, PlainStep DEF Plain
    <3>2. ASSUME AdminMove
          PROVE  FALSE
      <4>1. PICK p \in Oracle, w \in SUBSET Address, bps \in Word :
              oracles' = [oracles EXCEPT ![p] = [oracles[p] EXCEPT !.isWhitelisted = w,
                                                                  !.maxChangeBps = bps]]
        BY <3>2 DEF AdminMove
      <4> QED BY <2>0, <4>1 DEF OracleState
    <3>3. ASSUME WalletUpdate
          PROVE  FALSE
      <4>1. PICK sender \in Wallet, p \in Oracle, value \in Value :
              /\ CanUpdate(oracles[p], sender, value, Price)
              /\ oracles' = [oracles EXCEPT ![p] = Updated(oracles[p], value, now)]
        BY <3>3 DEF WalletUpdate
      <4>2. sender # UpdaterAddress /\ sender \in oracles[p].isWhitelisted
        BY <4>1 DEF Wallet, CanUpdate
      <4>3. p # o
        BY <4>2
      <4> QED BY <2>0, <4>1, <4>3
    <3> QED BY <3>1, <3>2, <3>3
  <2> QED BY <2>1, <2>2
<1> QED BY <1>1, TypeCorrect, PTL DEF Spec, OnlyThroughTheUpdater
=============================================================================
