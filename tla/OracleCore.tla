------------------------------ MODULE OracleCore ------------------------------
(***************************************************************************)
(* The storage of one SpokeVaultOracle contract as a record, and one       *)
(* operator per rule of its code.  SpokeVaultOracle and OracleBatchUpdater *)
(* build their transactions from these operators.                          *)
(*                                                                         *)
(* The EVM's word sizes are parameters: MaxWord is the largest uint256 and *)
(* MaxRound the largest uint80.  Solidity 0.8 reverts on overflow, so a    *)
(* computation that leaves its width is a guard here, not a wrapped value. *)
(***************************************************************************)
EXTENDS BasisPoints

CONSTANTS
  Address,      \* accounts and contracts that may be a msg.sender
  ZeroAddress,  \* address(0)
  MaxWord,      \* type(uint256).max
  MaxRound,     \* type(uint80).max
  UsdScale,     \* 10 ** SPOKE_ASSET_DECIMALS
  NoPrice       \* the registry reverts instead of answering

ASSUME AddressAssumption == ZeroAddress \notin Address
ASSUME WidthAssumption ==
  /\ MaxWord \in Nat \ {0}
  /\ MaxRound \in Nat \ {0}
  /\ UsdScale \in Nat \ {0}
  /\ NoPrice \notin Nat

Word == 0 .. MaxWord
Round == 0 .. MaxRound

OracleState ==
  [owner : Address,
   pendingOwner : Address \cup {ZeroAddress},
   isWhitelisted : SUBSET Address,
   maxChangeBps : Word,
   roundId : Round,
   storedTotalAssets : Word,
   latestTimestamp : Nat,
   rawAnswers : [Round -> Word],
   timestamps : [Round -> Nat]]

(* The constructor: an owner, and zero everywhere else. *)
Deployed(owner) ==
  [owner |-> owner,
   pendingOwner |-> ZeroAddress,
   isWhitelisted |-> {},
   maxChangeBps |-> 0,
   roundId |-> 0,
   storedTotalAssets |-> 0,
   latestTimestamp |-> 0,
   rawAnswers |-> [r \in Round |-> 0],
   timestamps |-> [r \in Round |-> 0]]

-----------------------------------------------------------------------------
(* Mistakes the mutation runs put in the place of the rules below: a        *)
(* breaker that looks at rises only, ...                                    *)
BreakerOnRises(current, v, bps) ==
  bps = 0 \/ current = 0 \/ v < current
    \/ Distance(v, current) * BpsScale <= current * bps

(* The circuit breaker lets v replace current.  It is not consulted when it *)
(* is disabled or nothing is stored yet; when it is, either product may     *)
(* overflow and revert.                                                     *)
BreakerAllows(current, v, bps) ==
  \/ bps = 0
  \/ current = 0
  \/ /\ Distance(v, current) * BpsScale <= MaxWord
     /\ current * bps <= MaxWord
     /\ Distance(v, current) * BpsScale <= current * bps

(* _computeUsdValue: it reverts when the registry does or when the product *)
(* overflows; the cast to int256 re-reads the upper half as negative.      *)
UsdReadable(v, price) == price # NoPrice /\ v * price <= MaxWord

Int256(x) == IF x <= MaxWord \div 2 THEN x ELSE x - (MaxWord + 1)

UsdValue(v, price) == Int256((v * price) \div UsdScale)

(* ... an update() without the whitelist, the zero check, the breaker or    *)
(* the bound on the round counter, ...                                      *)
UpdateByAnyone(o, sender, v, price) ==
  v # 0 /\ BreakerAllows(o.storedTotalAssets, v, o.maxChangeBps)
    /\ o.roundId < MaxRound /\ UsdReadable(v, price)

UpdateToZero(o, sender, v, price) ==
  sender \in o.isWhitelisted
    /\ BreakerAllows(o.storedTotalAssets, v, o.maxChangeBps)
    /\ o.roundId < MaxRound /\ UsdReadable(v, price)

UpdateUnbounded(o, sender, v, price) ==
  sender \in o.isWhitelisted /\ v # 0
    /\ o.roundId < MaxRound /\ UsdReadable(v, price)

UpdateUnchecked(o, sender, v, price) ==
  sender \in o.isWhitelisted /\ v # 0
    /\ BreakerAllows(o.storedTotalAssets, v, o.maxChangeBps)
    /\ UsdReadable(v, price)

(* update(): what must hold for the call not to revert.  The price matters  *)
(* because the AnswerUpdated event carries the USD value.                   *)
CanUpdate(o, sender, v, price) ==
  /\ sender \in o.isWhitelisted
  /\ v # 0
  /\ BreakerAllows(o.storedTotalAssets, v, o.maxChangeBps)
  /\ o.roundId < MaxRound
  /\ UsdReadable(v, price)

(* ... and one that fills the round before it counts it, or does not count  *)
(* a value that repeats.                                                    *)
UpdatedThenCounted(o, v, time) ==
  [o EXCEPT !.roundId = @ + 1, !.storedTotalAssets = v, !.latestTimestamp = time,
            !.rawAnswers[o.roundId] = v, !.timestamps[o.roundId] = time]

UpdatedIfNew(o, v, time) ==
  LET round == IF v = o.storedTotalAssets THEN o.roundId ELSE o.roundId + 1
  IN  [o EXCEPT !.roundId = round, !.storedTotalAssets = v, !.latestTimestamp = time,
                !.rawAnswers[round] = v, !.timestamps[round] = time]

(* update(): the storage it leaves. *)
Updated(o, v, time) ==
  [o EXCEPT !.roundId = @ + 1,
            !.storedTotalAssets = v,
            !.latestTimestamp = time,
            !.rawAnswers[o.roundId + 1] = v,
            !.timestamps[o.roundId + 1] = time]

-----------------------------------------------------------------------------
(* What the readers of the aggregator interface see.  A uint256 round id is *)
(* truncated to uint80 before the lookup.                                   *)
Uint80(id) == id % (MaxRound + 1)

LatestRoundData(o, price) ==
  [roundId |-> o.roundId,
   answer |-> UsdValue(o.storedTotalAssets, price),
   updatedAt |-> o.latestTimestamp]

GetRoundData(o, id, price) ==
  [roundId |-> id,
   answer |-> UsdValue(o.rawAnswers[id], price),
   updatedAt |-> o.timestamps[id]]

GetAnswer(o, id, price) == UsdValue(o.rawAnswers[Uint80(id)], price)

GetTimestamp(o, id) == o.timestamps[Uint80(id)]
=============================================================================
