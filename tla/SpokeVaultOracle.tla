--------------------------- MODULE SpokeVaultOracle ---------------------------
(***************************************************************************)
(* One SpokeVaultOracle contract on the hub chain: the feed it publishes,  *)
(* its circuit breaker, its whitelist and its two-step ownership.          *)
(*                                                                         *)
(* Each action is a transaction that succeeds.  A transaction whose guard  *)
(* is false reverts, which leaves the storage as it was: a stuttering step.*)
(***************************************************************************)
EXTENDS OracleCore, Sequences

CONSTANTS
  Value,   \* totalAssets() values a caller may submit
  Bps,     \* arguments of setMaxChangeBps
  Price,   \* answers of the hub's OracleRegistry
  MaxTime  \* bound on block.timestamp

ASSUME InputAssumption ==
  /\ Value \subseteq Word
  /\ Bps \subseteq Word
  /\ Price \subseteq Nat
  /\ MaxTime \in Nat

VARIABLES
  oracle,     \* the contract's storage
  price,      \* what getAssetPrice answers now, NoPrice when it reverts
  now,        \* block.timestamp
  nominator,  \* history: who made the last nomination still open
  inForce     \* history: maxChangeBps when each round was written

vars == <<oracle, price, now, nominator, inForce>>

TypeOK ==
  /\ oracle \in OracleState
  /\ price \in Price \cup {NoPrice}
  /\ now \in 0 .. MaxTime
  /\ nominator \in Address \cup {ZeroAddress}
  /\ inForce \in [Round -> Word]

Init ==
  /\ \E deployer \in Address : oracle = Deployed(deployer)
  /\ price \in Price
  /\ now = 0
  /\ nominator = ZeroAddress
  /\ inForce = [r \in Round |-> 0]

-----------------------------------------------------------------------------
setWhitelisted(sender, updater, status) ==
  /\ sender = oracle.owner
  /\ updater # ZeroAddress
  /\ oracle' = [oracle EXCEPT !.isWhitelisted =
                  IF status THEN @ \cup {updater} ELSE @ \ {updater}]
  /\ UNCHANGED <<price, now, nominator, inForce>>

setMaxChangeBps(sender, bps) ==
  /\ sender = oracle.owner
  /\ oracle' = [oracle EXCEPT !.maxChangeBps = bps]
  /\ UNCHANGED <<price, now, nominator, inForce>>

transferOwnership(sender, newOwner) ==
  /\ sender = oracle.owner
  /\ newOwner # ZeroAddress
  /\ oracle' = [oracle EXCEPT !.pendingOwner = newOwner]
  /\ nominator' = sender
  /\ UNCHANGED <<price, now, inForce>>

(* Mistake: the nomination stays open. *)
AcceptKeepingNomination(sender) ==
  /\ sender = oracle.pendingOwner
  /\ oracle' = [oracle EXCEPT !.owner = sender]
  /\ UNCHANGED <<price, now, nominator, inForce>>

acceptOwnership(sender) ==
  /\ sender = oracle.pendingOwner
  /\ oracle' = [oracle EXCEPT !.owner = sender, !.pendingOwner = ZeroAddress]
  /\ UNCHANGED <<price, now, nominator, inForce>>

update(sender, totalAssets) ==
  /\ CanUpdate(oracle, sender, totalAssets, price)
  /\ oracle' = Updated(oracle, totalAssets, now)
  /\ inForce' = [inForce EXCEPT ![oracle.roundId + 1] = oracle.maxChangeBps]
  /\ UNCHANGED <<price, now, nominator>>

(* The chain and the registry around the contract. *)
NextBlock ==
  /\ now < MaxTime
  /\ now' = now + 1
  /\ UNCHANGED <<oracle, price, nominator, inForce>>

RegistryMoves ==
  /\ price' \in Price \cup {NoPrice}
  /\ UNCHANGED <<oracle, now, nominator, inForce>>

Transaction ==
  \E sender \in Address :
    \/ \E updater \in Address, status \in BOOLEAN :
         setWhitelisted(sender, updater, status)
    \/ \E bps \in Bps : setMaxChangeBps(sender, bps)
    \/ \E newOwner \in Address : transferOwnership(sender, newOwner)
    \/ acceptOwnership(sender)
    \/ \E totalAssets \in Value : update(sender, totalAssets)

Next == Transaction \/ NextBlock \/ RegistryMoves

Spec == Init /\ [][Next]_vars

-----------------------------------------------------------------------------
Published == 1 .. oracle.roundId

(* The two ways to read the feed agree: latestRoundData is getRoundData of  *)
(* the latest round, which is also what getAnswer and getTimestamp give for *)
(* it.  The contract keeps the latest value twice (storedTotalAssets and    *)
(* _rawAnswers) and the time twice, so every path must move both.           *)
LatestIsLastRound ==
  \A p \in Price :
    LET latest == LatestRoundData(oracle, p)
    IN  /\ latest = GetRoundData(oracle, oracle.roundId, p)
        /\ latest.answer = GetAnswer(oracle, oracle.roundId, p)
        /\ latest.updatedAt = GetTimestamp(oracle, oracle.roundId)

(* Rounds are gap-free and ordered: every round up to the latest holds a    *)
(* positive value and a time no later than its successor's and no later     *)
(* than now, and rounds not yet published read as zero.                     *)
RoundsInOrder ==
  /\ \A r \in Published : oracle.rawAnswers[r] > 0 /\ oracle.timestamps[r] <= now
  /\ \A r, s \in Published : r < s => oracle.timestamps[r] <= oracle.timestamps[s]
  /\ \A r \in Round \ Published : oracle.rawAnswers[r] = 0 /\ oracle.timestamps[r] = 0

(* The circuit breaker bounds the whole published history, not only the     *)
(* last update: wherever a round was written with the breaker enabled, it   *)
(* moved at most that many basis points from the round before, whatever the *)
(* owner did to the breaker between, before or after.                       *)
HistoryWithinBreaker ==
  \A r \in Published :
    r > 1 /\ inForce[r] > 0 =>
      Distance(oracle.rawAnswers[r], oracle.rawAnswers[r - 1]) * BpsScale
        <= oracle.rawAnswers[r - 1] * inForce[r]

(* An open nomination was made by the present owner: once a nominee accepts,*)
(* nobody an earlier owner nominated can still take the contract.           *)
NominationIsCurrent ==
  oracle.pendingOwner # ZeroAddress => nominator = oracle.owner

(* The contract implements the append-only feed its readers rely on.        *)
Feed == INSTANCE RoundFeed WITH
  log <- [r \in Published |->
            [value |-> oracle.rawAnswers[r], at |-> oracle.timestamps[r]]]

FeedSpec == Feed!FeedSpec
=============================================================================
