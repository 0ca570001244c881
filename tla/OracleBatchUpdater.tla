-------------------------- MODULE OracleBatchUpdater --------------------------
(***************************************************************************)
(* The batch updater together with the oracles it writes to.  A keeper     *)
(* wallet calls batchUpdate(); the updater, as msg.sender, calls update()  *)
(* on each oracle in turn, and one refusal reverts the whole transaction.  *)
(* A wallet an oracle whitelists itself may also call that oracle directly.*)
(*                                                                         *)
(* Ownership of the single oracles does not change here (SpokeVaultOracle  *)
(* covers it) and the registry answers a fixed price.                      *)
(***************************************************************************)
EXTENDS OracleCore, Filtering, SequencesExt

CONSTANTS
  Oracle,          \* the SpokeVaultOracle contracts
  UpdaterAddress,  \* this contract, as the oracles see it
  OracleOwner,     \* the account that deployed the oracles
  Value,           \* totalAssets() values a caller may submit
  Bps,             \* arguments of setMaxChangeBps
  Price,           \* the registry's answer
  MaxBatch,        \* bound on the length of a batch
  MaxTime          \* bound on block.timestamp

ASSUME BatchAssumption ==
  /\ UpdaterAddress \in Address
  /\ OracleOwner \in Address
  /\ Value \subseteq Word
  /\ Bps \subseteq Word
  /\ Price \in Nat
  /\ MaxBatch \in Nat
  /\ MaxTime \in Nat

VARIABLES
  updater,  \* owner, pendingOwner and isWhitelisted of this contract
  oracles,  \* storage of each oracle
  now,      \* block.timestamp
  lastTx    \* history: the batch executed by the last step, if it was one

vars == <<updater, oracles, now, lastTx>>

Wallet == Address \ {UpdaterAddress}

Calls == BoundedSeq([oracle : Oracle, value : Value], MaxBatch)

NotABatch == [batch |-> FALSE, calls |-> <<>>, ok |-> TRUE]

TypeOK ==
  /\ updater \in [owner : Address,
                  pendingOwner : Address \cup {ZeroAddress},
                  isWhitelisted : SUBSET Address]
  /\ oracles \in [Oracle -> OracleState]
  /\ now \in 0 .. MaxTime
  /\ lastTx \in [batch : BOOLEAN, calls : Calls, ok : BOOLEAN]

Init ==
  /\ \E deployer \in Wallet :
       updater = [owner |-> deployer, pendingOwner |-> ZeroAddress, isWhitelisted |-> {}]
  /\ oracles = [o \in Oracle |-> Deployed(OracleOwner)]
  /\ now = 0
  /\ lastTx = NotABatch

-----------------------------------------------------------------------------
(* The loop of batchUpdate over all calls.  A call that reverts bubbles up, *)
(* so the loop's result is either the storage after the last call or a      *)
(* revert, after which the later calls make no difference.                  *)
ApplyCall(tx, call) ==
  IF tx.ok /\ CanUpdate(tx.oracles[call.oracle], UpdaterAddress, call.value, Price)
  THEN [tx EXCEPT !.oracles[call.oracle] = Updated(@, call.value, now)]
  ELSE [tx EXCEPT !.ok = FALSE]

ExecutedUpTo(calls) ==
  LET tx[n \in 0 .. Len(calls)] ==
        IF n = 0 THEN [ok |-> TRUE, oracles |-> oracles]
                 ELSE ApplyCall(tx[n - 1], calls[n])
  IN  tx

Executed(calls) == ExecutedUpTo(calls)[Len(calls)]

(* Mistake: a refused call is skipped and the others stand. *)
BatchUpdateSkipping(sender, os, vs) ==
  LET calls == [i \in DOMAIN os |-> [oracle |-> os[i], value |-> vs[i]]]
      tx == Executed(calls)
  IN  /\ sender \in updater.isWhitelisted
      /\ Len(os) = Len(vs)
      /\ oracles' = tx.oracles
      /\ lastTx' = [batch |-> TRUE, calls |-> IF tx.ok THEN calls ELSE <<>>, ok |-> tx.ok]
      /\ UNCHANGED <<updater, now>>

(* batchUpdate(oracles, values); os and vs are the two calldata arrays. *)
batchUpdate(sender, os, vs) ==
  LET calls == [i \in DOMAIN os |-> [oracle |-> os[i], value |-> vs[i]]]
      tx == Executed(calls)
  IN  /\ sender \in updater.isWhitelisted
      /\ Len(os) = Len(vs)
      /\ oracles' = IF tx.ok THEN tx.oracles ELSE oracles
      /\ lastTx' = [batch |-> TRUE, calls |-> IF tx.ok THEN calls ELSE <<>>, ok |-> tx.ok]
      /\ UNCHANGED <<updater, now>>

setWhitelisted(sender, keeper, status) ==
  /\ sender = updater.owner
  /\ keeper # ZeroAddress
  /\ updater' = [updater EXCEPT !.isWhitelisted =
                   IF status THEN @ \cup {keeper} ELSE @ \ {keeper}]
  /\ lastTx' = NotABatch
  /\ UNCHANGED <<oracles, now>>

transferOwnership(sender, newOwner) ==
  /\ sender = updater.owner
  /\ newOwner # ZeroAddress
  /\ updater' = [updater EXCEPT !.pendingOwner = newOwner]
  /\ lastTx' = NotABatch
  /\ UNCHANGED <<oracles, now>>

acceptOwnership(sender) ==
  /\ sender = updater.pendingOwner
  /\ updater' = [updater EXCEPT !.owner = sender, !.pendingOwner = ZeroAddress]
  /\ lastTx' = NotABatch
  /\ UNCHANGED <<oracles, now>>

-----------------------------------------------------------------------------
(* Transactions sent to an oracle itself. *)
OracleSetWhitelisted(o, account, status) ==
  /\ oracles' = [oracles EXCEPT ![o].isWhitelisted =
                   IF status THEN @ \cup {account} ELSE @ \ {account}]
  /\ lastTx' = NotABatch
  /\ UNCHANGED <<updater, now>>

OracleSetMaxChangeBps(o, bps) ==
  /\ oracles' = [oracles EXCEPT ![o].maxChangeBps = bps]
  /\ lastTx' = NotABatch
  /\ UNCHANGED <<updater, now>>

DirectUpdate(sender, o, value) ==
  /\ sender # UpdaterAddress
  /\ CanUpdate(oracles[o], sender, value, Price)
  /\ oracles' = [oracles EXCEPT ![o] = Updated(@, value, now)]
  /\ lastTx' = NotABatch
  /\ UNCHANGED <<updater, now>>

NextBlock ==
  /\ now < MaxTime
  /\ now' = now + 1
  /\ lastTx' = NotABatch
  /\ UNCHANGED <<updater, oracles>>

(* The updater contract sends nothing but the calls of its own loop. *)
Next ==
  \/ \E sender \in Wallet :
       \/ \E os \in BoundedSeq(Oracle, MaxBatch), vs \in BoundedSeq(Value, MaxBatch) :
            batchUpdate(sender, os, vs)
       \/ \E keeper \in Wallet, status \in BOOLEAN :
            setWhitelisted(sender, keeper, status)
       \/ \E newOwner \in Wallet : transferOwnership(sender, newOwner)
       \/ acceptOwnership(sender)
       \/ \E o \in Oracle, value \in Value : DirectUpdate(sender, o, value)
  \/ \E o \in Oracle, account \in Address, status \in BOOLEAN :
       OracleSetWhitelisted(o, account, status)
  \/ \E o \in Oracle, bps \in Bps : OracleSetMaxChangeBps(o, bps)
  \/ NextBlock

Spec == Init /\ [][Next]_vars

-----------------------------------------------------------------------------
CallsTo(tx, o) == Filtered(tx.calls, {i \in DOMAIN tx.calls : tx.calls[i].oracle = o})

(* A batch is all or nothing, oracle by oracle: after one that succeeds     *)
(* every oracle it names shows its last value for it at the block's time,   *)
(* one round later for each time it was named, and the others did not       *)
(* move; after one that fails nothing moved.                                *)
BatchIsAtomic ==
  [][lastTx'.batch =>
       \A o \in Oracle :
         LET calls == CallsTo(lastTx', o)
         IN  IF lastTx'.ok /\ calls # <<>>
             THEN /\ oracles'[o].storedTotalAssets = Last(calls).value
                  /\ oracles'[o].latestTimestamp = now
                  /\ oracles'[o].roundId = oracles[o].roundId + Len(calls)
             ELSE oracles'[o] = oracles[o]]_vars

(* One batch moves an oracle it names once by no more than that oracle's    *)
(* breaker allows from the value before the transaction, whatever else the  *)
(* batch contains.                                                          *)
BatchWithinBreaker ==
  [][lastTx'.batch =>
       \A o \in Oracle :
         Len(CallsTo(lastTx', o)) = 1 =>
           BreakerAllows(oracles[o].storedTotalAssets,
                         oracles'[o].storedTotalAssets,
                         oracles[o].maxChangeBps)]_vars

(* Two layers of authority: an oracle that whitelists only the updater is   *)
(* written only in a batch, and only while the updater whitelists a wallet, *)
(* so removing the keepers there stops every such oracle.                   *)
OnlyThroughTheUpdater ==
  [][\A o \in Oracle :
       /\ oracles[o].isWhitelisted \subseteq {UpdaterAddress}
       /\ oracles'[o].roundId # oracles[o].roundId
       => lastTx'.batch /\ updater.isWhitelisted # {}]_vars

(* Every oracle's feed stays readable in order, also when one batch names   *)
(* it twice: its last round is its latest value, and times do not go back.  *)
FeedsInOrder ==
  \A o \in Oracle :
    LET s == oracles[o]
    IN  /\ s.rawAnswers[s.roundId] = s.storedTotalAssets
        /\ s.timestamps[s.roundId] = s.latestTimestamp
        /\ \A r \in 1 .. s.roundId :
             s.rawAnswers[r] > 0 /\ s.timestamps[r - 1] <= s.timestamps[r]
=============================================================================
