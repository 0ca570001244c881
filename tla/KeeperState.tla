------------------------------ MODULE KeeperState ------------------------------
(***************************************************************************)
(* What the tasks of one keeper process share: the vaults and oracles they *)
(* read and write, the transactions they have in flight, and the state     *)
(* behind the process's mutexes.  ScheduledLoop, MonitorLoop and           *)
(* BridgeWarning add one task each; Keeper puts them together.             *)
(*                                                                         *)
(* A tick is about half an hour.  What the tasks do takes seconds to       *)
(* minutes, so it takes no ticks: only sleeping does.  Moments are kept as *)
(* ages in ticks, capped where nothing tells them apart any more.          *)
(***************************************************************************)
EXTENDS DriftCore, SequencesExt

CONSTANTS
  \* config.toml
  Spokes,              \* the active spokes, each with an oracle, in file order
  UpdateInterval,      \* update_interval_secs
  MinUpdateInterval,   \* min_update_interval_secs
  SkipIfFresh,         \* skip_if_fresh_secs
  EarlyPushThreshold,  \* early_push_threshold_bps; 0: no monitor loop
  MaxRetries,          \* max_retries
  BridgeTimeout,       \* BRIDGE_WARNING_TIMEOUT_SECS
  HasOwnerKey,         \* ORACLE_OWNER_PRIVATE_KEY is set
  \* environment
  Value,               \* what totalAssets() may return
  Unreadable,          \* spokes whose RPC may fail all three attempts
  PeerValues,          \* what a peer's live reading of a spoke may be
  PeerCount,           \* how many peers at most answer with their readings
  Environments,        \* the surroundings the keeper may be started in
  None

Spoke == Range(Spokes)

(* read_all_spokes() reports 1 for a vault it could not read. *)
Sentinel == 1

(* What surrounds a keeper for good, and how many events of a kind are left *)
(* to come (bounds): Init picks one of Environments.                        *)
Environment ==
  [reliable : BOOLEAN,    \* calls to the Flow RPC never fail
   listed : SUBSET Spoke, \* whose oracles whitelist the keeper wallet itself too
   drift : BOOLEAN,       \* the drift tracker is configured
   breaker : Nat,         \* maxChangeBps of every oracle at the start
   others : BOOLEAN,      \* other keepers push too
   peersFail : BOOLEAN,   \* peers may look stale to the sync loop
   warners : SUBSET {"curator", "peer"},
   warnings : Nat, restarts : Nat, posts : Nat]

Reported == Value \cup {Sentinel}

ASSUME KeeperAssumption ==
  /\ Spokes \in Seq(Spoke) /\ IsInjective(Spokes) /\ Spokes # <<>>
  /\ {UpdateInterval, MinUpdateInterval, SkipIfFresh, EarlyPushThreshold,
      MaxRetries, BridgeTimeout} \subseteq Nat
  /\ UpdateInterval > 0
  /\ HasOwnerKey \in BOOLEAN
  /\ Value \subseteq Nat \ {0}
  /\ Unreadable \subseteq Spoke
  /\ PeerValues \subseteq Reported
  /\ PeerCount \in Nat
  /\ Environments \subseteq Environment
  /\ None \notin Nat

VARIABLES
  vault,       \* totalAssets() of each spoke, as its safe block has it
  oracle,      \* each oracle: stored value, age of the last update, breaker
  pool,        \* the transaction each loop has sent and the chain not yet mined
  lastPushed,  \* LastPushedState: per spoke, what was pushed last and its age
  history,     \* DriftTracker: observations per oracle
  warnings,    \* BridgeWarningStore
  sched,       \* where the scheduled loop is
  mon,         \* where the monitor loop is
  request,     \* the bridge warning being handled, and its spawned task
  notified,    \* the Notify permit left by POST /update or the peer sync loop
  env          \* the keeper's surroundings

vars == <<vault, oracle, pool, lastPushed, history, warnings, sched, mon,
          request, notified, env>>

FlowMayFail == ~env.reliable

Max2(a, b) == IF a > b THEN a ELSE b

Call == [spoke : Spoke, value : Reported]
Tx == [direct : BOOLEAN, calls : Seq(Call)]
PushRecord == [value : Reported, age : 0 .. SkipIfFresh]
Warning == [pre : Reported \cup {0}, delta : Nat, age : Nat, original : Nat \cup {None}]

ASSUME NoneIsNoRecord == None \notin Tx /\ None \notin PushRecord

-----------------------------------------------------------------------------
(* The chain.                                                               *)

(* The circuit breaker of SpokeVaultOracle.update(). *)
Passes(c) ==
  LET o == oracle[c.spoke]
  IN  \/ o.bps = 0
      \/ o.stored = 0
      \/ Distance(o.stored, c.value) * BpsScale <= o.stored * o.bps

(* A batch goes through OracleBatchUpdater, which the oracles whitelist and *)
(* which fails as a whole; a direct update needs the wallet whitelisted by  *)
(* the oracle itself.                                                       *)
Executable(tx) ==
  \A c \in Range(tx.calls) :
    /\ Passes(c)
    /\ tx.direct => c.spoke \in env.listed

Stored(calls) ==
  [s \in Spoke |->
     IF \E c \in Range(calls) : c.spoke = s
     THEN [oracle[s] EXCEPT !.stored = (CHOOSE c \in Range(calls) : c.spoke = s).value,
                            !.age = 0]
     ELSE oracle[s]]

(* send(): gas estimation refuses a transaction that would revert now.  A   *)
(* loop whose transaction from before a restart is still pending waits.     *)
CanSend(loop, tx) == pool[loop] = None /\ Executable(tx)

SendFails(tx) == FlowMayFail \/ ~Executable(tx)

(* A transaction is executed when it is mined, against the state then; if   *)
(* it reverts, its receipt says so but nobody looks at the status.          *)
Mine(loop) ==
  /\ pool[loop] # None
  /\ oracle' = IF Executable(pool[loop]) THEN Stored(pool[loop].calls) ELSE oracle
  /\ pool' = [pool EXCEPT ![loop] = None]
  /\ UNCHANGED <<vault, lastPushed, history, warnings, sched, mon, request,
                 notified, env>>

-----------------------------------------------------------------------------
(* What the loops have in common.                                           *)

(* Readings of all spokes, taken in parallel; failed ones report Sentinel.  *)
Readings(failed) ==
  [i \in DOMAIN Spokes |->
     [spoke |-> Spokes[i],
      value |-> IF Spokes[i] \in failed THEN Sentinel ELSE vault[Spokes[i]]]]

(* update_last_pushed_for_calls() *)
Pushed(calls) ==
  [s \in Spoke |->
     IF \E c \in Range(calls) : c.spoke = s
     THEN [value |-> (CHOOSE c \in Range(calls) : c.spoke = s).value, age |-> 0]
     ELSE lastPushed[s]]

(* Both loops let a bridged spoke past the drift check without recording.   *)
DriftLetsThrough(c) ==
  ~env.drift \/ warnings[c.spoke] # None \/ DriftAccepts(history[c.spoke], c.value, 0)

(* An observation made twice in a tick is kept once: nothing tells the two  *)
(* apart, and what is recorded and never sent comes back every minute.      *)
KeptOnce(h) ==
  IF Len(h) > 1 /\ h[Len(h)] = h[Len(h) - 1] THEN Front(h) ELSE h

AfterDriftCheck(calls) ==
  [s \in Spoke |->
     IF env.drift /\ warnings[s] = None /\ \E c \in Range(calls) : c.spoke = s
     THEN KeptOnce(DriftRecorded(history[s],
                                 (CHOOSE c \in Range(calls) : c.spoke = s).value, 0))
     ELSE history[s]]
=============================================================================
