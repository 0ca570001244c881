# Verification of more-oracle

TLA+ specifications of the oracle contracts and of the keepers that feed them,
TLC configurations that check them on small instances, and TLAPS proofs, for
every value of the constants, of what the contracts, the drift tracker, the
keeper's loops, authentication and the mesh of keepers guarantee.

Paths are relative to the repository (`src/...`). Run `tlc -config X.cfg M`
and `tlapm M_proofs.tla` in this directory.

## 1. The system

A hub vault on Flow EVM values the vaults ("spokes") it owns on other chains.
For each spoke there is a `SpokeVaultOracle` contract on the hub chain that
stores the spoke's `totalAssets()` and answers like a Chainlink aggregator.
Keepers (a Rust daemon, several instances) read the spokes over RPC and push
what they read, mostly as one batch through `OracleBatchUpdater`. The hub
refuses deposits and redeems when an oracle is older than six hours.

| Component | State | Operations | Interacts with |
|---|---|---|---|
| `SpokeVaultOracle.sol` | owner, pending owner, whitelist, `maxChangeBps`, round counter, rounds, latest value and time | admin functions, `update`, readers | registry (price), updater, keepers, readers |
| `OracleBatchUpdater.sol` | owner, pending owner, whitelist | admin functions, `batchUpdate` | calls `update` on each oracle as `msg.sender` |
| Drift tracker (`drift.rs`) | observations per oracle | `check_and_record`, `reset` | called by both loops under one mutex |
| Spoke reader (`spoke.rs`) | none | `read_all_spokes` | spoke RPCs; reports 1 for a spoke it cannot read |
| Oracle client (`oracle.rs`) | none | send, wait for receipt, read | Flow RPC |
| Scheduled loop (`main.rs`) | attempt, calls of the cycle; `LastPushedState` | read, cross-validate, skip, push, retry, sleep | drift tracker, warnings, peers, `Notify` |
| Monitor loop (`main.rs`) | readings of the round; `LastPushedState` | read, compare, push, end bridge warnings | drift tracker, warnings, breaker |
| Bridge warnings (`bridge_warning.rs`) | `BridgeWarningStore`; a spawned task per peer's warning | announce, propagate, complete, time out | switches the oracle's breaker off and on |
| Peer cross-validation (`peers.rs`) | none | replace or drop a failed reading | peers' live readings |
| Peer mesh (`peers.rs`, `handlers/peers.rs`) | registry, spawned tasks | register, verify, notify, sync, evict, fail over | `Notify`, `/status` of peers |
| Challenge authentication (`update.rs`, `handlers/peers.rs`, `security.rs`) | challenge per wallet, whitelist cache | issue, verify | updater's whitelist; every protected endpoint |
| Startup (`main.rs`, `peers.rs`) | none | place in the schedule, registration, sleep | peers' `/status`, oracle |
| Status, HTTP, configuration, telegram, metrics | reports | read-only | the timeout layer drops handlers |

What is hard here, and what correctness means for each part:

- **Contract.** Long sequences of legal transactions; two copies of the latest
  entry; overflow that reverts. Correct: rounds are gap-free, positive, ordered
  in time and within the breaker in force when they were written; all readers
  agree; a nomination dies with the owner who made it.
- **Updater.** One call of many fails; an oracle named twice. Correct: all or
  nothing, and no way around an oracle's own rules.
- **Drift tracker.** Two callers that take the time before they take the mutex; a
  limit that is cumulative but must not last. Correct: what passes is near an
  observation as old as any in the window, but for the wait for the mutex; nothing
  is refused for ever.
- **Loops.** Two tasks and other keepers push the same oracle from readings
  taken earlier; three independent skips; retries; lost receipts; restarts.
  Correct: failed readings are not pushed, cycles end, oracles stay young and
  converge to their vaults, the keeper's record of its pushes is right, and what it
  skips as fresh is fresh.
- **Bridge warnings.** State in memory that undoes a change on chain; handler,
  spawned task and monitor interleave without a common lock; handlers are
  dropped; warnings time out. Correct: warnings end, for a reason, the breaker
  comes back, the bridged value arrives.
- **Authentication.** One challenge per wallet, shared by tasks that run
  concurrently; a cached whitelist. Correct: a challenge lets its wallet in once
  and in time, a revoked wallet is soon refused, and a task of its own wallet
  always gets in again.
- **Mesh.** Lost registrations, eviction, restarts, a circular schedule.
  Correct: everybody comes to know everybody, a peer is evicted only after an
  outage but a dead one in the end, an overdue peer is covered for, a new keeper
  starts as far from the others as it can.

`PROJECT.json` lists every component and, under `hazards`, each of these at its
line.

## 2. Modules

| Module | Models |
|---|---|
| `BasisPoints` | `calculate_delta_bps`, the distances of both languages |
| `OracleCore` | storage of one oracle as a record; each rule of the contract as an operator |
| `SpokeVaultOracle` | one oracle: every transaction, blocks, the registry |
| `RoundFeed` | abstract: an append-only log of positive values with non-decreasing times |
| `OracleBatchUpdater` | the updater with the oracles it writes to |
| `Filtering` | what `filter`, `retain` and loops over a `Vec` leave of a sequence |
| `DriftCore` | `check_and_record` on one history |
| `DriftTracker` | the tracker shared by two loops, time, reset, restart |
| `KeeperState` | what the tasks of a keeper share; vaults, oracles and transactions |
| `ScheduledLoop`, `MonitorLoop`, `BridgeWarning` | one task each |
| `Keeper` | their composition with other keepers, wake-ups, restarts and time |
| `Admission` | abstract: issued challenges of which each admits its wallet once, in time |
| `ChallengeAuth` | challenge store, verification and whitelist cache under concurrent requests |
| `PeerMesh` | the keepers' registries, startup, registration, notification, sync, failover |
| `*_proofs` | the theorems of section 5 |
| `MC*` | values for the constants |

`Filtering` says by recursion over the prefixes what `SelectSeq` says, and takes
the places to keep as a set; the updater's batch is written the same way
(`ExecutedUpTo`: the oracles and the verdict after the first `n` calls). That is
what makes sequences of any length accessible to proofs. `OracleCore` and
`DriftCore` are used twice: the contract's rules by
`SpokeVaultOracle` and `OracleBatchUpdater`, the tracker's by `DriftTracker` and
by both loops of `Keeper`. The keeper's chain keeps of an oracle only what the
keeper can see or change: stored value, age, breaker. `PeerMesh` keeps of a
scheduled cycle only its end, when `last_cycle_at` is set; `Keeper` keeps of the
mesh the wake-ups it causes, the readings peers report and the warnings they
pass on. Both take requests as authenticated; `ChallengeAuth` is what that
means.

Definitions headed *Mistake* are not the code's. Each is a plausible bug and
stands before the definition it would replace; `PROJECT.json`, `mutants`, names
the property that notices it.

### How the models correspond to the code

- **A contract action is a transaction that succeeds**; a revert changes nothing
  and is a stuttering step. Solidity's checked arithmetic is in the guards:
  the breaker's two products, the USD product (computed for the event, so a
  failing registry makes `update` revert), the `uint80` counter.
- **A keeper action is a stretch of code between two points where another task
  can change what it uses**: a sleep, an RPC, a request, a transaction, the
  release of one mutex before the next is taken with something in between that
  matters. Sending, execution and receipt of a transaction are three steps
  (`CanSend`, `Mine`, the receipt actions). Estimation refuses a transaction
  that would revert when it is sent; execution is against the state when it is
  mined; any receipt counts as success, as in `push_update`.
- **Spawned tasks** are state of their own: `switching` of a bridge request
  (`bridge_warning.rs:433`), `notices` and `joins` of the mesh
  (`handlers/peers.rs:196`, `291`, `400`). They run at any later step and die
  with the process.
- **Startup** is a phase. In `Keeper` the scheduled loop begins in `boot`, with
  any sleep up to an interval, and the monitor waits for it; the API answers
  from the first step on, as `main.rs` spawns it before the sleep. In `PeerMesh`
  a keeper is `joining`, then `waiting`, then `running`, and its sleep is what
  `calculate_startup_sleep` computes from the peers that answer.
- **Time.** A tick is about half an hour in `Keeper`, a quarter of an interval
  in `PeerMesh`, a minute in `ChallengeAuth`. What the tasks do takes seconds to
  minutes and so no tick, but a request of `ChallengeAuth` may see one. Moments
  are kept as ages, expiry times as what is left, which makes the state space
  finite without bounding the run. They are capped above the largest value any
  comparison uses.
- **Values** are a few numbers chosen for the thresholds they cross; the
  arithmetic on them is the code's. A challenge is a name that nobody remembers
  when it is issued; holding it is being able to sign it.

Both `GET /challenge?wallet=` and `GET /peers/challenge` fill the one store that
`verify_auth_for` empties. A task of `ChallengeAuth` is client and handler of
one exchange: GET, whitelist lookup (cache or chain), store, POST, removal,
lookup again. A `careless` client posts late, not at all, or again. Both
endpoints give a challenge two minutes, the larger of their constants
(`handlers/peers.rs:102`).

In `PeerMesh` a `timed` fleet goes through hours; the others join, verify and
notify within one tick, where the order of messages is everything. Links may be
`weak`: in a tick a request on one does not arrive or its answer is lost. Any
JSON answer to a poll counts as seen, a refusal included
(`peers.rs:582`: all fields are optional). A configured peer that is down when a
keeper starts is not asked again; the mesh relies on that peer to register when
it starts.

Abstractions that hide detail: the monitor's decision about one spoke is one
step (its mutexes are taken within microseconds); all spokes of a reading are
read at one moment, which the safe block's delay turns into the present;
`setMaxChangeBps` is one step; a lost receipt is lost after the transaction was
mined, and a transaction is not replaced; each loop has at most one transaction
in flight, also across a restart; the retry delay is less than a tick; one
bridge request is handled at a time; failover wake-ups come between cycles
(`PeerLooksStale`; a permit in the middle of one is `PostUpdate`'s); an
observation that the drift tracker makes twice within a tick is kept once
(`KeptOnce`); the staleness check reads the oracle's time as it is and not as it
was at the finalized block (`oracle.rs:64`); vault values are positive, so that an
empty vault's 0, which `spoke.rs:70` turns into the placeholder 1 without calling
the reading failed, does not occur, and `FailedReadingNotPushed` says nothing about
it; `/status` data other than the last cycle, metrics and messages are left out.

## 3. Runs

| Run | Instance | Shows |
|---|---|---|
| `oracle` | 2 accounts, values 0, 10, 11, 12, breakers 0, 1000 bps and one that overflows, 3 rounds, 2 blocks | `TypeOK`, readers agree, rounds ordered, history within the breaker, nominations current, implements `RoundFeed` |
| `batch` | 2 oracles, batches up to 2, 2 values, 2 rounds | batches atomic, no way round an oracle's breaker or whitelist, feeds in order |
| `drift` | 2 loops, 3 values, window of 2 ticks, a loop held up for a tick before the mutex | observations ordered up to that tick, cumulative limit at every check, no permanent refusal |
| `keeper_scheduled` | scheduled loop alone, 2 spokes of which one may be unreadable, 2 peers, a breaker of 950 bps; the wallet whitelisted by both oracles, by one, by none; with and without failing RPCs and a restart | record equals chain, fallback independent, hourly cycle has work, sentinel never pushed, cycles end |
| `keeper_loops` | both loops, 1 spoke; with other keepers, restart, POST and failover; behind a failing RPC; with the drift limit and a restart; with a curator's warning; with two warnings, of curator and peer; with one of either when anything may fail | under the hub's threshold, or by a window over it when drift suspends; skips founded; converges; warnings end, for cause; the breaker comes back |
| `auth` | three tasks: two of one wallet and one of them careless, or two with a wallet each; one wallet is listed and unlisted | implements `Admission`, revocation takes effect, lone tasks get in again |
| `peers` | a timed pair with a crash, a timed pair with a crash and a weak link, three keepers with a crash, a pair of which one verifies the old way, with a crash | farthest start, overdue peers covered, eviction only after an outage, dead peers forgotten, the mesh forms |
| `keeper_sentinel`, `keeper_representative`, `keeper_second_warning`, `keeper_bridged_value`, `peers_star` | section 4 | disagreements |

**Why the bounds are enough.** Three rounds let the counter reach its end and a
round have a neighbour on both sides of a breaker change. Two calls are the
shortest batch that can fail half way or repeat an oracle. The window, the
intervals, the bridge timeout and the lives of challenges and cache entries are
each at least two ticks, so that every comparison with `<` and `<=` comes out
both ways. With a breaker of 950 bps an oracle takes 110 to 100 but not 100 to
110, so a push can be refused, a batch can fail for one oracle of two, and the
refusal can end; with 500 bps it takes neither, so a bridge (a change of 10)
needs the breaker off. Hub settings are `config.toml`'s in ticks: interval 2,
minimum 1, skip window 2, six hours 12; the bridge timeout is shortened from 12
ticks to 2, the whitelist cache from 5 to 2. In `keeper_loops` six hours are
shortened to 6 ticks, and the drift window, 8 ticks, is longer than that, as the 24
hours that the keeper `README.md:373` recommends are longer than six; one attempt
at a cycle instead of three, as `keeper_scheduled` retries. In `PeerMesh` the interval is 4
ticks, so a schedule has positions to choose from; `FailoverAfter` (an interval
and two minutes) is 4 and six hours are shortened to 5. `StartsFarthest` looks at
every moment of the interval, every set of reports and every oracle position.

What is bounded by number is what surrounds the keeper. `Environments` of
`MCKeeper` and `Configured` of `MCPeerMesh` list the surroundings; each says what
may happen and how often: one restart, two warnings, one POST, one crash. They
are where the properties hold; section 4 says what one more does. Several
surroundings in one run do not mix: `env`, `fleet` and `walletOf` never change
but for the counts of events still to come. `peers` ends a fleet without time
when everything is said, so that run does not check for deadlock.

**Fairness.** Safety needs none. `DriftTracker` assumes weak fairness of each
loop's two steps (they run for ever and tokio's mutex is fair) and of time.
`Keeper` assumes weak fairness of each task (a tokio task that can run does, and
every RPC in the code returns or fails), of mining, and strong fairness of
`Tick`: however often the loops wake up in between, time passes. `get_receipt`
has no timeout in the code; that it returns is the assumption behind `CycleEnds`.
`ChallengeAuth` assumes weak fairness of the server's steps and of the GETs and
POSTs of the keepers' own tasks, which come back every minute, and strong
fairness of `Tick`. `PeerMesh` assumes weak fairness of a running keeper's steps,
of spawned tasks and of time; nobody has to start a keeper, and `MeshForms` asks
only about runs in which all come to be up. None of vault moves, other keepers,
requests, failures, revocations, crashes or restarts is fair.

## 4. Where the code and its documentation differ

Each is a run that TLC ends with a counterexample.

- `keeper_sentinel` — `spoke.rs:55` says a spoke that cannot be read "will be
  skipped". The monitor drops the flag (`main.rs:327`) and pushes the
  placeholder 1.
- `keeper_representative` — `README.md:104` promises an hourly push and five
  hours of margin. The staleness check looks at the first oracle only
  (`main.rs:1098`); if the monitor keeps that one fresh, no cycle ever reaches
  the others.
- `keeper_second_warning` — `bridge_warning.rs:115` promises that the breaker is
  restored. A second warning for the spoke finds it off, records nothing to
  restore and replaces the first.
- `keeper_bridged_value` — the monitor means to push past the protections
  (`main.rs:436`), but `complete_bridge_warning` restores the breaker first
  (`main.rs:418`), and the bridged value trips it.
- `peers_star` — the keeper `README.md:295` says that a keeper that accepts a
  registration registers back, and `:297` that the full mesh forms by itself.
  `/peers/register` spawns notifications only (`handlers/peers.rs:196`), and a
  notified keeper registers with the new one without entering it in its own
  registry. Of two keepers configured only with a third, one never knows the
  other. When all are configured with all, the mesh forms (`peers`).

Differences that need no run: `handlers/peers.rs:25` describes a peer challenge
store of its own, but there is one store; `GET /challenge` without a wallet
issues an `update:` challenge that `POST /update` never accepts; the keeper
`README.md:290` registers after the startup sleep, the code before
(`main.rs:231`), so a registry may go unpolled for an interval, which counts as
silence of the peers.

Other disagreements show in instances one change away from a run: a property of the
run stops holding there, or the run's own instance breaks a stronger form of the
property, which is what a comment or document says.

| Property | Change, or stronger form | What happens |
|---|---|---|
| `KeeperViewMatchesChain` | `keeper_scheduled` with `EarlyPushThreshold = 25` | the scheduled loop records its older push after the monitor's newer one (`main.rs:797`; `main.rs:33` says "last pushed on-chain") |
| `FallbackIsIndependent` | with `~Passes(c)` for `~TakenAlone(c)`: only a breaker refuses (`oracle.rs:153`) | false in `keeper_scheduled` where `listed` is not all oracles: those that whitelist only the updater, as `OracleBatchUpdater.sol:14` and the keeper `README.md:28` describe, refuse every individual update, of a cycle with one spoke too, and every push of the monitor. `DeploySpokeOracles.s.sol:93` whitelists the keeper on each oracle |
| `CycleHasWork` | `posts = 1` | a forced cycle within the skip window pushes nothing: the loop's own pushes count as fresh (`main.rs:674`; keeper `README.md:73`, `425`) |
| `BreakerRestored` | a warning and `restarts = 1` | what is to be restored is forgotten in the restart |
| `BreakerRestored`, asked of peers' warnings too | a peer's warning that carries the breaker it found | the spawned task switches the breaker off after the monitor has restored it (`bridge_warning.rs:433`) |
| `BreakerRestored`, asked of unreliable runs too | a warning whose request is dropped after `setMaxChangeBps(0)` | the timeout layer (`api/mod.rs:207`) ends the handler before it stores what is to be restored |
| `WarningEndsForCause` | without `w.age > 0`, as `bridge_warning.rs:108` says | false in `keeper_loops`, where there are two warnings: the monitor removes one that has just replaced the one it decided about (`main.rs:503`) |
| `WarningEnds` | `EarlyPushThreshold = 0` | only the monitor notices timeouts (`api/mod.rs:112`) |
| `OrderedUpToLag` | with 0 for `MaxLag`: "ordered by time" (`drift.rs:25`) | false in `drift`: loops take their time before the mutex (`main.rs:389`, `697`), and the later time may get it first |
| `NeverStale` | without `~env.drift` | false in `keeper_loops`: a move past the limit suspends the spoke for the window, which at its default and recommended 24 hours is longer than the six of the hub; `config.rs:57` sees two hours of margin for an operator. What holds is `SuspensionEnds` |
| `EvictedOnlyAfterOutage` | two crashes of a peer with a weak link to the keeper | the peer comes back, its registration is lost, and it is down again when the keeper polls: it was up only between polls, and the silence counts on (`peers.rs:602`) |

With drift protection on, a scheduled cycle that read a vault before its bridge
and checks drift after the monitor's reset makes the old value the new anchor
(`main.rs:506`); the value that was just pushed is never recorded. A peer whose
pushes all fail but whose cycles go on looks healthy to the sync loop
(`peers.rs:585`).

## 5. Proofs

| Module | Theorem | Statement |
|---|---|---|
| `SpokeVaultOracle_proofs` | `TypeCorrect` | `Spec => []TypeOK` |
| | `NominationStaysCurrent` | `Spec => []NominationIsCurrent` |
| | `RoundsStayInOrder` | `Spec => []RoundsInOrder` |
| | `BreakerBoundsHistory` | `Spec => []HistoryWithinBreaker` |
| | `ReadersAgree` | `Spec => []LatestIsLastRound` |
| | `ImplementsFeed` | `Spec => FeedSpec`, the refinement of `RoundFeed` |
| `ChallengeAuth_proofs` | `TypeCorrect` | `Spec => []TypeOK` |
| | `RevokedStayOut` | `Spec => RevokedRefused` |
| `Admission_proofs` | `AdmitsOnce` | `Spec => ChallengesAdmitOnce`, the refinement of `Admission` |
| `OracleBatchUpdater_proofs` | `TypeCorrect` | `Spec => []TypeOK` |
| | `FeedsStayInOrder` | `Spec => []FeedsInOrder` |
| | `BatchesAreAtomic` | `Spec => BatchIsAtomic` |
| | `BatchesStayWithinBreaker` | `Spec => BatchWithinBreaker` |
| | `UpdaterIsTheOnlyWay` | `Spec => OnlyThroughTheUpdater` |
| `DriftTracker_proofs` | `TypeCorrect` | `Spec => []TypeOK` |
| | `OrderedByLag` | `Spec => []OrderedUpToLag` |
| | `DriftIsCumulative` | `Spec => AcceptedNearOldest` |
| `Keeper_proofs` | `TypeCorrect` | `Spec => []TypeOK` |
| | `PlaceholderStaysInside` | no monitor loop, or no unreadable vault: `Spec => []FailedReadingNotPushed` |
| | `WokenWithWork` | nobody wakes the loop early, and the interval is no shorter than the skip window: `Spec => []CycleHasWork` |
| | `FallbackLeavesNoneOut` | no monitor loop, and no other sender while calls are reliable: `Spec => []FallbackIsIndependent` |
| | `SkipsAreFounded` | `Spec => []SkipIsFounded` |
| | `WarningsEndForCause` | `Spec => WarningEndsForCause` |
| | `ScheduleKeepsFresh` | no monitor loop, readable vaults, no other keepers, six hours are long enough: `Spec => []NeverStale` |
| `PeerMesh_proofs` | `TypeCorrect` | `Spec => []TypeOK` |
| | `FailoverCovers` | `Spec => []OverdueIsCovered` |
| | `StartupIsFarthest` | `Spec => []StartsFarthest` |
| | `EvictionNeedsOutage` | keepers announce their return: `Spec => EvictedOnlyAfterOutage` |

A condition before a colon abridges the theorem's `ASSUME`. None is there for the
proof's sake: without it some instance violates the property.

| Theorem | Condition | Without it |
|---|---|---|
| `PlaceholderStaysInside` | `EarlyPushThreshold = 0` or all vaults readable | run `keeper_sentinel` |
| `WokenWithWork` | no POST, no overdue peer, `UpdateInterval >= SkipIfFresh` | section 4, `CycleHasWork`; with an interval of 1 and a skip window of 2 the second cycle finds its own push fresh |
| `FallbackLeavesNoneOut` | no monitor loop; no other keepers, warnings or restarts while calls are reliable | what refused a call changes after the refusal: a warning switches the breaker off; with values 100, 105, 110 a push of the monitor, of another keeper, or from before the restart brings the value within reach |
| `ScheduleKeepsFresh` | `EarlyPushThreshold = 0`, no other keepers | run `keeper_representative` |
| | readable vaults; more than one spoke, or an oracle that whitelists the wallet | what is not pushed ages: a single spoke is pushed without the updater |
| | `StalenessThreshold >= max(MinUpdateInterval, SkipIfFresh) + (restarts + 1) * UpdateInterval` | with intervals of 2, a minimum of 1, a skip window of 2 and one restart TLC finds a stale oracle for 5 when a POST wakes the loop; 6 is the bound |
| | `SkipIfFresh` or `MinUpdateInterval` is positive | an interval of exactly the threshold |
| `EvictionNeedsOutage` | `ReturnsAreNoticed` | section 4, `EvictedOnlyAfterOutage` |

**The contract**, for all word sizes, accounts, values, breakers and prices.
Assumed of the constants: the zero address is no account, the widths are
positive, `NoPrice` is no number, values and breakers fit in a word.

`HistoryWithinBreaker` is not inductive: the breaker compares the
new value with `storedTotalAssets`, the property compares two entries of
`rawAnswers`. `Coherent` says that the copy is the last entry, and
`HistoryInv == TypeOK /\ Coherent /\ RoundsInOrder /\ HistoryWithinBreaker` is
inductive. `HistoryMoves` shows once that every step but `update` and the clock
leaves `HistoryVars` alone; `UpdateHistory` treats `update`, conjunct by
conjunct: old rounds are untouched, the new one is positive by the zero check,
not before the last because no round is later than `now`, and within the breaker
because of `Coherent`. `ReadersAgree` follows from `Coherent` and from
`roundId` lying within `uint80`. For `ImplementsFeed`, `UpdatePublishes` shows
that the function of published rounds, one longer after `update`, is
`Append(log, entry)` (`AppendExtends`), and that the entry is not before the
last.

**Authentication**, for all finite sets of wallets and tasks, every way to share
wallets, and any lives of challenges and cache entries (a cache entry lives two
ticks or more). Assumed besides: there are more names for challenges than wallets
and tasks together (`NonceAssumption`). That stands for the generator never
repeating itself: a wallet and a task remember one challenge each, so
`FreshIsNew` finds one that nobody remembers, by counting.

`TypeOK` needs `TasksInPhase`: a task that posts has a challenge.
`RevokedRefused` is a property of a step, and the entry that lets somebody in may
have been cached after the revocation, from an answer given before. `EntriesRunOut`
says that age of the revocation and life left of a good entry do not exceed
`CacheTtl` together; it holds because of `AnswersArePrompt`, that a good answer
on its way is no younger than the revocation. That is where the moment matters
from which the code counts an entry's life, the lookup's start.

`ChallengesAdmitOnce` needs that no two places hold the same challenge. A
challenge leaves the store when its POST is verified and stays with the POST while
that waits for the chain, so there are three parts: `StoreDistinct`,
`TakenFromStore`, `PostsDistinct`; `TakenInTime` bounds its age. `OpenShrinks`
shows for all the steps that issue nothing that they only make `Open` smaller,
`HitAdmits` and `FillAdmits` that an admission removes exactly its own
challenge, `MissTakesAlong` that a challenge that moves from the store to a POST
stays open, `StoreIssues` that a new one is new, `TickStep` that all others age.

**Sequences** (`Filtering_proofs`). Induction over a batch or a history cannot
be had from the library, whose induction theorems take an operator.
`PrefixInduction` is first-order: a set of numbers that contains 0 and, below `N`,
with each number its successor contains `0 .. N`; it follows from a least
counterexample (`LeastOf`, from the well-foundedness of `<` on `Nat`).
`PrefixRecursion` is the same argument for a function over `0 .. N` that is given
by a first value and a step. On them rest the lemmas about `Filtered`: what it
keeps, in which order, how many.

**The updater**, for all sets of oracles, wallets and values, all word sizes and
batches of any length. `Follows(s, was, calls)` says that an oracle in state
`s` is `was` after exactly these calls: their number in rounds, the value of the
last, `now` as its time, and, for a single call, within the breaker. `UpdateFollows`
adds a call; `ExecutedFollows` shows by induction over the prefixes of a batch
that, if it succeeds, every oracle follows the calls that name it. `BatchOutcome`
states it of a transaction, and the two properties of batches are its parts: that
an oracle may be named several times, with other calls in between, is in
`Follows`. `FeedsInOrder` needs besides that no round is later than the block
(`FeedInv`).

**The drift tracker**, for all values, limits, windows, tasks and delays.
`OrderedUpToLag` is inductive for every `MaxLag` together with `TypeOK`
(`NextNearlyOrdered`; `RetainedOrder`: dropping observations keeps the order of the
others). Hence the first observation that a check retains, which
`check_and_record` measures from, is as old as any in the window but for that lag
(`HeadIsNearlyOldest`), and `DriftIsCumulative` follows.

**The keeper**, for all numbers of spokes, intervals, thresholds and surroundings,
both loops, handlers and the chain interleaving in any way.
`TypeCorrect` needs `AtHand`: a loop that waits for a receipt, works through
readings or restores a breaker has a call, a reading or a breaker at hand. `Typed`
is both.

- `PlaceholderStaysInside`: `NoPlaceholder` follows the readings from the peers'
  replacement (`ResolvedClean`) to the calls of the cycle, those that are left and
  those in the pool, which outlive a restart.
- `WokenWithWork`: `WindowOver` relates the age of the last push to what is left of
  the loop's sleep: together they reach the skip window.
- `FallbackLeavesNoneOut`: the calls of a cycle name different spokes and are dealt
  with from the front (`Alone`, `Progressing`). `Independent` says of the calls that
  were dealt with that they succeeded or would still be refused.
- `SkipsAreFounded`, of both loops and other keepers, needs three facts
  (`Founded`). `Standing`: the breakers stay off, and what is sent is executed when
  it is mined. `Recording`: what a loop waits for a receipt of, or is about to
  record, is in the pool or was stored in this tick, so the order in which the two
  loops record does not matter. `PushesAreOlder`: a record that still counts as
  recent is no younger than what is stored.
- `WarningsEndForCause`: the monitor takes a warning off under another lock than it
  decided under. `Cause` says that what it decided stays justified, or that another
  warning has taken the place, which is younger than a tick because none passes in
  between.
- `ScheduleKeepsFresh`: `Timely` is six parts. Nothing disturbs the oracles
  (`Undisturbed`), and each transaction renews all oracles
  (`Sending`, `Cycling`), so all are of one age (`SameAges`), and a cycle that
  skips finds them younger than the staleness check or the skip window
  (`PushesAreOlder`). Then `Room`: an oracle's age, what is left of the sleep and an
  interval for every restart to come stay below the threshold.

**The mesh**, for all fleets, intervals, timeouts and numbers of crashes, with
lost requests. Assumed: keepers are configured with keepers of their fleet, and
`FailoverAfter` is not below `UpdateInterval` (`peers.rs:619` adds two minutes).

`TypeCorrect` includes that no startup sleep reaches an interval, whatever peers
and the oracle report (`SleepRange`, from the circular gaps). `StartupIsFarthest`
is about the same circle: the middle of a largest gap is half of that gap away from
everything that is taken (`MiddleIsClear`), and no position is farther, because
each lies within half of some gap from one of its ends (`NobodyIsClearer`).

`OverdueIsCovered` is about the cycles of a keeper and the registry of its sync
loop, which no handler and no loop compares. `WokenByPass` relates them: after a pass, whoever
has an overdue peer has been given a permit, or has used it in this tick.
`UnpolledBeforeLoops` covers a keeper whose API serves registrations while its
loops do not run yet. Time passes only when passes are done and permits used
(section 3), which gives the step.

`EvictedOnlyAfterOutage` compares what the keeper counts, `seen`, with how long
the peer was away. `seen` may be one tick ahead of it (`Accounted`), because a pass
may have missed a peer that came back after it was polled in that tick. It is no
more, because a peer that the keeper reaches although it has dealt with it in
its pass has been seen, was always there (`Sure`), or is about to register
(`Coming`), and the last case is over before the tick is. Where a crash is still
to come, `Noticed` is what makes the return register. `EntryStays` shows that only
the sync loop removes an entry of a keeper that is up.

**Assumptions.** TLC evaluates each module's in a run that extends it: the
contract's in `oracle` and `batch`, `TrackerAssumption` and `DriftAssumption` in
`drift`, `KeeperAssumption`, `StalenessAssumption`, `DeltaAssumption` and
`NoneIsNoRecord` in the runs of `Keeper`, `AuthAssumption` and `NonceAssumption` in
`auth`, `MeshAssumption` and `NoneIsNoPeer` in `peers`. `None`, which stands for
Rust's `None`, is assumed to be none of the values it is told from.

**Only model-checked.** Liveness, which under fairness is outside the prover:
`CycleEnds`, `OracleConverges`, `WarningEnds`, `BreakerRestored`,
`PersistentValueAccepted`, `LoneClientServed`, `DeadPeerForgotten`, `MeshForms`.
`NeverStale` of a keeper that runs both loops, where the monitor's pushes renew one
oracle and not the others, and `SuspensionEnds`, which depends on when the drift
window ends. `KeeperViewMatchesChain`, of the scheduled loop alone.

## 6. Not modelled, and the plan

Left out for good: HTTP routing, the body limit and the concurrency cap, URL
validation (checks of a string, without state), parsing of configuration,
telegram, metrics, the read-only parts of the reports, deployment scripts (a
fixed order of the contract's transactions), tests. Of authentication, signature
recovery (holding a challenge stands for it), the generic challenge, which no
handler accepts, and the curator's bridge challenge, a second store of the same
kind bound to a spoke and a delta.

Next, in this order:

1. `NeverStale` and, with the drift limit, `SuspensionEnds` of a single spoke that
   both loops push, as `keeper_loops` checks them: `Timely` would have to say what
   each loop's transaction renews.
2. The curator's bridge challenge in `ChallengeAuth`, with two stores.
3. A mesh of three keepers through hours, which is beyond the present run's time.
