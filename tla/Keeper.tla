--------------------------------- MODULE Keeper ---------------------------------
(***************************************************************************)
(* One keeper process and its surroundings: both loops, the bridge-warning *)
(* handler, POST /update, the chain, the vaults, other keepers, restarts   *)
(* and time.                                                               *)
(***************************************************************************)
EXTENDS ScheduledLoop, MonitorLoop, BridgeWarning

CONSTANT StalenessThreshold  \* age at which the hub vault refuses an oracle

ASSUME StalenessAssumption == StalenessThreshold \in Nat

Loop == {"sched", "mon"}

(* Of the surroundings: nothing fails; the breakers are off and nobody      *)
(* touches them; both.                                                      *)
Reliable == env.reliable
BreakersOff == env.breaker = 0 /\ env.warners = {}
Calm == Reliable /\ BreakersOff

(* How long an oracle may go without an update: the drift check suspends a  *)
(* spoke until the window it looks at is over.                              *)
MayStayAway == StalenessThreshold + (IF env.drift THEN Window ELSE 0)

(* Moments are kept as ages in ticks, up to where nothing tells them apart  *)
(* any more: for an oracle's the staleness check, and where they look at    *)
(* it, SkipIsFounded, NeverStale and SuspensionEnds.                        *)
OracleAgeCap ==
  LET told == Max2(MinUpdateInterval, IF BreakersOff THEN SkipIfFresh ELSE 0)
  IN  IF Calm THEN Max2(told, MayStayAway) ELSE told
WarningAgeCap == BridgeTimeout + 1
HistoryAgeCap == Window + 1

TypeOK ==
  /\ vault \in [Spoke -> Value]
  /\ oracle \in [Spoke -> [stored : Reported, age : 0 .. OracleAgeCap, bps : Nat]]
  /\ pool \in [Loop -> Tx \cup {None}]
  /\ lastPushed \in [Spoke -> PushRecord \cup {None}]
  /\ history \in [Spoke -> Seq([value : Reported, age : 0 .. HistoryAgeCap])]
  /\ warnings \in [Spoke -> Warning \cup {None}]
  /\ \A s \in Spoke : warnings[s] # None => warnings[s].age <= WarningAgeCap
  /\ sched \in SchedState
  /\ mon \in MonState
  /\ request \in Request \cup {None}
  /\ notified \in BOOLEAN
  /\ env \in Environment

(* main() sleeps into its place in the peers' schedule before it spawns the *)
(* loops; every oracle is up to date.                                       *)
Init ==
  /\ env \in Environments
  /\ vault \in [Spoke -> Value]
  /\ oracle = [s \in Spoke |-> [stored |-> vault[s], age |-> 0, bps |-> env.breaker]]
  /\ pool = [l \in Loop |-> None]
  /\ lastPushed = [s \in Spoke |-> None]
  /\ history = [s \in Spoke |-> <<>>]
  /\ warnings = [s \in Spoke |-> None]
  /\ \E t \in 0 .. UpdateInterval : sched = Booting(t)
  /\ mon = MonStart
  /\ request = None
  /\ notified = FALSE

-----------------------------------------------------------------------------
VaultMoves(s) ==
  /\ vault' \in {[vault EXCEPT ![s] = v] : v \in Value}
  /\ UNCHANGED <<oracle, pool, lastPushed, history, warnings, sched, mon,
                 request, notified, env>>

(* Another keeper pushes what it reads. *)
OtherKeeperPushes(s) ==
  /\ env.others
  /\ Passes([spoke |-> s, value |-> vault[s]])
  /\ oracle' = Stored(<<[spoke |-> s, value |-> vault[s]]>>)
  /\ UNCHANGED <<vault, pool, lastPushed, history, warnings, sched, mon,
                 request, notified, env>>

(* trigger_update(), authenticated: notify_one() *)
PostUpdate ==
  /\ env.posts > 0
  /\ env' = [env EXCEPT !.posts = @ - 1]
  /\ notified' = TRUE
  /\ UNCHANGED <<vault, oracle, pool, lastPushed, history, warnings, sched,
                 mon, request>>

(* Everything in memory is lost; what was sent is not. *)
Restart ==
  /\ env.restarts > 0
  /\ env' = [env EXCEPT !.restarts = @ - 1]
  /\ lastPushed' = [s \in Spoke |-> None]
  /\ history' = [s \in Spoke |-> <<>>]
  /\ warnings' = [s \in Spoke |-> None]
  /\ \E t \in 0 .. UpdateInterval : sched' = Booting(t)
  /\ mon' = MonStart
  /\ request' = None
  /\ notified' = FALSE
  /\ UNCHANGED <<vault, oracle, pool>>

Quiet ==
  /\ sched.pc \in {"boot", "sleep"}
  /\ mon.pc = "sleep"
  /\ request = None
  /\ pool = [l \in Loop |-> None]

(* The peer sync loop's failover detection, every minute while a peer stays *)
(* silent: notify_one().  A bound: it comes while nothing is under way; for *)
(* permits that arrive in the middle of a cycle there is PostUpdate.        *)
PeerLooksStale ==
  /\ env.peersFail
  /\ sched.pc = "sleep"
  /\ Quiet
  /\ notified' = TRUE
  /\ UNCHANGED <<vault, oracle, pool, lastPushed, history, warnings, sched,
                 mon, request, env>>

AgedEntry(e, cap) == IF e = None THEN None ELSE [e EXCEPT !.age = Older(@, cap)]

(* Time passes while everybody sleeps. *)
Tick ==
  /\ Quiet
  /\ sched.timer > 0
  /\ sched' = [sched EXCEPT !.timer = @ - 1]
  /\ oracle' = [s \in Spoke |-> [oracle[s] EXCEPT !.age = Older(@, OracleAgeCap)]]
  /\ lastPushed' = [s \in Spoke |-> AgedEntry(lastPushed[s], SkipIfFresh)]
  /\ history' = [s \in Spoke |-> Aged(history[s], HistoryAgeCap)]
  /\ warnings' = [s \in Spoke |-> AgedEntry(warnings[s], WarningAgeCap)]
  /\ UNCHANGED <<vault, pool, mon, request, notified, env>>

Next ==
  \/ SchedStep
  \/ MonStep
  \/ \E s \in Spoke, d \in Delta : CuratorBridgeWarning(s, d) \/ PeerBridgeWarning(s, d)
  \/ HandlerStep
  \/ \E l \in Loop : Mine(l)
  \/ \E s \in Spoke : VaultMoves(s) \/ OtherKeeperPushes(s)
  \/ PostUpdate
  \/ PeerLooksStale
  \/ Restart
  \/ Tick

(* Every task that can go on does, every transaction is mined, and time     *)
(* passes however often the loops wake up in between.                       *)
Fairness ==
  /\ WF_vars(SchedStep)
  /\ WF_vars(MonStep)
  /\ WF_vars(HandlerStep)
  /\ \A l \in Loop : WF_vars(Mine(l))
  /\ SF_vars(Tick)

Spec == Init /\ [][Next]_vars /\ Fairness

-----------------------------------------------------------------------------
(* While nothing is in flight, what the keeper believes it pushed last is   *)
(* what the oracle stores: LastPushedInfo is the "value that was last       *)
(* pushed on-chain" (main.rs:33), and the monitor measures movement from it.*)
KeeperViewMatchesChain ==
  Reliable /\ Quiet =>
    \A s \in Spoke : lastPushed[s] # None => oracle[s].stored = lastPushed[s].value

(* An update that is sent on its own gets through: the oracle whitelists    *)
(* the wallet and its breaker lets the value pass.                          *)
TakenAlone(c) == c.spoke \in env.listed /\ Passes(c)

(* One oracle that refuses its update does not block the others             *)
(* (oracle.rs:153): when the individual updates are through, whatever has   *)
(* not succeeded is something its own oracle refuses, be it for the breaker *)
(* or because it whitelists only the updater.                               *)
FallbackIsIndependent ==
  Reliable /\ sched.pc = "individual" /\ sched.left = <<>> =>
    \A c \in Range(sched.calls) : c \in Range(sched.succeeded) \/ ~TakenAlone(c)

(* A vault that could not be read is skipped: the sentinel that stands for  *)
(* its value never goes out in a transaction.                               *)
FailedReadingNotPushed ==
  \A l \in Loop : pool[l] # None =>
    \A c \in Range(pool[l].calls) : c.value # Sentinel

(* No oracle gets as old as the hub vault's staleness threshold, unless the *)
(* drift check is on ...                                                    *)
NeverStale ==
  Calm /\ ~env.drift => \A s \in Spoke : oracle[s].age < StalenessThreshold

(* ... which holds a spoke back until its window is over and not longer: a  *)
(* suspended oracle may get older than the threshold (config.rs:57 warns of *)
(* that), by the window.                                                    *)
SuspensionEnds ==
  Calm /\ env.drift => \A s \in Spoke : oracle[s].age < MayStayAway

(* A spoke is skipped as fresh on the keeper's own record of its pushes:    *)
(* whichever loop made it, whatever the other has recorded since and        *)
(* whatever fails in between, the oracle is no older than the record says.  *)
SkipIsFounded ==
  BreakersOff => \A s \in Spoke : Fresh(s) => oracle[s].age <= lastPushed[s].age

(* Without a monitor loop nothing counts as recently pushed by it: a cycle  *)
(* that got past the staleness check has something to push, so the interval *)
(* and the skip window, which config.toml sets to the same hour, never make *)
(* the loop idle for two hours.                                             *)
CycleHasWork ==
  EarlyPushThreshold = 0 /\ sched.pc = "select" =>
    \E c \in Range(sched.calls) : ~Fresh(c.spoke)

(* A cycle ends, whatever fails: retries are bounded. *)
CycleEnds == sched.pc # "sleep" ~> sched.pc = "sleep"

(* An oracle follows its vault: a value the vault keeps is stored for good, *)
(* through the drift check, the skips and both loops' orders of pushing.    *)
OracleConverges ==
  \A s \in Spoke, v \in Value :
    Calm /\ <>[](vault[s] = v) => <>[](oracle[s].stored = v)

-----------------------------------------------------------------------------
(* A bridge warning comes to an end, by completion or timeout.              *)
WarningEnds == \A s \in Spoke : warnings[s] # None ~> warnings[s] = None

(* A breaker the keeper switched off for a bridge is switched on again. *)
BreakerRestored ==
  \A s \in Spoke :
    Reliable /\ "peer" \notin env.warners /\ oracle[s].bps = 0 ~> oracle[s].bps = env.breaker

(* The monitor ends a warning only when it has timed out or the change it   *)
(* announced is seen (bridge_warning.rs:109).  It decides and removes under *)
(* two locks, so it may also hit a warning that has just taken the place of *)
(* the one it decided about, but none that has stood for a tick.            *)
WarningEndsForCause ==
  [][mon.pc = "remove" /\ mon'.pc = "reset" =>
       LET c == Head(mon.todo)
           w == warnings[c.spoke]
       IN  w # None /\ w.age > 0 => TimedOut(w) \/ Completed(w, c.value)]_vars

(* What a warning is for happens (main.rs:436): once the announced change   *)
(* shows in the vault while the breaker is off, the new value reaches the   *)
(* oracle, unless the vault moves on.                                       *)
BridgeShows(s, v) ==
  /\ warnings[s] # None
  /\ ~TimedOut(warnings[s])
  /\ Completed(warnings[s], v)
  /\ oracle[s].bps = 0
  /\ vault[s] = v

BridgedValueStored ==
  \A s \in Spoke, v \in Value :
    BridgeShows(s, v) ~> oracle[s].stored = v \/ vault[s] # v
=============================================================================
