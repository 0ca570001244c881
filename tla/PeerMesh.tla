-------------------------------- MODULE PeerMesh --------------------------------
(***************************************************************************)
(* The mesh of keepers: how a keeper that starts finds its place in the    *)
(* schedule and registers with the peers it is configured with, how the    *)
(* others hear of it, how the sync loop polls, evicts and fails over.      *)
(*                                                                         *)
(* Of a scheduled cycle only its end matters here, when last_cycle_at is   *)
(* set; ScheduledLoop has the rest.  A registry is kept in memory, and     *)
(* requests and spawned tasks interleave between any two steps.  Times are *)
(* ages in ticks; what a keeper does is over before the next tick, except  *)
(* its sleeps, and the sync loop passes once in a tick.                    *)
(***************************************************************************)
EXTENDS Integers, SequencesExt

CONSTANTS
  Keeper,
  Fleets,          \* the fleets that are considered, see IsFleet
  UpdateInterval,  \* update_interval_secs, the same for all
  FailoverAfter,   \* update_interval_secs + 120
  SixHours,        \* SIX_HOURS_SECS
  None

(* A keeper is configured with keepers of its fleet. *)
IsFleet(f) ==
  /\ DOMAIN f.peers \subseteq Keeper
  /\ f \in [peers : [DOMAIN f.peers -> Seq(DOMAIN f.peers)],  \* configured
            legacy : SUBSET Keeper,  \* keepers that still join by POST /peers/verify
            timed : BOOLEAN,         \* time passes
            weak : SUBSET (Keeper \X Keeper),  \* links that lose requests and answers
            crashes : Nat]

ASSUME MeshAssumption ==
  /\ \A f \in Fleets : IsFleet(f)
  /\ UpdateInterval \in Nat \ {0}
  /\ FailoverAfter \in Nat /\ FailoverAfter >= UpdateInterval
  /\ SixHours \in Nat
  /\ None \notin Nat

VARIABLES
  fleet,     \* one of Fleets; its crashes are those still to come
  phase,
  todo,      \* attempt_peer_registrations(): peers still to register with
  nap,       \* what is left of the startup sleep
  registry,  \* PeerRegistry
  cycle,     \* last_cycle_at
  permit,    \* the Notify that wakes the scheduled loop has a permit
  pass,      \* run_peer_sync_loop(): the peers to be polled in this pass
  notices,   \* notifications of a new peer that are to be sent
  joins,     \* spawned tasks that register with a peer
  cut,       \* whom a keeper cannot reach in this tick
  away       \* history: for how many ticks it has not reached, or asked, a peer

vars == <<fleet, phase, todo, nap, registry, cycle, permit, pass, notices, joins, cut, away>>

Members == DOMAIN fleet.peers

(* The API answers in every phase but "down"; the loops run in the last. *)
Phase == {"down", "joining", "waiting", "running"}

Age(cap) == 0 .. cap

PeerInfo == [seen : Age(SixHours + 1), push : Age(FailoverAfter + 2) \cup {None}]

ASSUME NoneIsNoPeer == None \notin PeerInfo

Pass == [pc : {"due", "polling", "done"}, left : SUBSET Keeper]

Due == [pc |-> "due", left |-> {}]

Fresh == [seen |-> 0, push |-> None]

Nobody == [p \in Members |-> None]

TypeOK ==
  /\ \E f \in Fleets : fleet \in {[f EXCEPT !.crashes = n] : n \in 0 .. f.crashes}
  /\ phase \in [Members -> Phase]
  /\ DOMAIN todo = Members
  /\ \A k \in Members : \E i \in 1 .. Len(fleet.peers[k]) + 1 :
       todo[k] = SubSeq(fleet.peers[k], i, Len(fleet.peers[k]))
  /\ nap \in [Members -> 0 .. UpdateInterval - 1]
  /\ registry \in [Members -> [Members -> PeerInfo \cup {None}]]
  /\ cycle \in [Members -> Age(UpdateInterval) \cup {None}]
  /\ permit \in [Members -> BOOLEAN]
  /\ pass \in [Members -> Pass]
  /\ notices \subseteq [from : Members, to : Members, about : Members]
  /\ joins \subseteq [from : Members, to : Members, asked : BOOLEAN]
  /\ cut \subseteq fleet.weak
  /\ away \in [Members -> [Members -> Age(SixHours)]]

Init ==
  /\ fleet \in Fleets
  /\ phase = [k \in Members |-> "down"]
  /\ todo = [k \in Members |-> <<>>]
  /\ nap = [k \in Members |-> 0]
  /\ registry = [k \in Members |-> Nobody]
  /\ cycle = [k \in Members |-> None]
  /\ permit = [k \in Members |-> FALSE]
  /\ pass = [k \in Members |-> Due]
  /\ notices = {}
  /\ joins = {}
  /\ cut = {}
  /\ away = [k \in Members |-> [p \in Members |-> 0]]

Reaches(k, p) == phase[p] # "down" /\ <<k, p>> \notin cut

Reliable(k, p) == <<k, p>> \notin fleet.weak

-----------------------------------------------------------------------------
(* The startup position: calculate_startup_sleep().                         *)

Position == 0 .. UpdateInterval - 1

(* Mistake: the circle is cut open at its end. *)
GapUncircled(taken, q) ==
  LET later == {r \in taken : r > q}
  IN  (IF later = {} THEN UpdateInterval ELSE Min(later)) - q

(* The way around the circle from one position to the next one taken. *)
Gap(taken, q) ==
  Min({d \in 1 .. UpdateInterval : (q + d) % UpdateInterval \in taken})

(* Mistake: the middle may lie in the next interval. *)
TargetAhead(taken) ==
  LET largest == Max({Gap(taken, q) : q \in taken})
      start   == Min({q \in taken : Gap(taken, q) = largest})
  IN  start + largest \div 2

(* The middle of the largest gap, of the first one if there are several.    *)
Target(taken) ==
  LET largest == Max({Gap(taken, q) : q \in taken})
      start   == Min({q \in taken : Gap(taken, q) = largest})
  IN  (start + largest \div 2) % UpdateInterval

(* The oracle's position counts only among peers' positions.                *)
StartupSleep(now, reported, oracle) ==
  LET target == Target(reported \cup oracle)
  IN  IF reported = {} THEN 0
      ELSE IF target >= now THEN target - now
      ELSE UpdateInterval - now + target

(* What POST /status says of the time of the last cycle. *)
Status(p) == cycle[p]

(* query_peers(): the last cycles of the configured peers that answer.      *)
Reported(k, now) ==
  {(now - Status(p)) % UpdateInterval :
     p \in {q \in ToSet(fleet.peers[k]) : Reaches(k, q) /\ Status(q) # None}}

(* A peer of another fleet may answer too, and the oracle may have a time.  *)
Surroundings ==
  LET atMostOne == {{}} \cup {{a} : a \in Position}
  IN  atMostOne \X atMostOne

-----------------------------------------------------------------------------
(* Registration.                                                            *)

(* Mistake: the handler of /peers/register finds an entry and leaves it.    *)
RegisteredOnce(info) == IF info = None THEN Fresh ELSE info

(* The handler of /peers/register: an entry that is there is overwritten.   *)
Registered(info) == Fresh

(* Mistake: what is not there is not entered. *)
Refreshed(info) == IF info = None THEN None ELSE [info EXCEPT !.seen = 0]

(* The handler of /peers/verify, and a keeper whose registration succeeded. *)
Upserted(info) == IF info = None THEN Fresh ELSE [info EXCEPT !.seen = 0]

Known(k) == {p \in Members : registry[k][p] # None}

(* peer_register() spawns a task that tells everybody else in its registry. *)
Announced(k, new) == {[from |-> k, to |-> p, about |-> new] : p \in Known(k) \ {new}}

(* calculate_startup_sleep() and the start of attempt_peer_registrations(). *)
Start(k) ==
  /\ phase[k] = "down"
  /\ phase' = [phase EXCEPT ![k] = "joining"]
  /\ todo' = [todo EXCEPT ![k] = fleet.peers[k]]
  /\ \E now \in Position, around \in Surroundings :
       /\ fleet.timed \/ around = <<{}, {}>>
       /\ nap' = [nap EXCEPT ![k] =
                    StartupSleep(now, Reported(k, now) \cup around[1], around[2])]
  /\ UNCHANGED <<fleet, registry, cycle, permit, pass, notices, joins, cut, away>>

(* The handler of POST /peers/register; the keeper enters the peer when it  *)
(* hears of the success.                                                    *)
PeerRegister(p, k, answered) ==
  /\ registry' = [registry EXCEPT ![p][k] = Registered(@),
                                  ![k][p] = IF answered THEN Upserted(@) ELSE @]
  /\ notices' = notices \cup Announced(p, k)
  /\ UNCHANGED joins

(* The handler of POST /peers/verify spawns a task that registers back. *)
PeerVerify(p, k) ==
  /\ registry' = [registry EXCEPT ![p][k] = Upserted(@)]
  /\ joins' = joins \cup {[from |-> p, to |-> k, asked |-> TRUE]}
  /\ UNCHANGED notices

(* register_with_peer() for the next configured peer. *)
Register(k) ==
  /\ phase[k] = "joining"
  /\ todo[k] # <<>>
  /\ todo' = [todo EXCEPT ![k] = Tail(@)]
  /\ LET p == Head(todo[k])
     IN  \/ /\ Reaches(k, p)
            /\ k \notin fleet.legacy
            /\ \E answered \in {TRUE, Reliable(k, p)} : PeerRegister(p, k, answered)
         \/ Reaches(k, p) /\ k \in fleet.legacy /\ PeerVerify(p, k)
         \/ /\ ~Reaches(k, p) \/ ~Reliable(k, p)
            /\ UNCHANGED <<registry, notices, joins>>
  /\ UNCHANGED <<fleet, phase, nap, cycle, permit, pass, cut, away>>

FallAsleep(k) ==
  /\ phase[k] = "joining"
  /\ todo[k] = <<>>
  /\ phase' = [phase EXCEPT ![k] = "waiting"]
  /\ UNCHANGED <<fleet, todo, nap, registry, cycle, permit, pass, notices, joins, cut, away>>

(* The startup sleep is over: the loops are spawned. *)
Run(k) ==
  /\ phase[k] = "waiting"
  /\ nap[k] = 0
  /\ fleet.timed
  /\ phase' = [phase EXCEPT ![k] = "running"]
  /\ UNCHANGED <<fleet, todo, nap, registry, cycle, permit, pass, notices, joins, cut, away>>

(* notify_peer_of_new_peer(), best effort, and peer_notify(), which spawns  *)
(* a task ...                                                               *)
Notify(n) ==
  /\ n \in notices
  /\ notices' = notices \ {n}
  /\ \/ Reaches(n.from, n.to) /\ joins' = joins \cup {[from |-> n.to, to |-> n.about, asked |-> FALSE]}
     \/ ~(Reaches(n.from, n.to) /\ Reliable(n.from, n.to)) /\ UNCHANGED joins
  /\ UNCHANGED <<fleet, phase, todo, nap, registry, cycle, permit, pass, cut, away>>

(* ... that registers with the new peer unless that has done so already.    *)
(* The task of peer_verify() registers anyway.  Neither enters the peer.    *)
Join(j) ==
  /\ j \in joins
  /\ joins' = joins \ {j}
  /\ \/ /\ j.asked \/ registry[j.from][j.to] = None
        /\ Reaches(j.from, j.to)
        /\ registry' = [registry EXCEPT ![j.to][j.from] = Registered(@)]
        /\ notices' = notices \cup Announced(j.to, j.from)
     \/ /\ \/ ~j.asked /\ registry[j.from][j.to] # None
           \/ ~Reaches(j.from, j.to)
           \/ ~Reliable(j.from, j.to)
        /\ UNCHANGED <<registry, notices>>
  /\ UNCHANGED <<fleet, phase, todo, nap, cycle, permit, pass, cut, away>>

-----------------------------------------------------------------------------
(* A pass of run_peer_sync_loop().                                          *)

SyncBegin(k) ==
  /\ phase[k] = "running"
  /\ pass[k].pc = "due"
  /\ pass' = [pass EXCEPT ![k] = [pc |-> "polling", left |-> Known(k)]]
  /\ UNCHANGED <<fleet, phase, todo, nap, registry, cycle, permit, notices, joins, cut, away>>

(* The peer's status, or None for an answer without one: a refusal parses   *)
(* as a status too.                                                         *)
Polled(info, lastCycle) ==
  [seen |-> 0, push |-> IF lastCycle = None THEN info.push ELSE lastCycle]

(* A peer whose entry has gone in the meantime is not entered again. *)
SyncPoll(k, p) ==
  /\ pass[k].pc = "polling"
  /\ p \in pass[k].left
  /\ pass' = [pass EXCEPT ![k].left = @ \ {p}]
  /\ \/ /\ Reaches(k, p)
        /\ registry[k][p] # None
        /\ \E status \in {Status(p), IF Reliable(k, p) THEN Status(p) ELSE None} :
             registry' = [registry EXCEPT ![k][p] = Polled(@, status)]
     \/ /\ ~Reaches(k, p) \/ registry[k][p] = None
        /\ UNCHANGED registry
  /\ UNCHANGED <<fleet, phase, todo, nap, cycle, permit, notices, joins, cut, away>>

Silent(info) == info.seen > SixHours

(* Mistake: failover looks at the last answer. *)
OverdueUnseen(info) == info.push # None /\ info.seen > FailoverAfter

Overdue(info) == info.push # None /\ info.push > FailoverAfter

(* Mistake: silent peers are kept. *)
KeptForEver(infos) == infos

(* Silent peers are evicted ... *)
Kept(infos) ==
  [p \in DOMAIN infos |-> IF infos[p] # None /\ Silent(infos[p]) THEN None ELSE infos[p]]

(* ... and if one of the others is overdue the scheduled loop is woken.     *)
SyncEnd(k) ==
  /\ pass[k] = [pc |-> "polling", left |-> {}]
  /\ pass' = [pass EXCEPT ![k].pc = "done"]
  /\ LET kept == Kept(registry[k])
     IN  /\ registry' = [registry EXCEPT ![k] = kept]
         /\ permit' = [permit EXCEPT ![k] =
                         @ \/ \E p \in Members : kept[p] # None /\ Overdue(kept[p])]
  /\ UNCHANGED <<fleet, phase, todo, nap, cycle, notices, joins, cut, away>>

(* The scheduled loop ends a cycle: its first, one an interval after the    *)
(* last, or one that used the permit.                                       *)
CycleOnTime(k) ==
  /\ phase[k] = "running"
  /\ cycle[k] \in {None, UpdateInterval}
  /\ cycle' = [cycle EXCEPT ![k] = 0]
  /\ UNCHANGED <<fleet, phase, todo, nap, registry, permit, pass, notices, joins, cut, away>>

CycleEarly(k) ==
  /\ permit[k]
  /\ cycle[k] # None
  /\ cycle' = [cycle EXCEPT ![k] = 0]
  /\ permit' = [permit EXCEPT ![k] = FALSE]
  /\ UNCHANGED <<fleet, phase, todo, nap, registry, pass, notices, joins, cut, away>>

-----------------------------------------------------------------------------
(* The environment.                                                         *)

(* The process ends, with its registry and the tasks it has spawned. *)
Crash(k) ==
  /\ fleet.crashes > 0
  /\ phase[k] # "down"
  /\ fleet' = [fleet EXCEPT !.crashes = @ - 1]
  /\ phase' = [phase EXCEPT ![k] = "down"]
  /\ todo' = [todo EXCEPT ![k] = <<>>]
  /\ nap' = [nap EXCEPT ![k] = 0]
  /\ registry' = [registry EXCEPT ![k] = Nobody]
  /\ cycle' = [cycle EXCEPT ![k] = None]
  /\ permit' = [permit EXCEPT ![k] = FALSE]
  /\ pass' = [pass EXCEPT ![k] = Due]
  /\ notices' = {n \in notices : n.from # k}
  /\ joins' = {j \in joins : j.from # k}
  /\ UNCHANGED <<cut, away>>

Hurries(k) ==
  \/ phase[k] = "joining"
  \/ phase[k] = "waiting" /\ nap[k] = 0
  \/ phase[k] = "running" /\ (pass[k].pc # "done" \/ permit[k] \/ cycle[k] \in {None, UpdateInterval})

Older(age, cap) == IF age = None THEN None ELSE Min({age + 1, cap})

(* Which links are cut changes from tick to tick. *)
Tick ==
  /\ fleet.timed
  /\ \A k \in Members : ~Hurries(k)
  /\ notices = {} /\ joins = {}
  /\ nap' = [k \in Members |-> IF phase[k] = "waiting" THEN nap[k] - 1 ELSE 0]
  /\ registry' = [k \in Members |-> [p \in Members |->
                    IF registry[k][p] = None THEN None
                    ELSE [seen |-> Older(registry[k][p].seen, SixHours + 1),
                          push |-> Older(registry[k][p].push, FailoverAfter + 2)]]]
  /\ cycle' = [k \in Members |-> Older(cycle[k], UpdateInterval)]
  /\ pass' = [k \in Members |-> Due]
  /\ away' = [k \in Members |-> [p \in Members |->
                IF p \in Known(k) /\ (phase[k] = "waiting" \/ ~Reaches(k, p))
                THEN Min({away[k][p] + 1, SixHours}) ELSE 0]]
  /\ cut' \in SUBSET fleet.weak
  /\ UNCHANGED <<fleet, phase, todo, permit, notices, joins>>

Keep(k) ==
  \/ Register(k) \/ FallAsleep(k) \/ Run(k)
  \/ SyncBegin(k) \/ (\E p \in Members : SyncPoll(k, p)) \/ SyncEnd(k)
  \/ CycleOnTime(k) \/ CycleEarly(k)

Next ==
  \/ \E k \in Members : Start(k) \/ Keep(k) \/ Crash(k)
  \/ \E n \in notices : Notify(n)
  \/ \E j \in joins : Join(j)
  \/ Tick

(* A keeper that runs goes on, and so do the tasks it spawned; time passes. *)
(* Nobody has to start a keeper.                                            *)
Fairness ==
  /\ \A k \in Keeper : WF_vars(k \in Members /\ Keep(k))
  /\ WF_vars(\E n \in notices : Notify(n))
  /\ WF_vars(\E j \in joins : Join(j))
  /\ WF_vars(Tick)

Spec == Init /\ [][Next]_vars /\ Fairness

-----------------------------------------------------------------------------
(* When a keeper wakes from its startup sleep, no moment of the interval    *)
(* would be farther from the moments its peers and the oracle are known to  *)
(* be updated at, and it has slept less than an interval.                   *)
Distance(a, b) == Min({(a - b) % UpdateInterval, (b - a) % UpdateInterval})

Clearance(a, taken) == Min({Distance(a, b) : b \in taken})

StartsFarthest ==
  \A k \in Members, now \in Position :
    phase[k] = "down" =>
      \A around \in Surroundings :
        LET reported == Reported(k, now) \cup around[1]
            taken    == reported \cup around[2]
            sleep    == StartupSleep(now, reported, around[2])
        IN  /\ sleep \in 0 .. UpdateInterval - 1
            /\ reported # {} =>
                 \A a \in Position :
                   Clearance(a, taken) <= Clearance((now + sleep) % UpdateInterval, taken)

(* A peer leaves the registry only after six hours in which it could not be *)
(* reached, or the keeper was in its startup sleep, though a registration   *)
(* may cross a poll, and a peer restart or be cut off between two polls.    *)
EvictedOnlyAfterOutage ==
  [][\A k, p \in Members :
       registry[k][p] # None /\ registry'[k][p] = None /\ phase'[k] # "down"
         => away[k][p] >= SixHours]_vars

(* While a peer that has been updating is more than a tick overdue, the     *)
(* keeper that knows of it covers for it: it ends a cycle in every tick.    *)
OverdueIsCovered ==
  \A k, p \in Members :
    phase[k] = "running" /\ registry[k][p] # None /\ registry[k][p].push # None
      => registry[k][p].push <= FailoverAfter + 1 \/ cycle[k] \in 0 .. 1

(* Nobody polls a keeper for ever that does not come back. *)
DeadPeerForgotten ==
  \A p \in Keeper :
    <>[](fleet.timed /\ p \in Members /\ phase[p] = "down")
      => <>[](\A k \in Members : p \notin Known(k))

(* Once all keepers are up, everybody comes to know everybody, in whatever  *)
(* order they started and restarted (README.md:297: the full mesh forms).   *)
AllUp == \A k \in Members : phase[k] # "down"

FullMesh == \A k, p \in Members : k # p => registry[k][p] # None

MeshForms == <>[](AllUp /\ fleet.weak = {}) => <>[]FullMesh
=============================================================================
