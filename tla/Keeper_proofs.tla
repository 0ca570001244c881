------------------------------ MODULE Keeper_proofs ------------------------------
(***************************************************************************)
(* What the keeper guarantees for every set of spokes, values and          *)
(* configured times and for surroundings of every kind, unless a theorem   *)
(* says which it needs.                                                    *)
(***************************************************************************)
EXTENDS Keeper, Filtering_proofs

Observation == [value : Reported, age : 0 .. HistoryAgeCap]
OracleRecord == [stored : Reported, age : 0 .. OracleAgeCap, bps : Nat]

LEMMA Bounds ==
  /\ UpdateInterval \in Nat /\ MinUpdateInterval \in Nat /\ SkipIfFresh \in Nat
  /\ EarlyPushThreshold \in Nat /\ MaxRetries \in Nat /\ BridgeTimeout \in Nat
  /\ UpdateInterval > 0
  /\ HasOwnerKey \in BOOLEAN
  /\ StalenessThreshold \in Nat
  /\ OracleAgeCap \in Nat /\ WarningAgeCap \in Nat /\ HistoryAgeCap \in Nat
  /\ Reported \subseteq Nat /\ Value \subseteq Reported /\ Sentinel \in Reported
<1>1. /\ UpdateInterval \in Nat /\ MinUpdateInterval \in Nat /\ SkipIfFresh \in Nat
      /\ EarlyPushThreshold \in Nat /\ MaxRetries \in Nat /\ BridgeTimeout \in Nat
  BY KeeperAssumption
<1>2. StalenessThreshold \in Nat /\ Window \in Nat
  BY StalenessAssumption, DriftAssumption
<1>3. OracleAgeCap \in Nat
  BY <1>1, <1>2 DEF OracleAgeCap, MayStayAway, Max2
<1>4. Value \subseteq Nat
  BY KeeperAssumption
<1>5. Reported \subseteq Nat /\ Value \subseteq Reported /\ Sentinel \in Reported
  BY <1>4 DEF Reported, Sentinel
<1>6. UpdateInterval > 0 /\ HasOwnerKey \in BOOLEAN
  BY KeeperAssumption
<1>7. WarningAgeCap \in Nat /\ HistoryAgeCap \in Nat
  BY <1>1, <1>2 DEF WarningAgeCap, HistoryAgeCap
<1> QED BY <1>1, <1>2, <1>3, <1>5, <1>6, <1>7

(* The surroundings a run starts in stay what they are but for the events   *)
(* that are used up, so the cap on the oracles' ages does not move.         *)
LEMMA SurroundingsStay ==
  ASSUME TypeOK, [Next]_vars
  PROVE  /\ env' \in Environment
         /\ env'.reliable = env.reliable /\ env'.drift = env.drift
         /\ env'.breaker = env.breaker /\ env'.others = env.others
         /\ env'.peersFail = env.peersFail /\ env'.warners = env.warners
         /\ env'.listed = env.listed
         /\ env'.warnings <= env.warnings /\ env'.restarts <= env.restarts
         /\ env'.posts <= env.posts
         /\ OracleAgeCap' = OracleAgeCap
<1>0. env \in Environment
  BY DEF TypeOK
<1>1. \/ env' = env
      \/ env.warnings > 0 /\ env' = [env EXCEPT !.warnings = @ - 1]
      \/ env.restarts > 0 /\ env' = [env EXCEPT !.restarts = @ - 1]
      \/ env.posts > 0 /\ env' = [env EXCEPT !.posts = @ - 1]
  <2>1. SchedStep => env' = env
    BY DEF SchedStep, SchedBoot, SchedRead, SchedStaleness, SchedSelect, SchedBatch,
           SchedBatchReceipt, SchedIndividual, SchedReceipt, SchedFinish, SchedWake
  <2>2. MonStep => env' = env
    BY DEF MonStep, MonRead, MonDecide, MonRemove, MonReset, MonRestore, MonSend, MonReceipt
  <2>3. HandlerStep => env' = env
    BY DEF HandlerStep, ReadBreaker, DisableBreaker, PeerReadBreaker, SpawnedDisable,
           InsertWarning, DropRequest
  <2> QED
    BY <2>1, <2>2, <2>3 DEF Next, vars, CuratorBridgeWarning, PeerBridgeWarning, Mine,
       VaultMoves, OtherKeeperPushes, PostUpdate, PeerLooksStale, Restart, Tick
<1>2. /\ env' \in Environment
      /\ env'.reliable = env.reliable /\ env'.drift = env.drift
      /\ env'.breaker = env.breaker /\ env'.others = env.others
      /\ env'.peersFail = env.peersFail /\ env'.warners = env.warners
      /\ env'.listed = env.listed
      /\ env'.warnings <= env.warnings /\ env'.restarts <= env.restarts
      /\ env'.posts <= env.posts
  BY <1>0, <1>1 DEF Environment
<1>3. OracleAgeCap' = OracleAgeCap
  BY <1>2 DEF OracleAgeCap, MayStayAway, Calm, Reliable, BreakersOff
<1> QED BY <1>2, <1>3

-----------------------------------------------------------------------------
(* The value that is called for a spoke that has a call. *)
LEMMA ValueCalledFor ==
  ASSUME NEW calls \in Seq(Call), NEW s, \E c \in Range(calls) : c.spoke = s
  PROVE  (CHOOSE c \in Range(calls) : c.spoke = s).value \in Reported
<1> DEFINE called == CHOOSE c \in Range(calls) : c.spoke = s
<1>1. Range(calls) \subseteq Call
  BY DEF Range
<1>2. called \in Range(calls)
  BY Zenon
<1> HIDE DEF called
<1>3. called.value \in Reported
  BY <1>1, <1>2 DEF Call
<1> QED BY <1>3 DEF called

LEMMA StoredType ==
  ASSUME TypeOK, NEW calls \in Seq(Call)
  PROVE  Stored(calls) \in [Spoke -> OracleRecord]
<1> SUFFICES ASSUME NEW s \in Spoke
             PROVE  Stored(calls)[s] \in OracleRecord
  BY DEF Stored
<1>1. oracle[s] \in OracleRecord
  BY DEF TypeOK, OracleRecord
<1>2. CASE \E c \in Range(calls) : c.spoke = s
  <2> DEFINE v == (CHOOSE c \in Range(calls) : c.spoke = s).value
  <2>1. v \in Reported
    BY <1>2, ValueCalledFor
  <2>2. Stored(calls)[s] = [oracle[s] EXCEPT !.stored = v, !.age = 0]
    BY <1>2 DEF Stored
  <2>3. 0 \in 0 .. OracleAgeCap
    BY Bounds
  <2> HIDE DEF v
  <2> QED BY <1>1, <2>1, <2>2, <2>3 DEF OracleRecord
<1>3. CASE ~ \E c \in Range(calls) : c.spoke = s
  BY <1>1, <1>3 DEF Stored
<1> QED BY <1>2, <1>3

LEMMA PushedType ==
  ASSUME TypeOK, NEW calls \in Seq(Call)
  PROVE  Pushed(calls) \in [Spoke -> PushRecord \cup {None}]
<1> SUFFICES ASSUME NEW s \in Spoke
             PROVE  Pushed(calls)[s] \in PushRecord \cup {None}
  BY DEF Pushed
<1>1. lastPushed[s] \in PushRecord \cup {None}
  BY DEF TypeOK, PushRecord
<1>2. CASE \E c \in Range(calls) : c.spoke = s
  <2> DEFINE v == (CHOOSE c \in Range(calls) : c.spoke = s).value
  <2>1. v \in Reported
    BY <1>2, ValueCalledFor
  <2>2. Pushed(calls)[s] = [value |-> v, age |-> 0]
    BY <1>2 DEF Pushed
  <2> HIDE DEF v
  <2> QED BY <2>1, <2>2, Bounds DEF PushRecord
<1>3. CASE ~ \E c \in Range(calls) : c.spoke = s
  BY <1>1, <1>3 DEF Pushed
<1> QED BY <1>2, <1>3

(* What is left of a history after a check, and after the second of two     *)
(* equal observations is dropped.                                           *)
LEMMA HistoryType ==
  ASSUME TypeOK, NEW calls \in Seq(Call)
  PROVE  AfterDriftCheck(calls) \in [Spoke -> Seq(Observation)]
<1> SUFFICES ASSUME NEW s \in Spoke
             PROVE  AfterDriftCheck(calls)[s] \in Seq(Observation)
  BY DEF AfterDriftCheck
<1>1. history[s] \in Seq(Observation)
  BY DEF TypeOK, Observation
<1>2. CASE env.drift /\ warnings[s] = None /\ \E c \in Range(calls) : c.spoke = s
  <2> DEFINE v == (CHOOSE c \in Range(calls) : c.spoke = s).value
             h == DriftRecorded(history[s], v, 0)
             k == Retained(history[s], 0)
             ob == [value |-> v, age |-> 0]
  <2>1. v \in Reported
    <3>1. \E c \in Range(calls) : c.spoke = s
      BY <1>2
    <3> QED BY <3>1, ValueCalledFor
  <2>2. k \in Seq(Observation)
    BY <1>1, FilteredElements DEF Retained
  <2>3. ob \in Observation
    BY <2>1, Bounds DEF Observation
  <2>4. Append(k, ob) \in Seq(Observation)
    BY <2>2, <2>3
  <2>5. h \in Seq(Observation)
    BY <1>1, <2>2, <2>4 DEF DriftRecorded
  <2>6. AfterDriftCheck(calls)[s] = KeptOnce(h)
    BY <1>2 DEF AfterDriftCheck
  <2> HIDE DEF h
  <2>7. KeptOnce(h) \in Seq(Observation)
    <3>1. CASE Len(h) > 1
      <4>1. SubSeq(h, 1, Len(h) - 1) \in Seq(Observation)
        BY <2>5, <3>1
      <4> QED BY <2>5, <4>1 DEF KeptOnce, Front
    <3>2. CASE ~ (Len(h) > 1)
      BY <2>5, <3>2 DEF KeptOnce
    <3> QED BY <3>1, <3>2
  <2> QED BY <2>6, <2>7
<1>3. CASE ~ (env.drift /\ warnings[s] = None /\ \E c \in Range(calls) : c.spoke = s)
  BY <1>1, <1>3 DEF AfterDriftCheck
<1> QED BY <1>2, <1>3

(* Readings of all spokes: what a loop sees of the vaults. *)
LEMMA ReadingsType ==
  ASSUME TypeOK, NEW failed
  PROVE  Readings(failed) \in Seq(Call) /\ Readings(failed) # <<>>
<1>1. /\ Spokes \in Seq(Spoke) /\ Len(Spokes) \in Nat /\ Len(Spokes) >= 1
      /\ DOMAIN Spokes = 1 .. Len(Spokes)
  BY KeeperAssumption
<1> DEFINE e(i) == [spoke |-> Spokes[i],
                    value |-> IF Spokes[i] \in failed THEN Sentinel ELSE vault[Spokes[i]]]
<1>2. ASSUME NEW i \in 1 .. Len(Spokes)
      PROVE  e(i) \in Call
  <2>1. Spokes[i] \in Spoke
    BY <1>1
  <2> QED BY <2>1, Bounds DEF TypeOK, Call
<1> HIDE DEF e
<1>3. [i \in 1 .. Len(Spokes) |-> e(i)] \in Seq(Call)
  BY <1>1, <1>2, IsASeq
<1>4. Readings(failed) = [i \in 1 .. Len(Spokes) |-> e(i)]
  BY <1>1 DEF Readings, e
<1>5. Len(Readings(failed)) = Len(Spokes)
  BY <1>1, <1>3, <1>4
<1> QED BY <1>1, <1>3, <1>4, <1>5

LEMMA ResolvedType ==
  ASSUME TypeOK, NEW failed \in SUBSET Spoke, NEW reports \in [failed -> PeerReports]
  PROVE  Resolved(failed, reports) \in Seq(Call)
<1> DEFINE keep == {i \in DOMAIN Spokes :
                      Spokes[i] \in failed => Usable(reports[Spokes[i]]) # <<>>}
           known == Filtered(Spokes, keep)
           e(i) == [spoke |-> known[i],
                    value |-> IF known[i] \in failed THEN Usable(reports[known[i]])[1]
                                                     ELSE vault[known[i]]]
<1>1. Spokes \in Seq(Spoke)
  BY KeeperAssumption
<1>2. /\ known \in Seq(Spoke)
      /\ \A j \in 1 .. Len(known) : \E i \in 1 .. Len(Spokes) : i \in keep /\ known[j] = Spokes[i]
  <2> HIDE DEF keep
  <2>1. known \in Seq(Spoke)
    BY <1>1, FilteredElements
  <2>2. \A j \in 1 .. Len(known) : \E i \in 1 .. Len(Spokes) : i \in keep /\ known[j] = Spokes[i]
    BY <1>1, FilteredElements
  <2> QED BY <2>1, <2>2
<1>3. \A i \in keep : Spokes[i] \in failed => Usable(reports[Spokes[i]]) # <<>>
  OBVIOUS
<1> HIDE DEF keep, known
<1>4. ASSUME NEW s \in failed
      PROVE  Usable(reports[s]) \in Seq(Reported)
  <2>1. PICK n \in 0 .. PeerCount : reports[s] \in [1 .. n -> PeerValues]
    BY DEF PeerReports
  <2>2. reports[s] \in Seq(Reported)
    <3>1. n \in Nat /\ PeerValues \subseteq Reported
      BY KeeperAssumption
    <3>2. reports[s] \in Seq(PeerValues)
      BY <2>1, <3>1
    <3> QED BY <3>1, <3>2
  <2> QED BY <2>2, FilteredElements DEF Usable
<1>5. ASSUME NEW j \in 1 .. Len(known)
      PROVE  e(j) \in Call
  <2>1. known[j] \in Spoke
    BY <1>2
  <2>2. CASE known[j] \in failed
    <3>1. Usable(reports[known[j]]) # <<>>
      BY <1>2, <1>3, <2>2
    <3>2. Usable(reports[known[j]])[1] \in Reported
      BY <1>4, <2>2, <3>1
    <3> QED BY <2>1, <2>2, <3>2 DEF Call
  <2>3. CASE known[j] \notin failed
    BY <2>1, <2>3, Bounds DEF Call, TypeOK
  <2> QED BY <2>2, <2>3
<1> HIDE DEF e
<1>6. Len(known) \in Nat /\ DOMAIN known = 1 .. Len(known)
  BY <1>2
<1>7. [i \in 1 .. Len(known) |-> e(i)] \in Seq(Call)
  BY <1>5, <1>6, IsASeq
<1> QED BY <1>6, <1>7 DEF Resolved, e, known, keep

-----------------------------------------------------------------------------
(* The types of the keeper's state, task by task. *)
LEMMA SchedStarts ==
  /\ SchedStart \in SchedState
  /\ \A t \in 0 .. UpdateInterval : Booting(t) \in SchedState
  /\ \A n \in 0 .. MaxRetries : [SchedStart EXCEPT !.attempt = n] \in SchedState
  /\ [SchedStart EXCEPT !.pc = "sleep", !.timer = UpdateInterval] \in SchedState
<1>1. SchedStart \in SchedState /\ <<>> \in Seq(Call)
  BY Bounds DEF SchedStart, SchedState, SchedPc
<1>2. ASSUME NEW t \in 0 .. UpdateInterval
      PROVE  Booting(t) \in SchedState
  BY <1>1 DEF SchedStart, SchedState, SchedPc, Booting
<1>3. ASSUME NEW n \in 0 .. MaxRetries
      PROVE  [SchedStart EXCEPT !.attempt = n] \in SchedState
  BY <1>1 DEF SchedStart, SchedState, SchedPc
<1>4. [SchedStart EXCEPT !.pc = "sleep", !.timer = UpdateInterval] \in SchedState
  <2>1. UpdateInterval \in 0 .. UpdateInterval
    BY Bounds
  <2> QED BY <1>1, <2>1 DEF SchedStart, SchedState, SchedPc
<1> QED BY <1>1, <1>2, <1>3, <1>4

LEMMA MonStarts == MonStart \in MonState
BY DEF MonStart, MonState, MonPc

(* A loop that waits for a receipt, or works through readings, has one at   *)
(* hand, and one that restores a breaker knows what to restore.             *)
MonAtHand(m) ==
  /\ m.pc # "sleep" => m.todo # <<>>
  /\ m.pc = "restore" => m.original \in Nat

AtHand ==
  /\ sched.pc = "receipt" => sched.left # <<>>
  /\ MonAtHand(mon)

LEMMA SchedType ==
  ASSUME TypeOK, AtHand, SchedStep
  PROVE  /\ sched' \in SchedState
         /\ pool' \in [Loop -> Tx \cup {None}]
         /\ lastPushed' \in [Spoke -> PushRecord \cup {None}]
         /\ history' \in [Spoke -> Seq(Observation)]
         /\ notified' \in BOOLEAN
         /\ UNCHANGED <<vault, oracle, warnings, mon, request, env>>
<1>0. /\ sched \in SchedState
      /\ pool \in [Loop -> Tx \cup {None}]
      /\ lastPushed \in [Spoke -> PushRecord \cup {None}]
      /\ history \in [Spoke -> Seq(Observation)]
      /\ notified \in BOOLEAN
  BY DEF TypeOK, PushRecord, Observation
<1>1. /\ sched.calls \in Seq(Call) /\ sched.left \in Seq(Call) /\ sched.succeeded \in Seq(Call)
      /\ sched.attempt \in 0 .. MaxRetries
  BY <1>0 DEF SchedState
<1> DEFINE Sched == sched' \in SchedState
           Pool == pool' \in [Loop -> Tx \cup {None}]
           Record == lastPushed' \in [Spoke -> PushRecord \cup {None}]
           Hist == history' \in [Spoke -> Seq(Observation)]
           Same == UNCHANGED <<vault, oracle, warnings, mon, request, env>>
<1>e. EndCycle => Sched
  BY SchedStarts DEF EndCycle
<1>2. CASE SchedBoot
  BY <1>0, <1>2, SchedStarts DEF SchedBoot
<1>3. CASE SchedRead
  <2>0. PICK failed \in SUBSET Unreadable :
          \E reports \in [failed -> PeerReports] :
            sched' = [sched EXCEPT !.pc = "staleness", !.calls = Resolved(failed, reports)]
    BY <1>3 DEF SchedRead
  <2>1. PICK reports \in [failed -> PeerReports] :
          sched' = [sched EXCEPT !.pc = "staleness", !.calls = Resolved(failed, reports)]
    BY <2>0
  <2>2. failed \in SUBSET Spoke
    BY KeeperAssumption
  <2>3. Resolved(failed, reports) \in Seq(Call)
    BY <2>2, ResolvedType
  <2>4. Sched
    BY <1>0, <2>1, <2>3 DEF SchedState, SchedPc
  <2> QED BY <1>0, <1>3, <2>4 DEF SchedRead
<1>4. CASE SchedStaleness
  <2>1. Sched
    BY <1>0, <1>4, <1>e DEF SchedStaleness, SchedState, SchedPc
  <2> QED BY <1>0, <1>4, <2>1 DEF SchedStaleness
<1>5. CASE SchedSelect
  <2> DEFINE stale  == Filtered(sched.calls, {i \in DOMAIN sched.calls : ~Fresh(sched.calls[i].spoke)})
             passed == Filtered(stale, {i \in DOMAIN stale : DriftLetsThrough(stale[i])})
  <2>1. stale \in Seq(Call)
    BY <1>1, FilteredElements
  <2>2. passed \in Seq(Call)
    <3> HIDE DEF stale
    <3> QED BY <2>1, FilteredElements
  <2>3. /\ history' = AfterDriftCheck(stale)
        /\ IF passed = <<>>
           THEN EndCycle
           ELSE sched' = [sched EXCEPT
                            !.pc = IF Len(passed) > 1 THEN "batch" ELSE "individual",
                            !.calls = passed,
                            !.left = passed]
    BY <1>5 DEF SchedSelect
  <2> HIDE DEF stale, passed
  <2>4. Hist
    BY <2>1, <2>3, HistoryType
  <2>5. Sched
    BY <1>0, <1>e, <2>2, <2>3 DEF SchedState, SchedPc
  <2> QED BY <1>0, <1>5, <2>4, <2>5 DEF SchedSelect
<1>6. CASE SchedBatch
  <2> DEFINE tx == [direct |-> FALSE, calls |-> sched.calls]
  <2>1. tx \in Tx
    BY <1>1 DEF Tx
  <2>2. \/ pool' = [pool EXCEPT !["sched"] = tx] /\ sched' = [sched EXCEPT !.pc = "batchReceipt"]
        \/ UNCHANGED pool /\ sched' = [sched EXCEPT !.pc = "individual"]
    BY <1>6 DEF SchedBatch
  <2> HIDE DEF tx
  <2>3. Sched
    BY <1>0, <2>1, <2>2 DEF SchedState, SchedPc
  <2>4. Pool
    BY <1>0, <2>1, <2>2
  <2> QED BY <1>0, <1>6, <2>3, <2>4 DEF SchedBatch
<1>7. CASE SchedBatchReceipt
  <2>1. Pushed(sched.calls) \in [Spoke -> PushRecord \cup {None}]
    BY <1>1, PushedType
  <2>2. Record
    BY <1>0, <1>7, <2>1 DEF SchedBatchReceipt
  <2>3. Sched
    BY <1>0, <1>7, <1>e DEF SchedBatchReceipt, SchedState, SchedPc
  <2> QED BY <1>0, <1>7, <2>2, <2>3 DEF SchedBatchReceipt
<1>8. CASE SchedIndividual
  <2> DEFINE tx == [direct |-> TRUE, calls |-> <<Head(sched.left)>>]
  <2>0. sched.left # <<>>
    BY <1>8 DEF SchedIndividual
  <2>1. tx \in Tx /\ Tail(sched.left) \in Seq(Call)
    BY <1>1, <2>0 DEF Tx
  <2>2. \/ pool' = [pool EXCEPT !["sched"] = tx] /\ sched' = [sched EXCEPT !.pc = "receipt"]
        \/ UNCHANGED pool /\ sched' = [sched EXCEPT !.left = Tail(@)]
    BY <1>8 DEF SchedIndividual
  <2> HIDE DEF tx
  <2>3. Sched
    BY <1>0, <2>1, <2>2 DEF SchedState, SchedPc
  <2>4. Pool
    BY <1>0, <2>1, <2>2
  <2> QED BY <1>0, <1>8, <2>3, <2>4 DEF SchedIndividual
<1>9. CASE SchedReceipt
  <2>0. sched.left # <<>>
    BY <1>9 DEF SchedReceipt, AtHand
  <2>1. /\ Tail(sched.left) \in Seq(Call)
        /\ Append(sched.succeeded, Head(sched.left)) \in Seq(Call)
    BY <1>1, <2>0
  <2>2. \/ sched' = [sched EXCEPT !.pc = "individual", !.left = Tail(sched.left),
                                 !.succeeded = Append(sched.succeeded, Head(sched.left))]
        \/ sched' = [sched EXCEPT !.pc = "individual", !.left = Tail(sched.left)]
    BY <1>0, <1>9 DEF SchedReceipt, SchedState
  <2>3. Sched
    BY <1>0, <2>1, <2>2 DEF SchedState, SchedPc
  <2> QED BY <1>0, <1>9, <2>3 DEF SchedReceipt
<1>10. CASE SchedFinish
  <2>1. Pushed(sched.succeeded) \in [Spoke -> PushRecord \cup {None}]
    BY <1>1, PushedType
  <2>2. sched.attempt + 1 < MaxRetries => sched.attempt + 1 \in 0 .. MaxRetries
    BY <1>1, Bounds
  <2>3. Sched
    <3>1. \/ EndCycle
          \/ sched.attempt + 1 < MaxRetries /\ sched' = [SchedStart EXCEPT !.attempt = sched.attempt + 1]
      BY <1>1, <1>10, Bounds DEF SchedFinish
    <3> QED BY <1>e, <2>2, <3>1, SchedStarts
  <2> QED BY <1>0, <1>10, <2>1, <2>3 DEF SchedFinish
<1>11. CASE SchedWake
  BY <1>0, <1>11, SchedStarts DEF SchedWake
<1> QED
  BY <1>2, <1>3, <1>4, <1>5, <1>6, <1>7, <1>8, <1>9, <1>10, <1>11 DEF SchedStep

LEMMA NextSpokeType ==
  ASSUME TypeOK, mon.todo # <<>>
  PROVE  NextSpoke \in MonState /\ MonAtHand(NextSpoke)
<1>1. mon.todo \in Seq(Call) /\ Len(mon.todo) \in Nat /\ Len(mon.todo) >= 1
  BY DEF TypeOK, MonState
<1>2. CASE Len(mon.todo) = 1
  BY <1>2, MonStarts DEF NextSpoke, MonStart, MonAtHand
<1>3. CASE Len(mon.todo) # 1
  <2> DEFINE rest == Tail(mon.todo)
  <2>1. rest \in Seq(Call) /\ Len(rest) = Len(mon.todo) - 1
    BY <1>1
  <2>2. NextSpoke = [MonStart EXCEPT !.pc = "decide", !.todo = rest]
    BY <1>3 DEF NextSpoke
  <2> HIDE DEF rest
  <2>3. rest # <<>>
    <3>1. Len(rest) # 0
      BY <1>1, <1>3, <2>1
    <3> QED BY <3>1
  <2> QED BY <2>1, <2>2, <2>3 DEF MonStart, MonState, MonPc, MonAtHand
<1> QED BY <1>2, <1>3

LEMMA MonType ==
  ASSUME TypeOK, AtHand, MonStep
  PROVE  /\ mon' \in MonState
         /\ MonAtHand(mon')
         /\ oracle' \in [Spoke -> OracleRecord]
         /\ pool' \in [Loop -> Tx \cup {None}]
         /\ lastPushed' \in [Spoke -> PushRecord \cup {None}]
         /\ history' \in [Spoke -> Seq(Observation)]
         /\ \/ UNCHANGED warnings
            \/ \E s \in Spoke : warnings' = [warnings EXCEPT ![s] = None]
         /\ UNCHANGED <<vault, sched, request, notified, env>>
<1>0. /\ mon \in MonState
      /\ oracle \in [Spoke -> OracleRecord]
      /\ pool \in [Loop -> Tx \cup {None}]
      /\ lastPushed \in [Spoke -> PushRecord \cup {None}]
      /\ history \in [Spoke -> Seq(Observation)]
      /\ warnings \in [Spoke -> Warning \cup {None}]
  BY DEF TypeOK, PushRecord, Observation, OracleRecord
<1>1. /\ mon.todo \in Seq(Call)
      /\ mon.todo # <<>> => Head(mon.todo) \in Call /\ Head(mon.todo).spoke \in Spoke
  <2>1. mon.todo \in Seq(Call)
    BY <1>0 DEF MonState
  <2>2. mon.todo # <<>> => Head(mon.todo) \in Call
    BY <2>1
  <2> QED BY <2>1, <2>2 DEF Call
<1>2. mon.pc # "sleep" => mon.todo # <<>>
  BY DEF AtHand, MonAtHand
<1> DEFINE Mon == mon' \in MonState /\ MonAtHand(mon')
           At(pc) == [mon EXCEPT !.pc = pc]
<1>3. ASSUME NEW pc \in MonPc, mon.todo # <<>>, pc = "restore" => mon.original # None
      PROVE  At(pc) \in MonState /\ MonAtHand(At(pc))
  BY <1>0, <1>3 DEF MonState, MonAtHand
<1>4. mon.todo # <<>> => AfterWarning \in MonState /\ MonAtHand(AfterWarning)
  <2>1. "send" \in MonPc
    BY DEF MonPc
  <2> QED BY <1>3, <2>1, NextSpokeType DEF AfterWarning
<1>5. CASE MonRead
  <2>1. PICK failed \in SUBSET Unreadable :
          mon' = [MonStart EXCEPT !.pc = "decide", !.todo = Readings(failed)]
    BY <1>5 DEF MonRead
  <2>2. Readings(failed) \in Seq(Call) /\ Readings(failed) # <<>>
    BY ReadingsType
  <2>3. Mon
    BY <2>1, <2>2 DEF MonStart, MonState, MonPc, MonAtHand
  <2> QED BY <1>0, <1>5, <2>3 DEF MonRead
<1>6. CASE MonDecide
  <2> DEFINE c == Head(mon.todo)
  <2>0. mon.todo # <<>> /\ c \in Call /\ c.spoke \in Spoke
    BY <1>1, <1>2, <1>6 DEF MonDecide
  <2>1. \/ ~Moved(c) /\ DecideUnmoved(c)
        \/ Moved(c) /\ warnings[c.spoke] # None /\ DecideBridged(c)
        \/ Moved(c) /\ warnings[c.spoke] = None /\ DecideMoved(c)
    BY <1>6 DEF MonDecide
  <2>2. UNCHANGED <<vault, oracle, pool, lastPushed, warnings, sched, request, notified, env>>
    BY <1>6 DEF MonDecide
  <2> HIDE DEF c
  <2>3. NextSpoke \in MonState /\ MonAtHand(NextSpoke)
    BY <2>0, NextSpokeType
  <2>4. At("send") \in MonState /\ MonAtHand(At("send"))
    BY <1>3, <2>0 DEF MonPc
  <2>5. ASSUME warnings[c.spoke] # None, NEW p \in BOOLEAN, EndWarning(c, p)
        PROVE  Mon /\ UNCHANGED history
    <3>1. warnings[c.spoke].original \in Nat \cup {None}
      BY <1>0, <2>0, <2>5 DEF Warning
    <3> QED BY <1>0, <2>0, <2>5, <3>1 DEF EndWarning, MonState, MonPc, MonAtHand
  <2>6. CASE DecideUnmoved(c)
    BY <2>2, <2>3, <2>5, <2>6, <1>0 DEF DecideUnmoved
  <2>7. CASE warnings[c.spoke] # None /\ DecideBridged(c)
    BY <2>2, <2>4, <2>5, <2>7, <1>0 DEF DecideBridged
  <2>8. CASE DecideMoved(c)
    <3>1. <<c>> \in Seq(Call)
      BY <2>0
    <3>2. history' \in [Spoke -> Seq(Observation)]
      BY <2>8, <3>1, HistoryType DEF DecideMoved
    <3>3. Mon
      BY <2>3, <2>4, <2>8 DEF DecideMoved
    <3> QED BY <1>0, <2>2, <3>2, <3>3
  <2> QED BY <2>1, <2>6, <2>7, <2>8
<1>7. CASE MonRemove
  <2>1. Mon
    BY <1>2, <1>3, <1>7 DEF MonRemove, MonPc
  <2> QED BY <1>0, <1>1, <1>2, <1>7, <2>1 DEF MonRemove
<1>8. CASE MonReset
  <2>1. Mon
    BY <1>2, <1>3, <1>4, <1>8 DEF MonReset, MonPc
  <2>2. history' \in [Spoke -> Seq(Observation)]
    <3>1. history' = [history EXCEPT ![Head(mon.todo).spoke] = <<>>]
      BY <1>8 DEF MonReset
    <3>2. <<>> \in Seq(Observation)
      OBVIOUS
    <3> QED BY <1>0, <3>1, <3>2
  <2> QED BY <1>0, <1>8, <2>1, <2>2 DEF MonReset
<1>9. CASE MonRestore
  <2>1. Mon
    BY <1>2, <1>4, <1>9 DEF MonRestore
  <2>2. oracle' \in [Spoke -> OracleRecord]
    <3>1. mon.original \in Nat
      BY <1>9 DEF MonRestore, AtHand, MonAtHand
    <3>2. PICK s \in Spoke : \/ oracle' = [oracle EXCEPT ![s].bps = mon.original]
                             \/ UNCHANGED oracle
      BY <1>1, <1>2, <1>9 DEF MonRestore
    <3>3. [oracle[s] EXCEPT !.bps = mon.original] \in OracleRecord
      BY <1>0, <3>1 DEF OracleRecord
    <3>4. oracle' = [oracle EXCEPT ![s] = [oracle[s] EXCEPT !.bps = mon.original]]
          \/ UNCHANGED oracle
      BY <3>2
    <3> QED BY <1>0, <3>3, <3>4
  <2> QED BY <1>0, <1>9, <2>1, <2>2 DEF MonRestore
<1>10. CASE MonSend
  <2> DEFINE tx == [direct |-> TRUE, calls |-> <<Head(mon.todo)>>]
  <2>1. mon.todo # <<>> /\ tx \in Tx
    BY <1>1, <1>2, <1>10 DEF MonSend, Tx
  <2>2. \/ pool' = [pool EXCEPT !["mon"] = tx] /\ mon' = [mon EXCEPT !.pc = "receipt"]
        \/ UNCHANGED pool /\ mon' = NextSpoke
    BY <1>10 DEF MonSend
  <2> HIDE DEF tx
  <2>3. Mon
    BY <1>3, <2>1, <2>2, NextSpokeType DEF MonPc
  <2>4. pool' \in [Loop -> Tx \cup {None}]
    BY <1>0, <2>1, <2>2
  <2> QED BY <1>0, <1>10, <2>3, <2>4 DEF MonSend
<1>11. CASE MonReceipt
  <2>1. mon.todo # <<>> /\ <<Head(mon.todo)>> \in Seq(Call)
    BY <1>1, <1>2, <1>11 DEF MonReceipt
  <2>2. Mon
    BY <1>11, <2>1, NextSpokeType DEF MonReceipt
  <2>3. Pushed(<<Head(mon.todo)>>) \in [Spoke -> PushRecord \cup {None}]
    BY <2>1, PushedType
  <2>4. lastPushed' \in [Spoke -> PushRecord \cup {None}]
    BY <1>0, <1>11, <2>3 DEF MonReceipt
  <2> QED BY <1>0, <1>11, <2>2, <2>4 DEF MonReceipt
<1> QED BY <1>5, <1>6, <1>7, <1>8, <1>9, <1>10, <1>11 DEF MonStep

(* The steps that have to do with a bridge warning's request. *)
RequestStep ==
  \/ \E s \in Spoke, d \in Delta : CuratorBridgeWarning(s, d) \/ PeerBridgeWarning(s, d)
  \/ HandlerStep

LEMMA RequestType ==
  ASSUME TypeOK, RequestStep
  PROVE  /\ request' \in Request \cup {None}
         /\ oracle' \in [Spoke -> OracleRecord]
         /\ \/ UNCHANGED warnings
            \/ \E s \in Spoke, w \in Warning :
                 w.age = 0 /\ warnings' = [warnings EXCEPT ![s] = w]
         /\ UNCHANGED <<vault, pool, lastPushed, history, sched, mon, notified>>
<1>0. /\ request \in Request \cup {None}
      /\ oracle \in [Spoke -> OracleRecord]
      /\ warnings \in [Spoke -> Warning \cup {None}]
  BY DEF TypeOK, OracleRecord
<1>1. request # None => request \in Request /\ request.spoke \in Spoke
  BY <1>0 DEF Request
<1>2. \A s \in Spoke : oracle[s].bps \in Nat /\ Baseline(s) \subseteq Reported \cup {0}
  BY <1>0 DEF OracleRecord, Baseline
<1> DEFINE Off(s) == [oracle EXCEPT ![s].bps = 0]
<1>3. ASSUME NEW s \in Spoke
      PROVE  Off(s) \in [Spoke -> OracleRecord]
  <2>1. [oracle[s] EXCEPT !.bps = 0] \in OracleRecord
    BY <1>0 DEF OracleRecord
  <2>2. Off(s) = [oracle EXCEPT ![s] = [oracle[s] EXCEPT !.bps = 0]]
    OBVIOUS
  <2> QED BY <1>0, <2>1, <2>2
<1>4. ASSUME NEW s \in Spoke, NEW d \in Delta, CuratorBridgeWarning(s, d)
      PROVE  request' \in Request /\ UNCHANGED oracle
  <2>1. PICK pre \in Baseline(s) :
          request' = [pc |-> IF HasOwnerKey THEN "bps" ELSE "insert",
                      spoke |-> s, delta |-> d, pre |-> pre, original |-> None,
                      switching |-> FALSE]
    BY <1>4 DEF CuratorBridgeWarning
  <2>2. pre \in Reported \cup {0}
    BY <1>2, <2>1
  <2> QED BY <1>4, <2>1, <2>2 DEF CuratorBridgeWarning, Request, RequestPc
<1>5. ASSUME NEW s \in Spoke, NEW d \in Delta, PeerBridgeWarning(s, d)
      PROVE  request' \in Request /\ oracle' \in [Spoke -> OracleRecord]
  <2>1. PICK pre \in Baseline(s), original \in {None, oracle[s].bps} \ {0} :
          /\ \/ UNCHANGED oracle
             \/ oracle' = Off(s)
          /\ request' = [pc |-> IF HasOwnerKey /\ original = None THEN "peerBps" ELSE "insert",
                         spoke |-> s, delta |-> d, pre |-> pre, original |-> original,
                         switching |-> HasOwnerKey /\ original # None]
    BY <1>5 DEF PeerBridgeWarning
  <2>2. pre \in Reported \cup {0} /\ original \in Nat \cup {None}
    BY <1>2, <2>1
  <2>3. request' \in Request
    <3> HIDE DEF Off
    <3> QED BY <2>1, <2>2, Bounds DEF Request, RequestPc
  <2> HIDE DEF Off
  <2> QED BY <1>0, <1>3, <2>1, <2>3
<1>6. CASE \E s \in Spoke, d \in Delta : CuratorBridgeWarning(s, d) \/ PeerBridgeWarning(s, d)
  <2>1. request' \in Request /\ oracle' \in [Spoke -> OracleRecord]
    BY <1>0, <1>4, <1>5, <1>6
  <2>2. UNCHANGED <<vault, pool, lastPushed, history, warnings, sched, mon, notified>>
    BY <1>6 DEF CuratorBridgeWarning, PeerBridgeWarning
  <2> QED BY <2>1, <2>2
<1>7. \A s \in Spoke : SwitchedOff(s) => oracle' \in [Spoke -> OracleRecord]
  <2> HIDE DEF Off
  <2>1. \A s \in Spoke : SwitchedOff(s) => oracle' = Off(s) \/ UNCHANGED oracle
    BY DEF SwitchedOff, Off
  <2> QED BY <1>0, <1>3, <2>1
<1>8. CASE ReadBreaker
  <2>1. request \in Request /\ oracle[request.spoke].bps \in Nat
    BY <1>1, <1>2, <1>8 DEF ReadBreaker
  <2>2. request' \in Request
    BY <1>8, <2>1 DEF ReadBreaker, Request, RequestPc
  <2> QED BY <1>0, <1>8, <2>2 DEF ReadBreaker
<1>9. CASE PeerReadBreaker
  <2>1. request \in Request /\ oracle[request.spoke].bps \in Nat
    BY <1>1, <1>2, <1>9 DEF PeerReadBreaker
  <2>2. request' \in Request
    BY <1>9, <2>1 DEF PeerReadBreaker, Request, RequestPc
  <2> QED BY <1>0, <1>9, <2>2 DEF PeerReadBreaker
<1>10. CASE DisableBreaker
  <2>1. request' \in Request
    BY <1>1, <1>10 DEF DisableBreaker, Request, RequestPc
  <2> QED BY <1>1, <1>7, <1>10, <2>1 DEF DisableBreaker
<1>11. CASE SpawnedDisable
  <2>1. request' \in Request \cup {None}
    BY <1>1, <1>11 DEF SpawnedDisable, Request, RequestPc
  <2> QED BY <1>1, <1>7, <1>11, <2>1 DEF SpawnedDisable
<1>12. CASE InsertWarning
  <2> DEFINE w == [pre |-> request.pre, delta |-> request.delta, age |-> 0,
                   original |-> request.original]
  <2>1. request \in Request /\ request.spoke \in Spoke
    BY <1>1, <1>12 DEF InsertWarning
  <2>2. w \in Warning /\ w.age = 0
    BY <2>1, DeltaAssumption DEF Warning, Request
  <2>3. warnings' = [warnings EXCEPT ![request.spoke] = w]
    BY <1>12 DEF InsertWarning
  <2> HIDE DEF w
  <2>4. request' \in Request \cup {None}
    BY <1>12, <2>1 DEF InsertWarning, Request, RequestPc
  <2> QED BY <1>0, <1>12, <2>1, <2>2, <2>3, <2>4 DEF InsertWarning
<1>13. CASE DropRequest
  <2>1. oracle' \in [Spoke -> OracleRecord]
    BY <1>0, <1>1, <1>7, <1>13 DEF DropRequest
  <2> QED BY <1>13, <2>1 DEF DropRequest
<1> QED
  BY <1>6, <1>8, <1>9, <1>10, <1>11, <1>12, <1>13 DEF RequestStep, HandlerStep

-----------------------------------------------------------------------------
LEMMA AgedType ==
  ASSUME TypeOK, Tick
  PROVE  /\ oracle' \in [Spoke -> OracleRecord]
         /\ lastPushed' \in [Spoke -> PushRecord \cup {None}]
         /\ history' \in [Spoke -> Seq(Observation)]
         /\ warnings' \in [Spoke -> Warning \cup {None}]
         /\ \A s \in Spoke : warnings'[s] # None => warnings'[s].age <= WarningAgeCap
         /\ sched' \in SchedState
<1>0. /\ sched \in SchedState
      /\ oracle \in [Spoke -> OracleRecord]
      /\ lastPushed \in [Spoke -> PushRecord \cup {None}]
      /\ history \in [Spoke -> Seq(Observation)]
      /\ warnings \in [Spoke -> Warning \cup {None}]
      /\ \A s \in Spoke : warnings[s] # None => warnings[s].age <= WarningAgeCap
  BY DEF TypeOK, PushRecord, Observation, OracleRecord
<1>1. \A cap \in Nat : \A age \in 0 .. cap : Older(age, cap) \in 0 .. cap
  BY DEF Older
<1>2. oracle' \in [Spoke -> OracleRecord]
  <2> SUFFICES ASSUME NEW s \in Spoke
               PROVE  [oracle[s] EXCEPT !.age = Older(@, OracleAgeCap)] \in OracleRecord
    BY DEF Tick
  <2> DEFINE x == Older(oracle[s].age, OracleAgeCap)
  <2>1. oracle[s] \in OracleRecord /\ oracle[s].age \in 0 .. OracleAgeCap
    BY <1>0 DEF OracleRecord
  <2>2. x \in 0 .. OracleAgeCap
    BY <1>1, <2>1, Bounds
  <2> HIDE DEF x
  <2>3. [oracle[s] EXCEPT !.age = x] \in OracleRecord
    BY <2>1, <2>2 DEF OracleRecord
  <2> QED BY <2>3 DEF x
<1>3. lastPushed' \in [Spoke -> PushRecord \cup {None}]
  <2> SUFFICES ASSUME NEW s \in Spoke, lastPushed[s] # None
               PROVE  [lastPushed[s] EXCEPT !.age = Older(@, SkipIfFresh)] \in PushRecord
    BY DEF Tick, AgedEntry
  <2> DEFINE x == Older(lastPushed[s].age, SkipIfFresh)
  <2>1. lastPushed[s] \in PushRecord /\ lastPushed[s].age \in 0 .. SkipIfFresh
    BY <1>0 DEF PushRecord
  <2>2. x \in 0 .. SkipIfFresh
    BY <1>1, <2>1, Bounds
  <2> HIDE DEF x
  <2>3. [lastPushed[s] EXCEPT !.age = x] \in PushRecord
    BY <2>1, <2>2 DEF PushRecord
  <2> QED BY <2>3 DEF x
<1>4. history' \in [Spoke -> Seq(Observation)]
  <2> SUFFICES ASSUME NEW s \in Spoke
               PROVE  Aged(history[s], HistoryAgeCap) \in Seq(Observation)
    BY DEF Tick
  <2> DEFINE h == history[s]
             e(i) == [h[i] EXCEPT !.age = Older(@, HistoryAgeCap)]
  <2>1. h \in Seq(Observation) /\ Len(h) \in Nat /\ DOMAIN h = 1 .. Len(h)
    BY <1>0
  <2>2. ASSUME NEW i \in 1 .. Len(h)
        PROVE  e(i) \in Observation
    <3> DEFINE x == Older(h[i].age, HistoryAgeCap)
    <3>1. h[i] \in Observation
      BY <2>1
    <3>2. x \in 0 .. HistoryAgeCap
      BY <1>1, <3>1, Bounds DEF Observation
    <3> HIDE DEF x
    <3>3. [h[i] EXCEPT !.age = x] \in Observation
      BY <3>1, <3>2 DEF Observation
    <3> QED BY <3>3 DEF x
  <2>3. Aged(h, HistoryAgeCap) = [i \in 1 .. Len(h) |-> e(i)]
    BY <2>1 DEF Aged
  <2> HIDE DEF h, e
  <2>4. [i \in 1 .. Len(h) |-> e(i)] \in Seq(Observation)
    BY <2>1, <2>2, IsASeq
  <2> QED BY <2>3, <2>4 DEF h
<1>5. ASSUME NEW s \in Spoke, warnings[s] # None
      PROVE  /\ [warnings[s] EXCEPT !.age = Older(@, WarningAgeCap)] \in Warning
             /\ [warnings[s] EXCEPT !.age = Older(@, WarningAgeCap)].age <= WarningAgeCap
  <2> DEFINE x == Older(warnings[s].age, WarningAgeCap)
  <2>1. /\ warnings[s] \in Warning /\ warnings[s].age \in Nat
        /\ warnings[s].age <= WarningAgeCap
    BY <1>0, <1>5 DEF Warning
  <2>2. x \in Nat /\ x <= WarningAgeCap
    BY <1>1, <2>1, Bounds
  <2> HIDE DEF x
  <2>3. /\ [warnings[s] EXCEPT !.age = x] \in Warning
        /\ [warnings[s] EXCEPT !.age = x].age = x
    BY <2>1, <2>2 DEF Warning
  <2> QED BY <2>2, <2>3 DEF x
<1>6. /\ warnings' \in [Spoke -> Warning \cup {None}]
      /\ \A s \in Spoke : warnings'[s] # None => warnings'[s].age <= WarningAgeCap
  BY <1>0, <1>5 DEF Tick, AgedEntry
<1>7. sched' \in SchedState
  <2>1. sched.timer - 1 \in 0 .. UpdateInterval
    BY <1>0, Bounds, SMTT(30) DEF Tick, SchedState
  <2>2. sched' = [sched EXCEPT !.timer = sched.timer - 1]
    BY <1>0 DEF Tick, SchedState
  <2> QED BY <1>0, <2>1, <2>2 DEF SchedState
<1> QED BY <1>2, <1>3, <1>4, <1>6, <1>7

Typed == TypeOK /\ AtHand

LEMMA InitTyped == Init => Typed
<1> SUFFICES ASSUME Init
             PROVE  Typed
  OBVIOUS
<1>1. /\ env \in Environment /\ env.breaker \in Nat
      /\ vault \in [Spoke -> Value]
  BY KeeperAssumption DEF Init, Environment
<1>2. oracle \in [Spoke -> OracleRecord]
  <2> SUFFICES ASSUME NEW s \in Spoke
               PROVE  [stored |-> vault[s], age |-> 0, bps |-> env.breaker] \in OracleRecord
    BY DEF Init
  <2>1. 0 \in 0 .. OracleAgeCap
    BY Bounds
  <2>2. vault[s] \in Value /\ Value \subseteq Reported
    BY <1>1, Bounds
  <2> QED BY <1>1, <2>1, <2>2 DEF OracleRecord
<1>3. /\ lastPushed \in [Spoke -> PushRecord \cup {None}]
      /\ pool \in [Loop -> Tx \cup {None}]
      /\ warnings \in [Spoke -> Warning \cup {None}]
      /\ \A s \in Spoke : warnings[s] # None => warnings[s].age <= WarningAgeCap
      /\ request \in Request \cup {None}
      /\ notified \in BOOLEAN
  BY DEF Init
<1>4. history \in [Spoke -> Seq(Observation)]
  <2>1. <<>> \in Seq(Observation)
    OBVIOUS
  <2> QED BY <2>1 DEF Init
<1>5. sched \in SchedState /\ mon \in MonState
  BY SchedStarts, MonStarts DEF Init
<1>6. AtHand
  BY DEF Init, AtHand, MonAtHand, MonStart, Booting, SchedStart
<1> QED
  BY <1>1, <1>2, <1>3, <1>4, <1>5, <1>6 DEF Typed, TypeOK, PushRecord, Observation, OracleRecord

LEMMA NextTyped ==
  ASSUME Typed, [Next]_vars
  PROVE  Typed'
<1>0. /\ TypeOK /\ AtHand
      /\ vault \in [Spoke -> Value]
      /\ oracle \in [Spoke -> OracleRecord]
      /\ pool \in [Loop -> Tx \cup {None}]
      /\ lastPushed \in [Spoke -> PushRecord \cup {None}]
      /\ history \in [Spoke -> Seq(Observation)]
      /\ warnings \in [Spoke -> Warning \cup {None}]
      /\ \A s \in Spoke : warnings[s] # None => warnings[s].age <= WarningAgeCap
      /\ sched \in SchedState /\ mon \in MonState
      /\ request \in Request \cup {None}
      /\ notified \in BOOLEAN
  BY DEF Typed, TypeOK, PushRecord, Observation, OracleRecord
<1>1. env' \in Environment /\ OracleAgeCap' = OracleAgeCap
  BY <1>0, SurroundingsStay
<1> DEFINE Good ==
             /\ vault' \in [Spoke -> Value]
             /\ oracle' \in [Spoke -> OracleRecord]
             /\ pool' \in [Loop -> Tx \cup {None}]
             /\ lastPushed' \in [Spoke -> PushRecord \cup {None}]
             /\ history' \in [Spoke -> Seq(Observation)]
             /\ warnings' \in [Spoke -> Warning \cup {None}]
             /\ \A s \in Spoke : warnings'[s] # None => warnings'[s].age <= WarningAgeCap
             /\ sched' \in SchedState /\ mon' \in MonState
             /\ request' \in Request \cup {None}
             /\ notified' \in BOOLEAN
             /\ sched'.pc = "receipt" => sched'.left # <<>>
             /\ MonAtHand(mon')
<1>2. SUFFICES Good
  BY <1>1 DEF Typed, TypeOK, AtHand, PushRecord, Observation, OracleRecord, MonAtHand
<1>3. (sched.pc = "receipt" => sched.left # <<>>) /\ MonAtHand(mon)
  BY <1>0 DEF AtHand
<1>4. CASE SchedStep
  <2>1. sched'.pc = "receipt" => sched'.left # <<>>
    <3>1. EndCycle => sched'.pc # "receipt"
      BY DEF EndCycle, SchedStart
    <3>2. \A n : [SchedStart EXCEPT !.attempt = n].pc # "receipt"
      BY DEF SchedStart
    <3>3. SchedStart.pc # "receipt"
      BY DEF SchedStart
    <3>4. SchedBoot \/ SchedFinish \/ SchedWake => sched'.pc # "receipt"
      BY <3>1, <3>2, <3>3 DEF SchedBoot, SchedFinish, SchedWake
    <3>5. SchedRead \/ SchedStaleness \/ SchedBatch \/ SchedBatchReceipt \/ SchedReceipt
            => sched'.pc # "receipt"
      BY <1>0, <3>1
      DEF SchedRead, SchedStaleness, SchedBatch, SchedBatchReceipt, SchedReceipt, SchedState
    <3>6. SchedSelect => sched'.pc # "receipt"
      BY <1>0, <3>1 DEF SchedSelect, SchedState
    <3>7. SchedIndividual => sched'.left # <<>> \/ sched'.pc # "receipt"
      BY <1>0 DEF SchedIndividual, SchedState
    <3> QED BY <1>4, <3>4, <3>5, <3>6, <3>7 DEF SchedStep
  <2> QED BY <1>0, <1>3, <1>4, <2>1, SchedType
<1>5. CASE MonStep
  <2>1. /\ warnings' \in [Spoke -> Warning \cup {None}]
        /\ \A s \in Spoke : warnings'[s] # None => warnings'[s].age <= WarningAgeCap
    BY <1>0, <1>5, MonType
  <2> QED BY <1>0, <1>3, <1>5, <2>1, MonType
<1>6. CASE RequestStep
  <2>1. /\ warnings' \in [Spoke -> Warning \cup {None}]
        /\ \A s \in Spoke : warnings'[s] # None => warnings'[s].age <= WarningAgeCap
    <3>1. CASE UNCHANGED warnings
      BY <1>0, <3>1
    <3>2. ASSUME NEW s \in Spoke, NEW w \in Warning, w.age = 0,
                 warnings' = [warnings EXCEPT ![s] = w]
          PROVE  /\ warnings' \in [Spoke -> Warning \cup {None}]
                 /\ \A r \in Spoke : warnings'[r] # None => warnings'[r].age <= WarningAgeCap
      BY <1>0, <3>2, Bounds
    <3> QED BY <1>0, <1>6, <3>1, <3>2, RequestType
  <2> QED BY <1>0, <1>3, <1>6, <2>1, RequestType
<1>7. ASSUME NEW l \in Loop, Mine(l)
      PROVE  Good
  <2>1. pool[l] # None => pool[l].calls \in Seq(Call)
    BY <1>0 DEF Tx
  <2>2. oracle' \in [Spoke -> OracleRecord]
    BY <1>0, <1>7, <2>1, StoredType DEF Mine
  <2>3. pool' \in [Loop -> Tx \cup {None}]
    BY <1>0, <1>7 DEF Mine
  <2> QED BY <1>0, <1>3, <1>7, <2>2, <2>3 DEF Mine
<1>8. ASSUME NEW s \in Spoke, VaultMoves(s)
      PROVE  Good
  <2>1. vault' \in [Spoke -> Value]
    BY <1>0, <1>8 DEF VaultMoves
  <2> QED BY <1>0, <1>3, <1>8, <2>1 DEF VaultMoves
<1>9. ASSUME NEW s \in Spoke, OtherKeeperPushes(s)
      PROVE  Good
  <2>1. [spoke |-> s, value |-> vault[s]] \in Call
    BY <1>0, Bounds DEF Call
  <2>2. <<[spoke |-> s, value |-> vault[s]]>> \in Seq(Call)
    BY <2>1
  <2>3. oracle' \in [Spoke -> OracleRecord]
    BY <1>0, <1>9, <2>2, StoredType DEF OtherKeeperPushes
  <2> QED BY <1>0, <1>3, <1>9, <2>3 DEF OtherKeeperPushes
<1>10. CASE PostUpdate
  BY <1>0, <1>3, <1>10 DEF PostUpdate
<1>11. CASE PeerLooksStale
  BY <1>0, <1>3, <1>11 DEF PeerLooksStale
<1>12. CASE Restart
  <2>1. <<>> \in Seq(Observation)
    OBVIOUS
  <2>2. sched' \in SchedState /\ mon' \in MonState
    BY <1>12, SchedStarts, MonStarts DEF Restart
  <2>3. sched'.pc # "receipt" /\ mon'.pc = "sleep"
    BY <1>12 DEF Restart, Booting, SchedStart, MonStart
  <2>4. history' \in [Spoke -> Seq(Observation)]
    BY <1>12, <2>1 DEF Restart
  <2> QED BY <1>0, <1>12, <2>2, <2>3, <2>4 DEF Restart, MonAtHand
<1>13. CASE Tick
  <2>1. sched'.pc = sched.pc
    BY <1>0, <1>13 DEF Tick, SchedState
  <2>2. sched'.pc # "receipt"
    BY <1>13, <2>1 DEF Tick, Quiet
  <2>3. UNCHANGED <<vault, pool, mon, request, notified>>
    BY <1>13 DEF Tick
  <2> QED BY <1>0, <1>3, <1>13, <2>2, <2>3, AgedType
<1>14. CASE UNCHANGED vars
  BY <1>0, <1>3, <1>14 DEF vars
<1> HIDE DEF Good
<1> QED
  BY <1>4, <1>5, <1>6, <1>7, <1>8, <1>9, <1>10, <1>11, <1>12, <1>13, <1>14
  DEF Next, RequestStep

LEMMA TypedAlways == Spec => []Typed
<1>1. Typed /\ [Next]_vars => Typed'
  BY NextTyped
<1> QED BY InitTyped, <1>1, PTL DEF Spec

(* Whatever fails, restarts or is announced, in whichever order the tasks   *)
(* step: both loops, the handlers and the chain keep the shared state well  *)
(* formed, ages and retries within their bounds, no value but a vault's or  *)
(* the sentinel in it.                                                      *)
THEOREM TypeCorrect == Spec => []TypeOK
BY TypedAlways, PTL DEF Typed

-----------------------------------------------------------------------------
(* No placeholder among the values. *)
Clean(calls) == \A i \in 1 .. Len(calls) : calls[i].value # Sentinel

NoPlaceholder ==
  /\ Clean(sched.calls) /\ Clean(sched.left)
  /\ Clean(mon.todo)
  /\ \A l \in Loop : pool[l] # None => Clean(pool[l].calls)

LEMMA CleanParts ==
  ASSUME NEW calls \in Seq(Call), Clean(calls)
  PROVE  /\ \A keep : Clean(Filtered(calls, keep))
         /\ calls # <<>> => Clean(Tail(calls)) /\ Clean(<<Head(calls)>>)
<1>1. ASSUME NEW keep
      PROVE  Clean(Filtered(calls, keep))
  <2>1. ASSUME NEW j \in 1 .. Len(Filtered(calls, keep))
        PROVE  Filtered(calls, keep)[j].value # Sentinel
    <3>1. \A j_1 \in 1 .. Len(Filtered(calls, keep)) :
            \E i \in 1 .. Len(calls) : i \in keep /\ Filtered(calls, keep)[j_1] = calls[i]
      BY FilteredFrom
    <3>2. PICK i \in 1 .. Len(calls) : Filtered(calls, keep)[j] = calls[i]
      BY <3>1
    <3> QED BY <3>2 DEF Clean
  <2> QED BY <2>1 DEF Clean
<1>2. ASSUME calls # <<>>
      PROVE  Clean(Tail(calls)) /\ Clean(<<Head(calls)>>)
  <2>1. /\ Len(calls) \in Nat /\ Len(calls) >= 1
        /\ Tail(calls) \in Seq(Call) /\ Len(Tail(calls)) = Len(calls) - 1
        /\ \A i \in 1 .. Len(Tail(calls)) : Tail(calls)[i] = calls[i + 1]
        /\ Head(calls) = calls[1]
    BY <1>2
  <2>2. \A i \in 1 .. Len(Tail(calls)) : i + 1 \in 1 .. Len(calls)
    BY <2>1
  <2>3. Clean(Tail(calls))
    BY <2>1, <2>2 DEF Clean
  <2>4. 1 \in 1 .. Len(calls) /\ Len(<<Head(calls)>>) = 1
    BY <2>1
  <2>5. Clean(<<Head(calls)>>)
    BY <2>1, <2>4 DEF Clean
  <2> QED BY <2>3, <2>5
<1> QED BY <1>1, <1>2

(* What cross-validation makes of the readings holds no placeholder. *)
LEMMA ResolvedClean ==
  ASSUME TypeOK, Sentinel \notin Value,
         NEW failed \in SUBSET Spoke, NEW reports \in [failed -> PeerReports]
  PROVE  Clean(Resolved(failed, reports))
<1> DEFINE keep == {i \in DOMAIN Spokes :
                      Spokes[i] \in failed => Usable(reports[Spokes[i]]) # <<>>}
           known == Filtered(Spokes, keep)
           resolved == Resolved(failed, reports)
<1>1. Spokes \in Seq(Spoke)
  BY KeeperAssumption
<1>2. \A i \in keep : Spokes[i] \in failed => Usable(reports[Spokes[i]]) # <<>>
  OBVIOUS
<1>7. resolved = [i \in DOMAIN known |->
              [spoke |-> known[i],
               value |-> IF known[i] \in failed THEN Usable(reports[known[i]])[1]
                                                ELSE vault[known[i]]]]
  BY DEF Resolved
<1> HIDE DEF keep
<1>3. /\ known \in Seq(Spoke)
      /\ \A j \in 1 .. Len(known) : \E i \in 1 .. Len(Spokes) : i \in keep /\ known[j] = Spokes[i]
  <2>1. known \in Seq(Spoke)
    BY <1>1, FilteredElements
  <2>2. \A j \in 1 .. Len(known) : \E i \in 1 .. Len(Spokes) : i \in keep /\ known[j] = Spokes[i]
    BY <1>1, FilteredElements
  <2> QED BY <2>1, <2>2
<1> HIDE DEF known, resolved
<1>4. ASSUME NEW s \in failed, Usable(reports[s]) # <<>>
      PROVE  Usable(reports[s])[1] # Sentinel
  <2>1. PICK n \in 0 .. PeerCount : reports[s] \in [1 .. n -> PeerValues]
    BY DEF PeerReports
  <2>2. reports[s] \in Seq(PeerValues) /\ PeerValues \subseteq Nat
    BY <2>1, KeeperAssumption, Bounds
  <2> DEFINE r == reports[s]
             usable == {i \in DOMAIN r : r[i] > Sentinel}
             u == Filtered(r, usable)
  <2>3. \A i \in usable : r[i] > Sentinel
    OBVIOUS
  <2> HIDE DEF usable
  <2>4. /\ u \in Seq(PeerValues)
        /\ \A j \in 1 .. Len(u) : \E i \in 1 .. Len(r) : i \in usable /\ u[j] = r[i]
    <3> HIDE DEF r
    <3>1. r \in Seq(PeerValues)
      BY <2>2 DEF r
    <3>2. u \in Seq(PeerValues)
      BY <3>1, FilteredElements
    <3>3. \A j \in 1 .. Len(u) : \E i \in 1 .. Len(r) : i \in usable /\ u[j] = r[i]
      BY <3>1, FilteredFrom
    <3> QED BY <3>2, <3>3
  <2>5. u = Usable(reports[s])
    BY DEF Usable, usable
  <2> HIDE DEF u, r
  <2>6. 1 \in 1 .. Len(u)
    BY <1>4, <2>4, <2>5
  <2>7. u[1] > Sentinel
    BY <2>3, <2>4, <2>6
  <2> QED BY <2>5, <2>7 DEF Sentinel
<1>5. ASSUME NEW j \in 1 .. Len(known)
      PROVE  resolved[j].value # Sentinel
  <2>1. known[j] \in Spoke
    BY <1>3
  <2>2. resolved[j].value =
          IF known[j] \in failed THEN Usable(reports[known[j]])[1] ELSE vault[known[j]]
    BY <1>3, <1>7
  <2>3. CASE known[j] \in failed
    BY <1>2, <1>3, <1>4, <2>2, <2>3
  <2>4. CASE known[j] \notin failed
    <3>1. vault[known[j]] \in Value
      BY <2>1 DEF TypeOK
    <3> QED BY <2>2, <2>4, <3>1
  <2> QED BY <2>3, <2>4
<1>6. Len(resolved) = Len(known)
  BY <1>3, <1>7
<1> QED BY <1>5, <1>6 DEF Clean, resolved

LEMMA NextNoPlaceholder ==
  ASSUME Typed, NoPlaceholder, [Next]_vars,
         Sentinel \notin Value, EarlyPushThreshold = 0 \/ Unreadable = {}
  PROVE  NoPlaceholder'
<1>0. /\ TypeOK /\ AtHand
      /\ sched \in SchedState /\ mon \in MonState
      /\ pool \in [Loop -> Tx \cup {None}]
      /\ sched.calls \in Seq(Call) /\ sched.left \in Seq(Call)
      /\ mon.todo \in Seq(Call)
  BY DEF Typed, TypeOK, SchedState, MonState
<1>1. /\ Clean(sched.calls) /\ Clean(sched.left) /\ Clean(mon.todo)
      /\ \A l \in Loop : pool[l] # None => Clean(pool[l].calls)
  BY DEF NoPlaceholder
<1>2. Clean(<<>>) /\ SchedStart.calls = <<>> /\ SchedStart.left = <<>> /\ MonStart.todo = <<>>
  BY DEF Clean, SchedStart, MonStart
<1> DEFINE SchedGood == Clean(sched'.calls) /\ Clean(sched'.left)
           MonGood == Clean(mon'.todo)
           PoolGood == \A l \in Loop : pool'[l] # None => Clean(pool'[l].calls)
<1>3. SUFFICES SchedGood /\ MonGood /\ PoolGood
  BY DEF NoPlaceholder, Clean
<1>4. UNCHANGED sched => SchedGood
  BY <1>1
<1>5. UNCHANGED mon => MonGood
  BY <1>1
<1>6. UNCHANGED pool => PoolGood
  BY <1>1
<1>7. ASSUME NEW l \in Loop, NEW tx \in Tx, Clean(tx.calls), pool' = [pool EXCEPT ![l] = tx]
      PROVE  PoolGood
  BY <1>0, <1>1, <1>7
<1>8. EndCycle => SchedGood
  BY <1>2 DEF EndCycle, SchedStart
<1> HIDE DEF PoolGood
<1>9. CASE SchedStep
  <2>0. MonGood
    BY <1>0, <1>5, <1>9, SchedType
  <2>1. CASE SchedBoot \/ SchedFinish \/ SchedWake
    <3>1. SchedGood
      BY <1>2, <1>8, <2>1 DEF SchedBoot, SchedFinish, SchedWake, SchedStart
    <3> QED BY <1>6, <2>0, <2>1, <3>1 DEF SchedBoot, SchedFinish, SchedWake
  <2>2. CASE SchedRead
    <3>1. PICK failed \in SUBSET Unreadable :
            \E reports \in [failed -> PeerReports] :
              sched' = [sched EXCEPT !.pc = "staleness", !.calls = Resolved(failed, reports)]
      BY <2>2 DEF SchedRead
    <3>2. PICK reports \in [failed -> PeerReports] :
            sched' = [sched EXCEPT !.pc = "staleness", !.calls = Resolved(failed, reports)]
      BY <3>1
    <3>3. failed \in SUBSET Spoke
      BY KeeperAssumption
    <3>4. Clean(Resolved(failed, reports))
      BY <1>0, <3>3, ResolvedClean
    <3>5. SchedGood
      BY <1>0, <1>1, <3>2, <3>4 DEF SchedState
    <3> QED BY <1>6, <2>0, <2>2, <3>5 DEF SchedRead
  <2>3. CASE SchedStaleness
    <3>1. SchedGood
      BY <1>0, <1>1, <1>8, <2>3 DEF SchedStaleness, SchedState
    <3> QED BY <1>6, <2>0, <2>3, <3>1 DEF SchedStaleness
  <2>4. CASE SchedSelect
    <3> DEFINE fresh == {i \in DOMAIN sched.calls : ~Fresh(sched.calls[i].spoke)}
               stale == Filtered(sched.calls, fresh)
               through == {i \in DOMAIN stale : DriftLetsThrough(stale[i])}
               passed == Filtered(stale, through)
    <3>1. stale \in Seq(Call) /\ Clean(stale)
      <4> HIDE DEF fresh
      <4> QED BY <1>0, <1>1, FilteredElements, CleanParts
    <3>2. Clean(passed)
      <4> HIDE DEF stale, through
      <4> QED BY <3>1, CleanParts
    <3>3. EndCycle \/ sched' = [sched EXCEPT
                                  !.pc = IF Len(passed) > 1 THEN "batch" ELSE "individual",
                                  !.calls = passed,
                                  !.left = passed]
      BY <2>4 DEF SchedSelect
    <3> HIDE DEF passed
    <3>4. SchedGood
      BY <1>0, <1>8, <3>2, <3>3 DEF SchedState
    <3> QED BY <1>6, <2>0, <2>4, <3>4 DEF SchedSelect
  <2>5. CASE SchedBatch
    <3> DEFINE tx == [direct |-> FALSE, calls |-> sched.calls]
    <3>1. tx \in Tx /\ Clean(tx.calls)
      BY <1>0, <1>1 DEF Tx
    <3>2. \/ pool' = [pool EXCEPT !["sched"] = tx] /\ sched' = [sched EXCEPT !.pc = "batchReceipt"]
          \/ UNCHANGED pool /\ sched' = [sched EXCEPT !.pc = "individual"]
      BY <2>5 DEF SchedBatch
    <3> HIDE DEF tx
    <3>3. SchedGood
      BY <1>0, <1>1, <3>2 DEF SchedState
    <3>4. PoolGood
      BY <1>6, <1>7, <3>1, <3>2 DEF Loop
    <3> QED BY <2>0, <3>3, <3>4
  <2>6. CASE SchedBatchReceipt
    <3>1. SchedGood
      BY <1>0, <1>1, <1>8, <2>6 DEF SchedBatchReceipt, SchedState
    <3> QED BY <1>6, <2>0, <2>6, <3>1 DEF SchedBatchReceipt
  <2>7. CASE SchedIndividual
    <3> DEFINE tx == [direct |-> TRUE, calls |-> <<Head(sched.left)>>]
    <3>1. sched.left # <<>>
      BY <2>7 DEF SchedIndividual
    <3>2. Clean(Tail(sched.left)) /\ Clean(<<Head(sched.left)>>)
      BY <1>0, <1>1, <3>1, CleanParts
    <3>3. tx \in Tx /\ Clean(tx.calls)
      BY <1>0, <3>1, <3>2 DEF Tx
    <3>4. \/ pool' = [pool EXCEPT !["sched"] = tx] /\ sched' = [sched EXCEPT !.pc = "receipt"]
          \/ UNCHANGED pool /\ sched' = [sched EXCEPT !.left = Tail(@)]
      BY <2>7 DEF SchedIndividual
    <3> HIDE DEF tx
    <3>5. SchedGood
      BY <1>0, <1>1, <3>2, <3>4 DEF SchedState
    <3>6. PoolGood
      BY <1>6, <1>7, <3>3, <3>4 DEF Loop
    <3> QED BY <2>0, <3>5, <3>6
  <2>8. CASE SchedReceipt
    <3>1. Clean(Tail(sched.left))
      BY <1>0, <1>1, <2>8, CleanParts DEF SchedReceipt, AtHand
    <3>2. SchedGood
      BY <1>0, <1>1, <2>8, <3>1 DEF SchedReceipt, SchedState
    <3> QED BY <1>6, <2>0, <2>8, <3>2 DEF SchedReceipt
  <2> QED BY <1>9, <2>1, <2>2, <2>3, <2>4, <2>5, <2>6, <2>7, <2>8 DEF SchedStep
<1>10. CASE MonStep
  <2>0. SchedGood
    BY <1>0, <1>4, <1>10, MonType
  <2>1. mon.todo # <<>> => Clean(NextSpoke.todo)
    <3>1. mon.todo # <<>> => Clean(Tail(mon.todo))
      BY <1>0, <1>1, CleanParts
    <3> QED BY <1>2, <3>1 DEF NextSpoke, MonStart
  <2>2. CASE MonRead
    <3>1. Unreadable = {}
      BY <2>2 DEF MonRead
    <3>2. mon' = [MonStart EXCEPT !.pc = "decide", !.todo = Readings({})]
      BY <2>2, <3>1 DEF MonRead
    <3>3. mon'.todo = Readings({})
      BY <3>2 DEF MonStart
    <3>4. Clean(Readings({}))
      <4>1. Spokes \in Seq(Spoke)
        BY KeeperAssumption
      <4>2. \A i \in 1 .. Len(Spokes) : Spokes[i] \in Spoke
        BY <4>1
      <4>3. \A i \in 1 .. Len(Spokes) : Readings({})[i].value = vault[Spokes[i]]
        BY <4>1 DEF Readings
      <4>4. Len(Readings({})) = Len(Spokes)
        BY <4>1 DEF Readings
      <4>5. vault \in [Spoke -> Value]
        BY <1>0 DEF TypeOK
      <4> QED BY <4>2, <4>3, <4>4, <4>5 DEF Clean
    <3> QED BY <1>6, <2>0, <2>2, <3>3, <3>4 DEF MonRead
  <2>3. ASSUME ~MonRead
        PROVE  /\ mon.todo # <<>>
               /\ mon'.todo = mon.todo \/ mon' = NextSpoke
    <3>1. mon.todo # <<>>
      BY <1>0, <1>10, <2>3
      DEF AtHand, MonAtHand, MonStep, MonDecide, MonRemove, MonReset, MonRestore, MonSend, MonReceipt
    <3> DEFINE Kept == mon'.todo = mon.todo \/ mon' = NextSpoke
    <3>a. \A pc : mon' = [mon EXCEPT !.pc = pc] => Kept
      BY <1>0 DEF MonState
    <3>b. \A c, p : EndWarning(c, p) => Kept
      BY <1>0 DEF EndWarning, MonState
    <3>c. mon' = AfterWarning => Kept
      BY <3>a DEF AfterWarning
    <3>d. mon' = NextSpoke => Kept
      OBVIOUS
    <3> HIDE DEF Kept
    <3>2. CASE MonDecide
      <4>1. \A c : DecideUnmoved(c) => Kept
        BY <3>b, <3>d DEF DecideUnmoved
      <4>2. \A c : DecideBridged(c) => Kept
        BY <3>a, <3>b DEF DecideBridged
      <4>3. \A c : DecideMoved(c) => Kept
        BY <3>a, <3>d DEF DecideMoved
      <4> QED BY <3>1, <3>2, <4>1, <4>2, <4>3 DEF MonDecide, Kept
    <3>3. CASE MonRemove \/ MonReset \/ MonRestore \/ MonSend \/ MonReceipt
      BY <3>1, <3>3, <3>a, <3>c, <3>d DEF MonRemove, MonReset, MonRestore, MonSend, MonReceipt, Kept
    <3> QED BY <1>10, <2>3, <3>1, <3>2, <3>3 DEF MonStep
  <2>4. CASE ~MonRead
    <3>1. MonGood
      BY <1>1, <2>1, <2>3, <2>4
    <3>2. PoolGood
      <4>1. CASE UNCHANGED pool
        BY <1>6, <4>1
      <4>2. CASE MonSend
        <5> DEFINE tx == [direct |-> TRUE, calls |-> <<Head(mon.todo)>>]
        <5>1. Clean(<<Head(mon.todo)>>)
          BY <1>0, <1>1, <2>3, <2>4, CleanParts
        <5>2. tx \in Tx /\ Clean(tx.calls)
          BY <1>0, <2>3, <2>4, <5>1 DEF Tx
        <5>3. UNCHANGED pool \/ pool' = [pool EXCEPT !["mon"] = tx]
          BY <4>2 DEF MonSend
        <5> HIDE DEF tx
        <5> QED BY <1>6, <1>7, <5>2, <5>3 DEF Loop
      <4> QED
        BY <1>10, <4>1, <4>2 DEF MonStep, MonRead, MonDecide, MonRemove, MonReset, MonRestore, MonReceipt
    <3> QED BY <2>0, <3>1, <3>2
  <2> QED BY <2>2, <2>4
<1>11. CASE RequestStep
  BY <1>0, <1>4, <1>5, <1>6, <1>11, RequestType
<1>12. ASSUME NEW l \in Loop, Mine(l)
       PROVE  SchedGood /\ MonGood /\ PoolGood
  <2>1. pool' = [pool EXCEPT ![l] = None]
    BY <1>12 DEF Mine
  <2>2. PoolGood
    BY <1>0, <1>1, <2>1 DEF PoolGood
  <2> QED BY <1>4, <1>5, <1>12, <2>2 DEF Mine
<1>13. CASE Restart
  <2>1. SchedGood /\ MonGood
    BY <1>2, <1>13 DEF Restart, Booting, SchedStart, MonStart
  <2> QED BY <1>6, <1>13, <2>1 DEF Restart
<1>14. CASE Tick
  <2>1. SchedGood
    BY <1>0, <1>1, <1>14 DEF Tick, SchedState
  <2> QED BY <1>5, <1>6, <1>14, <2>1 DEF Tick
<1>15. CASE UNCHANGED <<sched, mon, pool>>
  BY <1>4, <1>5, <1>6, <1>15
<1> QED
  BY <1>9, <1>10, <1>11, <1>12, <1>13, <1>14, <1>15
  DEF Next, vars, RequestStep, VaultMoves, OtherKeeperPushes, PostUpdate, PeerLooksStale

(* A vault that could not be read is skipped: as long as it is the          *)
(* scheduled loop that meets such vaults, no transaction of the keeper ever *)
(* carries the placeholder, whatever the peers report and whatever was in   *)
(* flight when the keeper restarted.                                        *)
THEOREM PlaceholderStaysInside ==
  ASSUME Sentinel \notin Value, EarlyPushThreshold = 0 \/ Unreadable = {}
  PROVE  Spec => []FailedReadingNotPushed
<1>1. Init => NoPlaceholder
  BY DEF Init, NoPlaceholder, Clean, Booting, SchedStart, MonStart
<1>2. Typed /\ NoPlaceholder /\ [Next]_vars => NoPlaceholder'
  BY NextNoPlaceholder
<1>3. Typed /\ NoPlaceholder => FailedReadingNotPushed
  <2> SUFFICES ASSUME Typed, NoPlaceholder, NEW l \in Loop, pool[l] # None,
                      NEW c \in Range(pool[l].calls)
               PROVE  c.value # Sentinel
    BY DEF FailedReadingNotPushed
  <2>1. pool[l].calls \in Seq(Call)
    BY DEF Typed, TypeOK, Tx
  <2>2. PICK i \in 1 .. Len(pool[l].calls) : c = pool[l].calls[i]
    BY <2>1 DEF Range
  <2> QED BY <2>2 DEF NoPlaceholder, Clean
<1> QED BY <1>1, <1>2, <1>3, TypedAlways, PTL DEF Spec

-----------------------------------------------------------------------------
(* What was pushed last will have left the skip window when the loop's      *)
(* sleep is over.                                                           *)
Rest == IF sched.pc = "sleep" THEN sched.timer ELSE 0

WindowOver ==
  /\ env.posts = 0 /\ ~env.peersFail /\ notified = FALSE
  /\ mon.pc = "sleep"
  /\ \A s \in Spoke : lastPushed[s] # None =>
       sched.pc # "boot" /\ lastPushed[s].age + Rest >= SkipIfFresh
  /\ sched.pc = "select" => sched.calls # <<>>

LEMMA NothingPushed ==
  ASSUME TypeOK
  PROVE  Pushed(<<>>) = lastPushed
<1>1. \A s \in Spoke : Pushed(<<>>)[s] = lastPushed[s]
  BY DEF Pushed, Range
<1> QED BY <1>1 DEF Pushed, TypeOK

LEMMA NextWindowOver ==
  ASSUME Typed, WindowOver, [Next]_vars, EarlyPushThreshold = 0,
         UpdateInterval >= SkipIfFresh
  PROVE  WindowOver'
<1>0. /\ TypeOK /\ AtHand /\ sched \in SchedState
      /\ lastPushed \in [Spoke -> PushRecord \cup {None}]
      /\ sched.timer \in 0 .. UpdateInterval
  BY DEF Typed, TypeOK, PushRecord, SchedState
<1>1. /\ mon.pc = "sleep" /\ notified = FALSE /\ env.posts = 0 /\ ~env.peersFail
      /\ \A s \in Spoke : lastPushed[s] # None =>
           sched.pc # "boot" /\ lastPushed[s].age + Rest >= SkipIfFresh
      /\ sched.pc = "select" => sched.calls # <<>>
  BY DEF WindowOver
<1>2. /\ SkipIfFresh \in Nat /\ UpdateInterval \in Nat /\ Rest \in Nat
      /\ \A s \in Spoke : lastPushed[s] # None =>
           lastPushed[s].age \in Nat /\ lastPushed[s].age <= SkipIfFresh
  <2>1. \A s \in Spoke : lastPushed[s] # None => lastPushed[s].age \in 0 .. SkipIfFresh
    BY <1>0 DEF PushRecord
  <2>2. SkipIfFresh \in Nat /\ UpdateInterval \in Nat
    BY Bounds
  <2> QED BY <1>0, <2>1, <2>2 DEF Rest
<1>3. ~MonStep
  BY <1>1 DEF MonStep, MonRead, MonDecide, MonRemove, MonReset, MonRestore, MonSend, MonReceipt
<1>4. env'.posts = 0 /\ ~env'.peersFail
  <2>1. env' \in Environment /\ env'.posts <= env.posts /\ env'.peersFail = env.peersFail
    BY <1>0, SurroundingsStay
  <2> QED BY <1>1, <2>1 DEF Environment
<1>5. mon'.pc = "sleep" /\ notified' = FALSE
  <2>1. SchedStep => UNCHANGED mon /\ notified' = FALSE
    BY <1>1
    DEF SchedStep, SchedBoot, SchedRead, SchedStaleness, SchedSelect, SchedBatch,
        SchedBatchReceipt, SchedIndividual, SchedReceipt, SchedFinish, SchedWake
  <2>2. RequestStep => UNCHANGED <<mon, notified>>
    BY <1>0, RequestType
  <2>3. Restart => mon'.pc = "sleep" /\ notified' = FALSE
    BY DEF Restart, MonStart
  <2>4. ~PostUpdate /\ ~PeerLooksStale
    BY <1>1 DEF PostUpdate, PeerLooksStale
  <2> QED
    BY <1>1, <1>3, <2>1, <2>2, <2>3, <2>4
    DEF Next, vars, RequestStep, Mine, VaultMoves, OtherKeeperPushes, Tick
<1> DEFINE Over == \A s \in Spoke : lastPushed'[s] # None =>
                     sched'.pc # "boot" /\ lastPushed'[s].age + Rest' >= SkipIfFresh
           Work == sched'.pc = "select" => sched'.calls # <<>>
<1>6. SUFFICES Over /\ Work
  BY <1>4, <1>5 DEF WindowOver
<1>7. ASSUME EndCycle, lastPushed' \in [Spoke -> PushRecord \cup {None}]
      PROVE  Over /\ Work
  <2>1. sched'.pc = "sleep" /\ Rest' = UpdateInterval
    BY <1>7 DEF EndCycle, SchedStart, Rest
  <2>2. \A s \in Spoke : lastPushed'[s] # None => lastPushed'[s].age \in Nat
    BY <1>7 DEF PushRecord
  <2> QED BY <1>2, <2>1, <2>2
<1>8. ASSUME UNCHANGED lastPushed, sched.pc # "boot" => Rest = 0, sched'.pc # "boot",
             sched'.pc # "sleep", Work
      PROVE  Over /\ Work
  BY <1>1, <1>2, <1>8 DEF Rest
<1>9. CASE UNCHANGED <<sched, lastPushed>>
  BY <1>1, <1>9 DEF Rest
<1>10. CASE SchedStep
  <2>0. lastPushed' \in [Spoke -> PushRecord \cup {None}]
    BY <1>0, <1>10, SchedType
  <2>e. EndCycle => Over /\ Work
    BY <1>7, <2>0
  <2>1. CASE SchedBoot
    <3>1. sched'.pc = "read"
      BY <2>1 DEF SchedBoot, SchedStart
    <3>2. UNCHANGED lastPushed /\ sched.pc = "boot"
      BY <2>1 DEF SchedBoot
    <3> QED BY <1>8, <3>1, <3>2
  <2>2. CASE SchedRead
    <3>1. sched'.pc = "staleness" /\ UNCHANGED lastPushed /\ Rest = 0
      BY <1>0, <2>2 DEF SchedRead, SchedState, Rest
    <3> QED BY <1>8, <3>1
  <2>3. CASE SchedStaleness
    <3>1. \/ EndCycle
          \/ sched.calls # <<>> /\ sched' = [sched EXCEPT !.pc = "select"]
      BY <2>3 DEF SchedStaleness
    <3>2. UNCHANGED lastPushed /\ Rest = 0
      BY <2>3 DEF SchedStaleness, Rest
    <3>3. sched' = [sched EXCEPT !.pc = "select"] =>
            sched'.pc = "select" /\ sched'.calls = sched.calls
      BY <1>0 DEF SchedState
    <3> QED BY <1>8, <2>e, <3>1, <3>2, <3>3
  <2>4. CASE SchedSelect
    <3>1. EndCycle \/ sched'.pc \in {"batch", "individual"}
      BY <1>0 , <2>4 DEF SchedSelect, SchedState
    <3>2. UNCHANGED lastPushed /\ Rest = 0
      BY <2>4 DEF SchedSelect, Rest
    <3> QED BY <1>8, <2>e, <3>1, <3>2
  <2>5. CASE SchedBatch
    <3>1. sched'.pc \in {"batchReceipt", "individual"} /\ UNCHANGED lastPushed /\ Rest = 0
      BY <1>0, <2>5 DEF SchedBatch, SchedState, Rest
    <3> QED BY <1>8, <3>1
  <2>6. CASE SchedBatchReceipt
    <3>1. \/ EndCycle
          \/ UNCHANGED lastPushed /\ sched'.pc = "individual" /\ Rest = 0
      BY <1>0, <2>6 DEF SchedBatchReceipt, SchedState, Rest
    <3> QED BY <1>8, <2>e, <3>1
  <2>7. CASE SchedIndividual
    <3>1. sched'.pc \in {"receipt", "individual"} /\ UNCHANGED lastPushed /\ Rest = 0
      BY <1>0, <2>7 DEF SchedIndividual, SchedState, Rest
    <3> QED BY <1>8, <3>1
  <2>8. CASE SchedReceipt
    <3>1. sched'.pc = "individual" /\ UNCHANGED lastPushed /\ Rest = 0
      BY <1>0, <2>8 DEF SchedReceipt, SchedState, Rest
    <3> QED BY <1>8, <3>1
  <2>9. CASE SchedFinish
    <3>1. \/ EndCycle
          \/ sched.succeeded = <<>> /\ sched' = [SchedStart EXCEPT !.attempt = sched.attempt + 1]
      BY <2>9 DEF SchedFinish
    <3>2. CASE sched.succeeded = <<>> /\ sched' = [SchedStart EXCEPT !.attempt = sched.attempt + 1]
      <4>1. UNCHANGED lastPushed
        BY <1>0, <2>9, <3>2, NothingPushed DEF SchedFinish
      <4>2. sched'.pc = "read" /\ Rest = 0
        BY <2>9, <3>2 DEF SchedFinish, SchedStart, Rest
      <4> QED BY <1>8, <4>1, <4>2
    <3> QED BY <2>e, <3>1, <3>2
  <2>10. CASE SchedWake
    <3>1. sched'.pc = "read"
      BY <2>10 DEF SchedWake, SchedStart
    <3>2. UNCHANGED lastPushed /\ Rest = 0
      BY <1>1, <2>10 DEF SchedWake, Rest
    <3> QED BY <1>8, <3>1, <3>2
  <2> QED
    BY <1>10, <2>1, <2>2, <2>3, <2>4, <2>5, <2>6, <2>7, <2>8, <2>9, <2>10 DEF SchedStep
<1>11. CASE Restart
  <2>1. \A s \in Spoke : lastPushed'[s] = None
    BY <1>11 DEF Restart
  <2>2. sched'.pc = "boot"
    BY <1>11 DEF Restart, Booting, SchedStart
  <2> QED BY <2>1, <2>2
<1>12. CASE Tick
  <2>1. /\ sched'.pc = sched.pc /\ sched'.timer = sched.timer - 1
        /\ sched.pc \in {"boot", "sleep"}
    BY <1>0, <1>12 DEF Tick, Quiet, SchedState
  <2>2. ASSUME NEW s \in Spoke, lastPushed'[s] # None
        PROVE  sched'.pc # "boot" /\ lastPushed'[s].age + Rest' >= SkipIfFresh
    <3>1. /\ lastPushed[s] # None
          /\ lastPushed'[s] = [lastPushed[s] EXCEPT !.age = Older(@, SkipIfFresh)]
      BY <1>12, <2>2 DEF Tick, AgedEntry
    <3>2. /\ lastPushed[s].age \in Nat /\ lastPushed[s].age <= SkipIfFresh
          /\ lastPushed[s].age + Rest >= SkipIfFresh /\ sched.pc # "boot"
      BY <1>1, <1>2, <3>1
    <3>3. lastPushed'[s].age = Older(lastPushed[s].age, SkipIfFresh)
      BY <1>0, <3>1 DEF PushRecord
    <3>4. Rest = sched.timer /\ Rest' = sched.timer - 1
      BY <2>1, <3>2 DEF Rest
    <3>5. sched.timer \in Nat /\ SkipIfFresh \in Nat
      BY <1>0, <1>2
    <3>6. lastPushed[s].age + sched.timer >= SkipIfFresh
      BY <3>2, <3>4
    <3>7. lastPushed'[s].age \in {lastPushed[s].age + 1, SkipIfFresh}
      BY <3>3 DEF Older
    <3>8. lastPushed'[s].age + (sched.timer - 1) >= SkipIfFresh
      <4>1. sched.timer >= 1
        BY <1>12, <3>5 DEF Tick
      <4> QED BY <3>2, <3>5, <3>6, <3>7, <4>1
    <3>9. lastPushed'[s].age + Rest' >= SkipIfFresh
      BY <3>4, <3>8
    <3> QED BY <2>1, <3>2, <3>9
  <2> QED BY <2>1, <2>2
<1>13. RequestStep => UNCHANGED <<sched, lastPushed>>
  BY <1>0, RequestType
<1> QED
  BY <1>3, <1>9, <1>10, <1>11, <1>12, <1>13
  DEF Next, vars, RequestStep, Mine, VaultMoves, OtherKeeperPushes, PostUpdate, PeerLooksStale

(* With an interval no shorter than the skip window, and nobody to wake the *)
(* loop in between, no cycle that gets past the staleness check finds all   *)
(* of its spokes still fresh from its own last push, so that it would sleep *)
(* for another interval.                                                    *)
THEOREM WokenWithWork ==
  ASSUME UpdateInterval >= SkipIfFresh,
         \A e \in Environments : e.posts = 0 /\ ~e.peersFail
  PROVE  Spec => []CycleHasWork
<1> DEFINE Inv == EarlyPushThreshold = 0 => WindowOver
<1>1. Init => Inv
  BY KeeperAssumption DEF Init, WindowOver, MonStart, Booting, SchedStart
<1>2. Typed /\ Inv /\ [Next]_vars => Inv'
  BY NextWindowOver
<1>3. Typed /\ Inv => CycleHasWork
  <2> SUFFICES ASSUME Typed, WindowOver, sched.pc = "select"
               PROVE  \E c \in Range(sched.calls) : ~Fresh(c.spoke)
    BY DEF CycleHasWork
  <2> DEFINE c == sched.calls[1]
  <2>1. sched.calls \in Seq(Call) /\ sched.calls # <<>>
    BY DEF Typed, TypeOK, SchedState, WindowOver
  <2>2. c \in Range(sched.calls) /\ c \in Call
    BY <2>1 DEF Range
  <2>3. c.spoke \in Spoke /\ Rest = 0
    BY <2>2 DEF Call, Rest
  <2>4. lastPushed[c.spoke] # None => lastPushed[c.spoke].age \in 0 .. SkipIfFresh
    BY <2>3 DEF Typed, TypeOK, PushRecord
  <2>5. lastPushed[c.spoke] # None => lastPushed[c.spoke].age + 0 >= SkipIfFresh
    BY <2>3 DEF WindowOver
  <2>6. ~Fresh(c.spoke)
    BY <2>4, <2>5, Bounds DEF Fresh
  <2> QED BY <2>2, <2>6
<1> QED BY <1>1, <1>2, <1>3, TypedAlways, PTL DEF Spec

-----------------------------------------------------------------------------
(* The scheduled loop alone, without a monitor loop.                        *)

LEMMA HeadAndTail ==
  ASSUME NEW A, NEW s \in Seq(A), s # <<>>
  PROVE  /\ Len(s) \in Nat /\ Len(s) >= 1
         /\ Head(s) = s[1] /\ Head(s) \in A
         /\ Tail(s) \in Seq(A) /\ Len(Tail(s)) = Len(s) - 1
         /\ \A i \in 1 .. Len(s) - 1 : Tail(s)[i] = s[i + 1]
OBVIOUS

(* No spoke twice. *)
Distinct(calls) == \A i, j \in 1 .. Len(calls) : i < j => calls[i].spoke # calls[j].spoke

LEMMA DistinctCalls ==
  ASSUME NEW calls \in Seq(Call), Distinct(calls),
         NEW i \in 1 .. Len(calls), NEW j \in 1 .. Len(calls),
         calls[i].spoke = calls[j].spoke
  PROVE  i = j
BY DEF Distinct

LEMMA FilteredDistinct ==
  ASSUME NEW calls \in Seq(Call), Distinct(calls), NEW keep
  PROVE  Distinct(Filtered(calls, keep))
<1> DEFINE related == {p \in Call \X Call : p[1].spoke # p[2].spoke}
           k == Filtered(calls, keep)
<1>1. \A i, j \in 1 .. Len(calls) : i < j => <<calls[i], calls[j]>> \in related
  BY DEF Distinct
<1>2. \A i, j \in 1 .. Len(k) : i < j => <<k[i], k[j]>> \in related
  <2> HIDE DEF related
  <2> QED BY <1>1, FilteredOrder
<1> QED BY <1>2 DEF Distinct

LEMMA ResolvedDistinct ==
  ASSUME NEW failed, NEW reports
  PROVE  Distinct(Resolved(failed, reports))
<1> DEFINE keep == {i \in DOMAIN Spokes :
                      Spokes[i] \in failed => Usable(reports[Spokes[i]]) # <<>>}
           known == Filtered(Spokes, keep)
           resolved == Resolved(failed, reports)
           related == {p \in Spoke \X Spoke : p[1] # p[2]}
<1>1. Spokes \in Seq(Spoke) /\ IsInjective(Spokes)
  BY KeeperAssumption
<1>2. \A i, j \in 1 .. Len(Spokes) : i < j => <<Spokes[i], Spokes[j]>> \in related
  <2>1. \A i \in 1 .. Len(Spokes) : Spokes[i] \in Spoke
    BY <1>1
  <2> QED BY <1>1, <2>1 DEF IsInjective
<1>0. resolved = [i \in DOMAIN known |->
                    [spoke |-> known[i],
                     value |-> IF known[i] \in failed THEN Usable(reports[known[i]])[1]
                                                      ELSE vault[known[i]]]]
  BY DEF Resolved
<1> HIDE DEF keep
<1>3. known \in Seq(Spoke)
  BY <1>1, FilteredElements
<1>4. \A i, j \in 1 .. Len(known) : i < j => <<known[i], known[j]>> \in related
  <2> HIDE DEF related
  <2> QED BY <1>1, <1>2, FilteredOrder
<1> HIDE DEF known, resolved
<1>5. Len(resolved) = Len(known)
  BY <1>0, <1>3
<1>6. ASSUME NEW i \in 1 .. Len(known)
      PROVE  resolved[i].spoke = known[i]
  BY <1>0, <1>3
<1>7. \A i, j \in 1 .. Len(known) : i < j => known[i] # known[j]
  BY <1>4
<1> QED BY <1>5, <1>6, <1>7 DEF Distinct, resolved

(* The calls a cycle has dealt with, whether they succeeded or not, are     *)
(* those before the ones that are left.                                     *)
Dealt(x) == Len(x.calls) - Len(x.left)

Progressing(x) ==
  /\ Len(x.left) <= Len(x.calls)
  /\ \A i \in 1 .. Len(x.left) : x.left[i] = x.calls[Dealt(x) + i]
  /\ \A j \in 1 .. Len(x.succeeded) : \E i \in 1 .. Dealt(x) : x.succeeded[j] = x.calls[i]

Scheduling(x) ==
  /\ Distinct(x.calls)
  /\ x.pc \in {"batch", "batchReceipt", "individual", "receipt"} => Progressing(x)
  /\ x.pc \in {"batch", "batchReceipt"} => x.left = x.calls
  /\ x.pc \in {"boot", "read", "staleness", "select"} => x.succeeded = <<>>

LEMMA SchedScheduling ==
  ASSUME Typed, Scheduling(sched), SchedStep
  PROVE  Scheduling(sched')
<1>0. /\ TypeOK /\ AtHand /\ sched \in SchedState
      /\ sched.calls \in Seq(Call) /\ sched.left \in Seq(Call) /\ sched.succeeded \in Seq(Call)
  BY DEF Typed, TypeOK, SchedState
<1>1. Distinct(<<>>)
  BY DEF Distinct
<1>2. \A x : x.calls = <<>> /\ x.succeeded = <<>> /\ x.pc \in {"boot", "read", "sleep"}
          => Scheduling(x)
  BY <1>1 DEF Scheduling
<1>3. EndCycle => Scheduling(sched')
  BY <1>2 DEF EndCycle, SchedStart
<1>4. CASE SchedBoot \/ SchedFinish \/ SchedWake
  BY <1>2, <1>3, <1>4 DEF SchedBoot, SchedFinish, SchedWake, SchedStart
<1>5. CASE SchedRead
  <2>1. PICK failed \in SUBSET Unreadable :
          \E reports \in [failed -> PeerReports] :
            sched' = [sched EXCEPT !.pc = "staleness", !.calls = Resolved(failed, reports)]
    BY <1>5 DEF SchedRead
  <2>2. PICK reports \in [failed -> PeerReports] :
          sched' = [sched EXCEPT !.pc = "staleness", !.calls = Resolved(failed, reports)]
    BY <2>1
  <2>3. Distinct(Resolved(failed, reports))
    BY ResolvedDistinct
  <2>4. sched.succeeded = <<>>
    BY <1>5 DEF SchedRead, Scheduling
  <2> QED BY <1>0, <2>2, <2>3, <2>4 DEF Scheduling, SchedState
<1>6. CASE SchedStaleness
  <2>1. CASE sched' = [sched EXCEPT !.pc = "select"]
    BY <1>0, <1>6, <2>1 DEF SchedStaleness, Scheduling, SchedState
  <2> QED BY <1>3, <1>6, <2>1 DEF SchedStaleness
<1>7. CASE SchedSelect
  <2> DEFINE fresh == {i \in DOMAIN sched.calls : ~Fresh(sched.calls[i].spoke)}
             stale == Filtered(sched.calls, fresh)
             through == {i \in DOMAIN stale : DriftLetsThrough(stale[i])}
             passed == Filtered(stale, through)
  <2>1. stale \in Seq(Call) /\ Distinct(stale)
    <3> HIDE DEF fresh
    <3> QED BY <1>0, FilteredElements, FilteredDistinct DEF Scheduling
  <2>2. passed \in Seq(Call) /\ Distinct(passed)
    <3> HIDE DEF stale, through
    <3> QED BY <2>1, FilteredElements, FilteredDistinct
  <2>3. EndCycle \/ sched' = [sched EXCEPT
                                !.pc = IF Len(passed) > 1 THEN "batch" ELSE "individual",
                                !.calls = passed,
                                !.left = passed]
    BY <1>7 DEF SchedSelect
  <2>4. sched.succeeded = <<>>
    BY <1>7 DEF SchedSelect, Scheduling
  <2> HIDE DEF passed
  <2>5. CASE sched' = [sched EXCEPT !.pc = IF Len(passed) > 1 THEN "batch" ELSE "individual",
                                    !.calls = passed,
                                    !.left = passed]
    <3>1. /\ sched'.calls = passed /\ sched'.left = passed /\ sched'.succeeded = <<>>
          /\ sched'.pc \in {"batch", "individual"}
      BY <1>0, <2>4, <2>5 DEF SchedState
    <3>2. Len(passed) \in Nat
      BY <2>2
    <3>3. Progressing(sched')
      BY <2>2, <3>1, <3>2 DEF Progressing, Dealt
    <3> QED BY <2>2, <3>1, <3>3 DEF Scheduling
  <2> QED BY <1>3, <2>3, <2>5
<1>8. CASE SchedBatch
  <2>1. /\ sched'.calls = sched.calls /\ sched'.left = sched.left
        /\ sched'.succeeded = sched.succeeded
        /\ sched'.pc \in {"batchReceipt", "individual"}
    BY <1>0, <1>8 DEF SchedBatch, SchedState
  <2>2. Progressing(sched) /\ sched.left = sched.calls
    BY <1>8 DEF SchedBatch, Scheduling
  <2> QED BY <2>1, <2>2 DEF Scheduling, Progressing, Dealt
<1>9. CASE SchedBatchReceipt
  <2>1. CASE sched' = [sched EXCEPT !.pc = "individual"]
    <3>1. Progressing(sched)
      BY <1>9 DEF SchedBatchReceipt, Scheduling
    <3> QED BY <1>0, <2>1, <3>1 DEF Scheduling, Progressing, Dealt, SchedState
  <2> QED BY <1>3, <1>9, <2>1 DEF SchedBatchReceipt
<1>10. ASSUME sched.left # <<>>, sched.pc \in {"individual", "receipt"},
              sched'.pc \in {"individual", "receipt"},
              sched'.calls = sched.calls,
              \/ sched'.left = sched.left /\ sched'.succeeded = sched.succeeded
              \/ /\ sched'.left = Tail(sched.left)
                 /\ sched'.succeeded \in {sched.succeeded, Append(sched.succeeded, Head(sched.left))}
       PROVE  Scheduling(sched')
  <2>0. Progressing(sched) /\ Distinct(sched.calls)
    BY <1>10 DEF Scheduling
  <2> DEFINE l == sched.left  c == sched.calls  u == sched.succeeded  h == Head(l)  t == Tail(l)
             v == Append(u, h)
  <2>1. /\ Len(l) \in Nat /\ Len(l) >= 1 /\ h = l[1] /\ t \in Seq(Call)
        /\ Len(t) = Len(l) - 1
        /\ \A i \in 1 .. Len(l) - 1 : t[i] = l[i + 1]
    BY <1>0, <1>10, HeadAndTail
  <2>2. Len(c) \in Nat
    BY <1>0
  <2>3. /\ Len(l) <= Len(c)
        /\ \A i \in 1 .. Len(l) : l[i] = c[Len(c) - Len(l) + i]
        /\ \A j \in 1 .. Len(u) : \E i \in 1 .. Len(c) - Len(l) : u[j] = c[i]
    BY <2>0 DEF Progressing, Dealt
  <2>4. CASE sched'.left = sched.left /\ sched'.succeeded = sched.succeeded
    <3>1. Progressing(sched')
      BY <1>10, <2>0, <2>4, ZenonT(60) DEF Progressing, Dealt
    <3>2. sched'.pc \notin {"batch", "batchReceipt", "boot", "read", "staleness", "select"}
      BY <1>10
    <3> QED BY <1>10, <2>0, <3>1, <3>2 DEF Scheduling
  <2>5. h \in Call /\ u \in Seq(Call)
    BY <1>0, <1>10, HeadAndTail
  <2> HIDE DEF h, t, l, c, u
  <2>6. ASSUME NEW i \in 1 .. Len(t)
        PROVE  t[i] = c[Len(c) - Len(t) + i]
    <3>1. t[i] = l[i + 1] /\ i + 1 \in 1 .. Len(l)
      BY <2>1
    <3>2. l[i + 1] = c[Len(c) - Len(l) + (i + 1)]
      BY <2>3, <3>1
    <3>3. Len(c) - Len(l) + (i + 1) = Len(c) - Len(t) + i
      BY <2>1, <2>2
    <3> QED BY <3>1, <3>2, <3>3
  <2>7. \A j \in 1 .. Len(u) : \E i \in 1 .. Len(c) - Len(t) : u[j] = c[i]
    <3>1. \A i \in 1 .. Len(c) - Len(l) : i \in 1 .. Len(c) - Len(t)
      BY <2>1, <2>2
    <3> QED BY <2>3, <3>1
  <2>8. \A j \in 1 .. Len(v) : \E i \in 1 .. Len(c) - Len(t) : v[j] = c[i]
    <3> SUFFICES ASSUME NEW j \in 1 .. Len(v)
                 PROVE  \E i \in 1 .. Len(c) - Len(t) : v[j] = c[i]
      OBVIOUS
    <3>1. CASE j \in 1 .. Len(u)
      <4>1. v[j] = u[j]
        BY <2>5, <3>1
      <4> QED BY <2>7, <3>1, <4>1
    <3>2. CASE j = Len(u) + 1
      <4>1. v[j] = h
        BY <2>5, <3>2
      <4>2. l[1] = c[Len(c) - Len(l) + 1]
        BY <2>1, <2>3
      <4>3. Len(c) - Len(l) + 1 \in 1 .. Len(c) - Len(t)
        BY <2>1, <2>2, <2>3
      <4> QED BY <2>1, <4>1, <4>2, <4>3
    <3> QED BY <2>5, <3>1, <3>2
  <2> HIDE DEF v
  <2>9. CASE sched'.left = t /\ sched'.succeeded \in {u, v}
    <3>1. Len(t) <= Len(c)
      BY <2>1, <2>2, <2>3
    <3>2. sched'.calls = c
      BY <1>10 DEF c
    <3>3. Progressing(sched')
      <4>1. CASE sched'.succeeded = u
        BY <2>6, <2>7, <2>9, <3>1, <3>2, <4>1 DEF Progressing, Dealt
      <4>2. CASE sched'.succeeded = v
        BY <2>6, <2>8, <2>9, <3>1, <3>2, <4>2 DEF Progressing, Dealt
      <4> QED BY <2>9, <4>1, <4>2
    <3>4. sched'.pc \notin {"batch", "batchReceipt", "boot", "read", "staleness", "select"}
      BY <1>10
    <3> QED BY <2>0, <3>2, <3>3, <3>4 DEF Scheduling, c
  <2> QED BY <1>10, <2>4, <2>9 DEF h, t, l, u, v
<1>11. CASE SchedIndividual
  <2>1. /\ sched.left # <<>> /\ sched.pc = "individual"
        /\ \/ sched' = [sched EXCEPT !.pc = "receipt"]
           \/ sched' = [sched EXCEPT !.left = Tail(sched.left)]
    BY <1>0, <1>11 DEF SchedIndividual, SchedState
  <2>2. /\ sched'.calls = sched.calls /\ sched'.succeeded = sched.succeeded
        /\ sched'.left \in {sched.left, Tail(sched.left)}
        /\ sched'.pc \in {"individual", "receipt"}
    BY <1>0, <2>1 DEF SchedState
  <2> QED BY <1>10, <2>1, <2>2
<1>12. CASE SchedReceipt
  <2>1. sched.left # <<>> /\ sched.pc = "receipt"
    BY <1>0, <1>12 DEF SchedReceipt, AtHand
  <2>2. \/ sched' = [sched EXCEPT !.pc = "individual", !.left = Tail(sched.left),
                                 !.succeeded = Append(sched.succeeded, Head(sched.left))]
        \/ sched' = [sched EXCEPT !.pc = "individual", !.left = Tail(sched.left)]
    BY <1>0, <1>12 DEF SchedReceipt, SchedState
  <2>3. /\ sched'.calls = sched.calls /\ sched'.left = Tail(sched.left)
        /\ sched'.succeeded \in {sched.succeeded, Append(sched.succeeded, Head(sched.left))}
        /\ sched'.pc = "individual"
    BY <1>0, <2>2 DEF SchedState
  <2> QED BY <1>10, <2>1, <2>3
<1> QED
  BY <1>4, <1>5, <1>6, <1>7, <1>8, <1>9, <1>11, <1>12 DEF SchedStep

Alone == mon.pc = "sleep" /\ pool["mon"] = None /\ Scheduling(sched)

LEMMA InitAlone == Init => Alone
BY DEF Init, Alone, MonStart, Loop, Booting, SchedStart, Scheduling, Distinct

LEMMA NextAlone ==
  ASSUME Typed, Alone, [Next]_vars, EarlyPushThreshold = 0
  PROVE  Alone' /\ ~MonStep
<1>0. /\ TypeOK /\ sched \in SchedState /\ pool \in [Loop -> Tx \cup {None}]
      /\ mon.pc = "sleep" /\ pool["mon"] = None /\ Scheduling(sched)
  BY DEF Typed, TypeOK, Alone
<1>1. ~MonStep
  BY <1>0 DEF MonStep, MonRead, MonDecide, MonRemove, MonReset, MonRestore, MonSend, MonReceipt
<1>2. ASSUME SchedStep
      PROVE  mon'.pc = "sleep" /\ pool'["mon"] = None
  <2>1. UNCHANGED mon
    BY <1>0, <1>2, SchedType DEF Typed
  <2>2. pool'["mon"] = None
    BY <1>0, <1>2
    DEF SchedStep, SchedBoot, SchedRead, SchedStaleness, SchedSelect, SchedBatch,
        SchedBatchReceipt, SchedIndividual, SchedReceipt, SchedFinish, SchedWake, Loop
  <2> QED BY <1>0, <2>1, <2>2
<1>3. ASSUME ~SchedStep
      PROVE  mon'.pc = "sleep" /\ pool'["mon"] = None /\ Scheduling(sched')
  <2>1. CASE UNCHANGED <<mon, sched, pool>>
    BY <1>0, <2>1
  <2>2. CASE RequestStep
    BY <1>0, <2>2, RequestType
  <2>3. ASSUME NEW l \in Loop, Mine(l)
        PROVE  mon'.pc = "sleep" /\ pool'["mon"] = None /\ Scheduling(sched')
    BY <1>0, <2>3 DEF Mine, Loop
  <2>4. CASE Restart
    <3>1. mon'.pc = "sleep" /\ UNCHANGED pool
      BY <2>4 DEF Restart, MonStart
    <3>2. Scheduling(sched')
      BY <2>4 DEF Restart, Booting, SchedStart, Scheduling, Distinct
    <3> QED BY <1>0, <3>1, <3>2
  <2>5. CASE Tick
    <3>1. /\ sched'.pc = sched.pc /\ sched'.calls = sched.calls /\ sched'.left = sched.left
          /\ sched'.succeeded = sched.succeeded
      BY <1>0, <2>5 DEF Tick, SchedState
    <3>2. UNCHANGED <<mon, pool>>
      BY <2>5 DEF Tick
    <3>3. Progressing(sched') <=> Progressing(sched)
      BY <3>1 DEF Progressing, Dealt
    <3> QED BY <1>0, <3>1, <3>2, <3>3 DEF Scheduling
  <2> QED
    BY <1>1, <1>3, <2>1, <2>2, <2>3, <2>4, <2>5
    DEF Next, vars, RequestStep, VaultMoves, OtherKeeperPushes, PostUpdate, PeerLooksStale
<1> QED
  BY <1>0, <1>1, <1>2, <1>3, SchedScheduling DEF Alone

(* Only the spokes a transaction names change in a mined oracle, and not    *)
(* their breakers.                                                          *)
LEMMA StoredFields ==
  ASSUME TypeOK, NEW calls \in Seq(Call), NEW s \in Spoke
  PROVE  /\ Stored(calls)[s].bps = oracle[s].bps
         /\ Stored(calls)[s].age \in {oracle[s].age, 0}
         /\ (~ \E c \in Range(calls) : c.spoke = s) => Stored(calls)[s] = oracle[s]
         /\ (\E c \in Range(calls) : c.spoke = s) => Stored(calls)[s].age = 0
<1>1. oracle[s] \in OracleRecord
  BY DEF TypeOK, OracleRecord
<1>2. CASE \E c \in Range(calls) : c.spoke = s
  <2> DEFINE v == (CHOOSE c \in Range(calls) : c.spoke = s).value
  <2>1. Stored(calls)[s] = [oracle[s] EXCEPT !.stored = v, !.age = 0]
    BY <1>2 DEF Stored
  <2> HIDE DEF v
  <2>2. Stored(calls)[s].bps = oracle[s].bps /\ Stored(calls)[s].age = 0
    BY <1>1, <2>1 DEF OracleRecord
  <2> QED BY <1>2, <2>2
<1>3. CASE ~ \E c \in Range(calls) : c.spoke = s
  BY <1>3 DEF Stored
<1> QED BY <1>2, <1>3

LEMMA RangeOfOne ==
  ASSUME NEW e
  PROVE  Range(<<e>>) = {e}
BY DEF Range

LEMMA RangeOfAppended ==
  ASSUME NEW s \in Seq(Call), NEW e \in Call
  PROVE  Range(Append(s, e)) = Range(s) \cup {e}
<1>1. /\ Len(s) \in Nat /\ DOMAIN s = 1 .. Len(s)
      /\ DOMAIN Append(s, e) = 1 .. Len(s) + 1
      /\ Append(s, e)[Len(s) + 1] = e
  OBVIOUS
<1>2. \A i \in 1 .. Len(s) : Append(s, e)[i] = s[i]
  OBVIOUS
<1>3. 1 .. Len(s) + 1 = 1 .. Len(s) \cup {Len(s) + 1}
  BY <1>1
<1> QED BY <1>1, <1>2, <1>3 DEF Range

(* In a cycle that pushes oracle by oracle, a call that was dealt with has  *)
(* succeeded or is one that its oracle refuses.                             *)
Settled(c) == c \in Range(sched.succeeded) \/ ~TakenAlone(c)

Independent ==
  env.reliable =>
    /\ ~env.others /\ env.warners = {} /\ env.restarts = 0 /\ request = None
    /\ pool["sched"] # None => sched.pc \in {"batchReceipt", "receipt"}
    /\ sched.pc = "receipt" /\ pool["sched"] # None =>
         pool["sched"].calls = <<Head(sched.left)>>
    /\ sched.pc \in {"individual", "receipt"} =>
         \A i \in 1 .. Dealt(sched) : Settled(sched.calls[i])

LEMMA NextIndependent ==
  ASSUME Typed, Alone, Independent, [Next]_vars, EarlyPushThreshold = 0
  PROVE  Independent'
<1>0. /\ TypeOK /\ AtHand /\ sched \in SchedState /\ pool \in [Loop -> Tx \cup {None}]
      /\ sched.calls \in Seq(Call) /\ sched.left \in Seq(Call) /\ sched.succeeded \in Seq(Call)
      /\ env \in Environment
      /\ Scheduling(sched) /\ pool["mon"] = None
  BY DEF Typed, TypeOK, SchedState, Alone
<1>1. ~MonStep
  BY NextAlone
<1>2. /\ env'.reliable = env.reliable /\ env'.others = env.others /\ env'.warners = env.warners
      /\ env'.restarts <= env.restarts /\ env'.listed = env.listed /\ env' \in Environment
  BY <1>0, SurroundingsStay
<1>3. SUFFICES ASSUME env.reliable
               PROVE  /\ request' = None
                      /\ pool'["sched"] # None => sched'.pc \in {"batchReceipt", "receipt"}
                      /\ sched'.pc = "receipt" /\ pool'["sched"] # None =>
                           pool'["sched"].calls = <<Head(sched'.left)>>
                      /\ sched'.pc \in {"individual", "receipt"} =>
                           \A i \in 1 .. Dealt(sched') : Settled(sched.calls[i])'
  <2>1. env.reliable => ~env'.others /\ env'.warners = {} /\ env'.restarts = 0
    BY <1>0, <1>2 DEF Independent, Environment
  <2> QED BY <1>2, <2>1 DEF Independent
<1>4. /\ ~env.others /\ env.warners = {} /\ env.restarts = 0 /\ request = None
      /\ pool["sched"] # None => sched.pc \in {"batchReceipt", "receipt"}
      /\ sched.pc = "receipt" /\ pool["sched"] # None =>
           pool["sched"].calls = <<Head(sched.left)>>
      /\ sched.pc \in {"individual", "receipt"} =>
           \A i \in 1 .. Dealt(sched) : Settled(sched.calls[i])
  BY <1>3 DEF Independent
<1> DEFINE Rest1 == request' = None
           InFlight == /\ pool'["sched"] # None => sched'.pc \in {"batchReceipt", "receipt"}
                       /\ sched'.pc = "receipt" /\ pool'["sched"] # None =>
                            pool'["sched"].calls = <<Head(sched'.left)>>
           Dealing == sched'.pc \in {"individual", "receipt"} =>
                        \A i \in 1 .. Dealt(sched') : Settled(sched.calls[i])'
<1>5. CASE UNCHANGED <<oracle, pool, sched, request>>
  BY <1>2, <1>4, <1>5 DEF Settled, TakenAlone, Passes, Dealt
<1>6. ASSUME SchedStep
      PROVE  InFlight /\ Dealing
  <2>0. UNCHANGED <<oracle, request>> /\ sched' \in SchedState
    BY <1>0, <1>6, SchedType
  <2>1. \A c : TakenAlone(c)' <=> TakenAlone(c)
    BY <1>2, <2>0 DEF TakenAlone, Passes
  <2>2. sched'.pc \notin {"batchReceipt", "individual", "receipt"} /\ pool'["sched"] = None
          => InFlight /\ Dealing
    OBVIOUS
  <2>3. CASE SchedBoot \/ SchedRead \/ SchedStaleness \/ SchedWake \/ SchedFinish
    <3>1. sched'.pc \in {"read", "staleness", "select", "sleep"}
      <4>1. EndCycle => sched'.pc = "sleep"
        BY DEF EndCycle, SchedStart
      <4>2. SchedBoot \/ SchedWake \/ SchedFinish => sched'.pc \in {"read", "sleep"}
        BY <4>1 DEF SchedBoot, SchedWake, SchedFinish, SchedStart
      <4>3. SchedRead => sched'.pc = "staleness"
        BY <1>0 DEF SchedRead, SchedState
      <4>4. SchedStaleness => sched'.pc \in {"select", "sleep"}
        BY <1>0, <4>1 DEF SchedStaleness, SchedState
      <4> QED BY <2>3, <4>2, <4>3, <4>4
    <3>2. pool'["sched"] = None
      BY <1>4, <2>3 DEF SchedBoot, SchedRead, SchedStaleness, SchedWake, SchedFinish
    <3> QED BY <2>2, <3>1, <3>2
  <2>4. CASE SchedSelect
    <3>1. pool'["sched"] = None
      BY <1>4, <2>4 DEF SchedSelect
    <3>2. \/ EndCycle
          \/ sched'.pc \in {"batch", "individual"} /\ sched'.left = sched'.calls
      BY <1>0, <2>4 DEF SchedSelect, SchedState
    <3>3. CASE EndCycle
      BY <2>2, <3>1, <3>3 DEF EndCycle, SchedStart
    <3>4. CASE sched'.pc \in {"batch", "individual"} /\ sched'.left = sched'.calls
      <4>1. Len(sched'.calls) \in Nat
        BY <2>0 DEF SchedState
      <4>2. Dealt(sched') = 0
        BY <3>4, <4>1 DEF Dealt
      <4> QED BY <3>1, <3>4, <4>2
    <3> QED BY <3>2, <3>3, <3>4
  <2>5. CASE SchedBatch
    <3>1. sched.left = sched.calls /\ sched.pc = "batch" /\ Len(sched.calls) \in Nat
      BY <1>0, <2>5 DEF SchedBatch, Scheduling
    <3>2. /\ sched'.left = sched.left /\ sched'.calls = sched.calls
          /\ \/ sched'.pc = "batchReceipt"
             \/ sched'.pc = "individual" /\ UNCHANGED pool
      BY <1>0, <2>5 DEF SchedBatch, SchedState
    <3>3. Dealt(sched') = 0
      BY <3>1, <3>2 DEF Dealt
    <3> QED BY <1>4, <3>1, <3>2, <3>3
  <2>6. CASE SchedBatchReceipt
    <3>1. EndCycle /\ pool'["sched"] = None
      BY <1>3, <2>6 DEF SchedBatchReceipt, FlowMayFail
    <3> QED BY <2>2, <3>1 DEF EndCycle, SchedStart
  <2>7. ASSUME sched.left # <<>>, sched.pc \in {"individual", "receipt"},
               sched'.calls = sched.calls, sched'.left = Tail(sched.left),
               Range(sched.succeeded) \subseteq Range(sched'.succeeded),
               Head(sched.left) \in Range(sched'.succeeded) \/ ~TakenAlone(Head(sched.left))
        PROVE  \A i \in 1 .. Dealt(sched') : Settled(sched.calls[i])'
    <3>1. /\ Len(sched.left) \in Nat /\ Len(sched.left) >= 1
          /\ Head(sched.left) = sched.left[1]
          /\ Len(Tail(sched.left)) = Len(sched.left) - 1
          /\ Len(sched.calls) \in Nat
      BY <1>0, <2>7, HeadAndTail
    <3>2. Progressing(sched)
      BY <1>0, <2>7 DEF Scheduling
    <3>3. Dealt(sched') = Dealt(sched) + 1 /\ Dealt(sched) \in Nat
      <4>1. Dealt(sched') = Len(sched.calls) - (Len(sched.left) - 1)
        BY <2>7, <3>1 DEF Dealt
      <4>2. Dealt(sched) = Len(sched.calls) - Len(sched.left) /\ Len(sched.left) <= Len(sched.calls)
        BY <3>2 DEF Dealt, Progressing
      <4> QED BY <3>1, <4>1, <4>2
    <3>4. sched.calls[Dealt(sched) + 1] = Head(sched.left)
      BY <3>1, <3>2 DEF Progressing
    <3> SUFFICES ASSUME NEW i \in 1 .. Dealt(sched')
                 PROVE  Settled(sched.calls[i])'
      OBVIOUS
    <3>5. CASE i \in 1 .. Dealt(sched)
      <4>1. Settled(sched.calls[i])
        BY <1>4, <2>7, <3>5
      <4> QED BY <2>1, <2>7, <4>1 DEF Settled
    <3>6. CASE i = Dealt(sched) + 1
      BY <2>1, <2>7, <3>4, <3>6 DEF Settled
    <3> QED BY <3>3, <3>5, <3>6
  <2>8. CASE SchedIndividual
    <3> DEFINE tx == [direct |-> TRUE, calls |-> <<Head(sched.left)>>]
    <3>1. /\ sched.left # <<>> /\ sched.pc = "individual"
          /\ \/ pool' = [pool EXCEPT !["sched"] = tx] /\ sched' = [sched EXCEPT !.pc = "receipt"]
             \/ SendFails(tx) /\ sched' = [sched EXCEPT !.left = Tail(@)] /\ UNCHANGED pool
      BY <2>8 DEF SchedIndividual
    <3>2. CASE pool' = [pool EXCEPT !["sched"] = tx] /\ sched' = [sched EXCEPT !.pc = "receipt"]
      <4>1. /\ sched'.pc = "receipt" /\ sched'.left = sched.left /\ sched'.calls = sched.calls
            /\ sched'.succeeded = sched.succeeded
        BY <1>0, <3>2 DEF SchedState
      <4>2. pool'["sched"].calls = <<Head(sched.left)>>
        BY <1>0, <3>2 DEF Loop
      <4>3. \A i \in 1 .. Dealt(sched') : Settled(sched.calls[i])'
        BY <1>4, <2>1, <3>1, <4>1 DEF Settled, Dealt
      <4> QED BY <4>1, <4>2, <4>3
    <3>3. CASE SendFails(tx) /\ sched' = [sched EXCEPT !.left = Tail(@)] /\ UNCHANGED pool
      <4>1. /\ sched'.pc = "individual" /\ sched'.left = Tail(sched.left)
            /\ sched'.calls = sched.calls /\ sched'.succeeded = sched.succeeded
        BY <1>0, <3>1, <3>3 DEF SchedState
      <4>2. ~TakenAlone(Head(sched.left))
        BY <1>3, <3>3, RangeOfOne DEF SendFails, FlowMayFail, Executable, TakenAlone
      <4>3. \A i \in 1 .. Dealt(sched') : Settled(sched.calls[i])'
        BY <2>7, <3>1, <4>1, <4>2
      <4> QED BY <1>4, <3>1, <3>3, <4>1, <4>3
    <3> QED BY <3>1, <3>2, <3>3
  <2>9. CASE SchedReceipt
    <3>1. sched.left # <<>> /\ sched.pc = "receipt" /\ pool'["sched"] = None
      BY <1>0, <2>9 DEF SchedReceipt, AtHand
    <3>2. sched' = [sched EXCEPT !.pc = "individual", !.left = Tail(@),
                                 !.succeeded = Append(@, Head(sched.left))]
      BY <1>3, <2>9 DEF SchedReceipt, FlowMayFail
    <3>3. /\ sched'.pc = "individual" /\ sched'.calls = sched.calls
          /\ sched'.left = Tail(sched.left)
          /\ sched'.succeeded = Append(sched.succeeded, Head(sched.left))
      BY <1>0, <3>2 DEF SchedState
    <3>4. Range(sched'.succeeded) = Range(sched.succeeded) \cup {Head(sched.left)}
      BY <1>0, <3>1, <3>3, RangeOfAppended, HeadAndTail
    <3>5. \A i \in 1 .. Dealt(sched') : Settled(sched.calls[i])'
      BY <2>7, <3>1, <3>3, <3>4
    <3> QED BY <3>1, <3>3, <3>5
  <2> QED
    BY <1>6, <2>3, <2>4, <2>5, <2>6, <2>8, <2>9 DEF SchedStep
<1>7. SchedStep => Rest1
  BY <1>0, <1>4, SchedType
<1>8. ~RequestStep
  BY <1>4
  DEF RequestStep, CuratorBridgeWarning, PeerBridgeWarning, HandlerStep, ReadBreaker,
      DisableBreaker, PeerReadBreaker, SpawnedDisable, InsertWarning, DropRequest
<1>9. ASSUME NEW l \in Loop, Mine(l)
      PROVE  Rest1 /\ InFlight /\ Dealing
  <2>1. l = "sched" /\ pool["sched"] # None /\ UNCHANGED <<sched, request>>
        /\ pool'["sched"] = None
    BY <1>0, <1>9 DEF Mine, Loop
  <2>2. Rest1 /\ InFlight
    BY <1>4, <2>1
  <2>3. ASSUME sched.pc \in {"individual", "receipt"}, NEW i \in 1 .. Dealt(sched)
        PROVE  Settled(sched.calls[i])'
    <3>1. sched.pc = "receipt" /\ pool["sched"].calls = <<Head(sched.left)>>
      BY <1>4, <2>1, <2>3
    <3>2. sched.left # <<>> /\ Progressing(sched)
      BY <1>0, <3>1 DEF AtHand, Scheduling
    <3>3. Settled(sched.calls[i])
      BY <1>4, <2>3
    <3>4. /\ Len(sched.left) \in Nat /\ Len(sched.left) >= 1
          /\ Head(sched.left) = sched.left[1] /\ Head(sched.left) \in Call
          /\ Len(sched.calls) \in Nat
      BY <1>0, <3>2, HeadAndTail
    <3>5. /\ Head(sched.left) = sched.calls[Dealt(sched) + 1]
          /\ i \in 1 .. Len(sched.calls) /\ Dealt(sched) + 1 \in 1 .. Len(sched.calls)
          /\ i # Dealt(sched) + 1
      <4>1. Dealt(sched) = Len(sched.calls) - Len(sched.left) /\ Len(sched.left) <= Len(sched.calls)
        BY <3>2 DEF Dealt, Progressing
      <4>2. /\ i \in 1 .. Len(sched.calls) /\ Dealt(sched) + 1 \in 1 .. Len(sched.calls)
            /\ i # Dealt(sched) + 1 /\ 1 \in 1 .. Len(sched.left)
        <5>1. i \in 1 .. Dealt(sched) /\ Len(sched.calls) \in Nat
          BY <2>3, <3>4
        <5>2. Dealt(sched) \in Nat /\ Dealt(sched) + 1 <= Len(sched.calls)
          BY <3>4, <4>1
        <5>3. 1 \in 1 .. Len(sched.left)
          BY <3>4
        <5> QED BY <5>1, <5>2, <5>3
      <4>3. sched.left[1] = sched.calls[Dealt(sched) + 1]
        BY <3>2, <4>2 DEF Progressing
      <4> QED BY <3>4, <4>2, <4>3
    <3>6. sched.calls[i].spoke # Head(sched.left).spoke /\ sched.calls[i].spoke \in Spoke
      <4>1. sched.calls[i] \in Call
        BY <1>0, <3>5
      <4> QED BY <1>0, <3>5, <4>1, DistinctCalls, ZenonT(60) DEF Scheduling, Call
    <3>7. <<Head(sched.left)>> \in Seq(Call)
      BY <3>4
    <3>8. oracle'[sched.calls[i].spoke] = oracle[sched.calls[i].spoke]
      <4>1. oracle' \in {oracle, Stored(<<Head(sched.left)>>)}
        BY <1>9, <2>1, <3>1 DEF Mine
      <4>2. ~ \E c \in Range(<<Head(sched.left)>>) : c.spoke = sched.calls[i].spoke
        BY <3>6, RangeOfOne
      <4>3. Stored(<<Head(sched.left)>>)[sched.calls[i].spoke] = oracle[sched.calls[i].spoke]
        BY <1>0, <3>6, <3>7, <4>2, StoredFields
      <4> QED BY <4>1, <4>3
    <3> QED BY <1>2, <2>1, <3>3, <3>8 DEF Settled, TakenAlone, Passes
  <2> QED BY <2>1, <2>2, <2>3 DEF Dealt
<1>10. CASE Tick
  <2>1. /\ sched.pc \in {"boot", "sleep"} /\ sched'.pc = sched.pc /\ UNCHANGED <<pool, request>>
    BY <1>0, <1>10 DEF Tick, Quiet, SchedState
  <2> QED BY <1>4, <2>1
<1>11. ~Restart /\ \A s \in Spoke : ~OtherKeeperPushes(s)
  BY <1>4 DEF Restart, OtherKeeperPushes
<1> QED
  BY <1>1, <1>5, <1>6, <1>7, <1>8, <1>9, <1>10, <1>11
  DEF Next, vars, RequestStep, VaultMoves, PostUpdate, PeerLooksStale

(* One oracle that refuses its update does not block the others: for any    *)
(* number of oracles, and whichever of them whitelist the keeper's wallet,  *)
(* a finished round of individual updates leaves out nothing but what its   *)
(* own oracle refuses at that moment, for its breaker or for the wallet.    *)
THEOREM FallbackLeavesNoneOut ==
  ASSUME EarlyPushThreshold = 0,
         \A e \in Environments :
           e.reliable => ~e.others /\ e.warners = {} /\ e.restarts = 0
  PROVE  Spec => []FallbackIsIndependent
<1>1. Init => Alone /\ Independent
  <2>1. Init => Independent
    BY DEF Init, Independent, Booting, SchedStart, Loop
  <2> QED BY <2>1, InitAlone
<1>2. Typed /\ Alone /\ Independent /\ [Next]_vars => Alone' /\ Independent'
  BY NextAlone, NextIndependent
<1>3. Typed /\ Alone /\ Independent => FallbackIsIndependent
  <2> SUFFICES ASSUME Typed, Alone, Independent, env.reliable,
                      sched.pc = "individual", sched.left = <<>>,
                      NEW c \in Range(sched.calls)
               PROVE  c \in Range(sched.succeeded) \/ ~TakenAlone(c)
    BY DEF FallbackIsIndependent, Reliable
  <2>1. sched.calls \in Seq(Call)
    BY DEF Typed, TypeOK, SchedState
  <2>2. Dealt(sched) = Len(sched.calls)
    BY <2>1 DEF Dealt
  <2>3. PICK i \in 1 .. Len(sched.calls) : c = sched.calls[i]
    BY <2>1 DEF Range
  <2> QED BY <2>2, <2>3 DEF Independent, Settled
<1> QED BY <1>1, <1>2, <1>3, TypedAlways, PTL DEF Spec

-----------------------------------------------------------------------------
(* The keeper's record of its pushes, with both loops at work, other        *)
(* keepers that push too, and any number of spokes.                         *)

(* While nothing disturbs the breakers they stay off, and what is sent is   *)
(* executed.                                                                *)
Standing ==
  /\ request = None
  /\ \A s \in Spoke : oracle[s].bps = 0 /\ warnings[s] = None
  /\ mon.pc \notin {"remove", "reset", "restore"}
  /\ \A l \in Loop : pool[l] # None => Executable(pool[l])

JustStored(calls) == \A c \in Range(calls) : oracle[c.spoke].age = 0

(* Between the mining of a transaction and the recording of it no time      *)
(* passes, whatever the other loop does.                                    *)
Delivered(l, calls) ==
  IF pool[l] = None THEN JustStored(calls) ELSE pool[l].calls = calls

Recording ==
  /\ sched.pc \in {"boot", "sleep"} => sched.succeeded = <<>>
  /\ JustStored(sched.succeeded)
  /\ sched.pc = "batchReceipt" => Delivered("sched", sched.calls)
  /\ sched.pc = "receipt" => Delivered("sched", <<Head(sched.left)>>)
  /\ mon.pc = "receipt" => Delivered("mon", <<Head(mon.todo)>>)

(* A push that is still recent is no younger than what it stored. *)
PushesAreOlder ==
  \A s \in Spoke : lastPushed[s] # None =>
    lastPushed[s].age >= SkipIfFresh \/ oracle[s].age <= lastPushed[s].age

Founded == BreakersOff => Standing /\ Recording /\ PushesAreOlder

LEMMA SpokesOfCalls ==
  ASSUME NEW calls \in Seq(Call), NEW c \in Range(calls)
  PROVE  c.spoke \in Spoke
<1>1. PICK i \in 1 .. Len(calls) : c = calls[i]
  BY DEF Range
<1>2. c \in Call
  BY <1>1
<1> QED BY <1>2 DEF Call

(* With the breakers off, only the whitelists decide. *)
LEMMA StaysExecutable ==
  ASSUME NEW tx \in Tx, Executable(tx), env'.listed = env.listed,
         \A s \in Spoke : oracle'[s].bps = 0
  PROVE  \A c \in Range(tx.calls) : Passes(c)' /\ (tx.direct => c.spoke \in env'.listed)
<1>1. tx.calls \in Seq(Call)
  BY DEF Tx
<1>2. \A c \in Range(tx.calls) : c.spoke \in Spoke
  BY <1>1, SpokesOfCalls
<1>3. \A c \in Range(tx.calls) : Passes(c)'
  BY <1>2 DEF Passes
<1> QED BY <1>3 DEF Executable

LEMMA StaysStored ==
  ASSUME NEW calls \in Seq(Call), JustStored(calls),
         \A s \in Spoke : oracle'[s].age \in {oracle[s].age, 0}
  PROVE  \A c \in Range(calls) : oracle'[c.spoke].age = 0
<1>1. \A c \in Range(calls) : c.spoke \in Spoke
  BY SpokesOfCalls
<1> QED BY <1>1 DEF JustStored

(* Recording what has just been stored records nothing too young. *)
LEMMA RecordsAreFounded ==
  ASSUME NEW calls \in Seq(Call), JustStored(calls), PushesAreOlder,
         lastPushed' = Pushed(calls), UNCHANGED oracle
  PROVE  PushesAreOlder'
<1> SUFFICES ASSUME NEW s \in Spoke, lastPushed'[s] # None
             PROVE  \/ lastPushed'[s].age >= SkipIfFresh
                    \/ oracle[s].age <= lastPushed'[s].age
  BY DEF PushesAreOlder
<1>1. CASE \E c \in Range(calls) : c.spoke = s
  <2> DEFINE v == (CHOOSE c \in Range(calls) : c.spoke = s).value
  <2>1. oracle[s].age = 0
    BY <1>1 DEF JustStored
  <2>2. lastPushed'[s] = [value |-> v, age |-> 0]
    BY <1>1 DEF Pushed
  <2> HIDE DEF v
  <2> QED BY <2>1, <2>2
<1>2. CASE ~ \E c \in Range(calls) : c.spoke = s
  <2>1. lastPushed'[s] = lastPushed[s]
    BY <1>2 DEF Pushed
  <2> QED BY <2>1 DEF PushesAreOlder
<1> QED BY <1>1, <1>2

LEMMA NextFounded ==
  ASSUME Typed, Founded, [Next]_vars
  PROVE  Founded'
<1>0. /\ TypeOK /\ AtHand /\ sched \in SchedState /\ mon \in MonState
      /\ pool \in [Loop -> Tx \cup {None}]
      /\ sched.calls \in Seq(Call) /\ sched.left \in Seq(Call) /\ sched.succeeded \in Seq(Call)
      /\ mon.todo \in Seq(Call)
      /\ env \in Environment /\ oracle \in [Spoke -> OracleRecord]
      /\ lastPushed \in [Spoke -> PushRecord \cup {None}]
  BY DEF Typed, TypeOK, SchedState, MonState, OracleRecord, PushRecord
<1>1. /\ env'.breaker = env.breaker
      /\ env'.warners = env.warners /\ env'.listed = env.listed
  BY <1>0, SurroundingsStay
<1>2. SUFFICES ASSUME BreakersOff
               PROVE  Standing' /\ Recording' /\ PushesAreOlder'
  BY <1>1 DEF Founded, BreakersOff
<1>3. /\ Standing /\ Recording /\ PushesAreOlder
      /\ env.warners = {}
  BY <1>2 DEF Founded, BreakersOff
<1>4. /\ request = None
      /\ \A s \in Spoke : oracle[s].bps = 0 /\ warnings[s] = None
      /\ mon.pc \notin {"remove", "reset", "restore"}
      /\ \A l \in Loop : pool[l] # None => Executable(pool[l])
  BY <1>3 DEF Standing
<1>5. /\ sched.pc = "receipt" => <<Head(sched.left)>> \in Seq(Call) /\ Head(sched.left) \in Call
      /\ mon.pc # "sleep" =>
           /\ <<Head(mon.todo)>> \in Seq(Call) /\ Head(mon.todo) \in Call
           /\ Head(mon.todo).spoke \in Spoke
  <2>1. sched.pc = "receipt" => Head(sched.left) \in Call
    BY <1>0, HeadAndTail DEF AtHand
  <2>2. mon.pc # "sleep" => Head(mon.todo) \in Call
    BY <1>0, HeadAndTail DEF AtHand, MonAtHand
  <2> QED BY <2>1, <2>2 DEF Call
<1> DEFINE Good == Standing' /\ Recording' /\ PushesAreOlder'
<1>6. SUFFICES Good
  OBVIOUS
<1> HIDE DEF Good
<1>7. ASSUME \A s \in Spoke : oracle'[s].bps = 0, UNCHANGED <<request, warnings>>,
             mon'.pc \notin {"remove", "reset", "restore"},
             \A l \in Loop : pool'[l] # None => pool'[l] = pool[l] \/ Executable(pool'[l])
      PROVE  Standing'
  <2>1. ASSUME NEW l \in Loop, pool'[l] # None
        PROVE  Executable(pool[l])'
    <3> DEFINE tx == pool'[l]
    <3>1. Executable(tx)
      BY <1>4, <1>7, <2>1
    <3>2. tx \in Tx
      BY <2>1, NextTyped DEF Typed, TypeOK
    <3>3. \A c \in Range(tx.calls) : Passes(c)' /\ (tx.direct => c.spoke \in env'.listed)
      BY <1>1, <1>7, <3>1, <3>2, StaysExecutable
    <3> QED BY <3>3 DEF Executable
  <2> QED BY <1>4, <1>7, <2>1 DEF Standing
<1>8. ASSUME \A s \in Spoke : oracle'[s].age \in {oracle[s].age, 0}, UNCHANGED lastPushed
      PROVE  PushesAreOlder'
  <2>1. ASSUME NEW s \in Spoke, lastPushed[s] # None
        PROVE  lastPushed[s].age >= SkipIfFresh \/ oracle'[s].age <= lastPushed[s].age
    <3>1. lastPushed[s].age \in Nat
      BY <1>0, <2>1, Bounds DEF PushRecord
    <3>2. lastPushed[s].age >= SkipIfFresh \/ oracle[s].age <= lastPushed[s].age
      BY <1>3, <2>1 DEF PushesAreOlder
    <3> QED BY <1>8, <3>1, <3>2
  <2> QED BY <1>8, <2>1 DEF PushesAreOlder
(* What a loop has under way stays so under the steps of everybody else.    *)
<1>9. ASSUME \A s \in Spoke : oracle'[s].age \in {oracle[s].age, 0},
             NEW l \in Loop, pool'[l] = pool[l], NEW calls \in Seq(Call), Delivered(l, calls)
      PROVE  IF pool'[l] = None THEN \A c \in Range(calls) : oracle'[c.spoke].age = 0
                                ELSE pool'[l].calls = calls
  BY <1>9, StaysStored DEF Delivered
<1>10. ASSUME \A s \in Spoke : oracle'[s].age \in {oracle[s].age, 0}
       PROVE  \A c \in Range(sched.succeeded) : oracle'[c.spoke].age = 0
  BY <1>0, <1>3, <1>10, StaysStored DEF Recording
<1> DEFINE SchedRecords == /\ sched.pc \in {"boot", "sleep"} => sched.succeeded = <<>>
                           /\ JustStored(sched.succeeded)
                           /\ sched.pc = "batchReceipt" => Delivered("sched", sched.calls)
                           /\ sched.pc = "receipt" => Delivered("sched", <<Head(sched.left)>>)
           MonRecords == mon.pc = "receipt" => Delivered("mon", <<Head(mon.todo)>>)
<1>11. Recording' <=> SchedRecords' /\ MonRecords'
  BY DEF Recording
<1>12. ASSUME \A s \in Spoke : oracle'[s].age \in {oracle[s].age, 0},
              UNCHANGED sched, pool'["sched"] = pool["sched"]
       PROVE  SchedRecords'
  BY <1>0, <1>3, <1>5, <1>9, <1>10, <1>12 DEF Recording, Delivered, JustStored, Loop
<1>13. ASSUME \A s \in Spoke : oracle'[s].age \in {oracle[s].age, 0},
              UNCHANGED mon, pool'["mon"] = pool["mon"]
       PROVE  MonRecords'
  BY <1>0, <1>3, <1>5, <1>9, <1>13 DEF Recording, Delivered, JustStored, Loop
<1> HIDE DEF SchedRecords, MonRecords
<1>14. CASE SchedStep
  <2>0. /\ UNCHANGED <<vault, oracle, warnings, mon, request, env>> /\ sched' \in SchedState
    BY <1>0, <1>14, SchedType
  <2>1. /\ \A s \in Spoke : oracle'[s].age \in {oracle[s].age, 0}
        /\ \A s \in Spoke : oracle'[s].bps = 0
    BY <1>4, <2>0
  <2>2. ASSUME pool' = pool
        PROVE  Standing' /\ MonRecords'
    BY <1>4, <1>7, <1>13, <2>0, <2>1, <2>2
  <2>3. ASSUME sched'.pc \notin {"batchReceipt", "receipt"}, sched'.succeeded = <<>>
        PROVE  SchedRecords'
    BY <2>3 DEF SchedRecords, JustStored, Range
  <2>4. EndCycle => sched'.pc = "sleep" /\ sched'.succeeded = <<>>
    BY DEF EndCycle, SchedStart
  <2>5. ASSUME NEW tx \in Tx, CanSend("sched", tx), pool' = [pool EXCEPT !["sched"] = tx]
        PROVE  Standing' /\ MonRecords' /\ pool'["sched"] = tx
    <3>1. pool'["sched"] = tx /\ pool'["mon"] = pool["mon"]
      BY <1>0, <2>5 DEF Loop
    <3>2. \A l \in Loop : pool'[l] # None => pool'[l] = pool[l] \/ Executable(pool'[l])
      BY <2>5, <3>1 DEF CanSend, Loop
    <3> QED BY <1>4, <1>7, <1>13, <2>0, <2>1, <3>1, <3>2
  <2>6. JustStored(sched.succeeded)
    BY <1>3 DEF Recording
  <2>7. CASE SchedBoot \/ SchedWake
    <3>1. UNCHANGED <<pool, lastPushed>> /\ sched'.pc = "read" /\ sched'.succeeded = <<>>
      BY <2>7 DEF SchedBoot, SchedWake, SchedStart
    <3> QED BY <1>8, <1>11, <2>1, <2>2, <2>3, <3>1 DEF Good
  <2>8. CASE SchedRead \/ SchedSelect \/ SchedStaleness
    <3>1. UNCHANGED <<pool, lastPushed>>
      BY <2>8 DEF SchedRead, SchedSelect, SchedStaleness
    <3>2. \/ EndCycle
          \/ sched'.pc \in {"staleness", "select", "batch", "individual"} /\ sched'.succeeded = sched.succeeded
      BY <1>0, <2>8 DEF SchedRead, SchedSelect, SchedStaleness, SchedState
    <3>3. SchedRecords'
      BY <2>0, <2>3, <2>4, <2>6, <3>2 DEF SchedRecords, JustStored
    <3> QED BY <1>8, <1>11, <2>1, <2>2, <3>1, <3>3 DEF Good
  <2>9. CASE SchedBatch
    <3> DEFINE tx == [direct |-> FALSE, calls |-> sched.calls]
    <3>1. tx \in Tx /\ tx.calls = sched.calls
      BY <1>0 DEF Tx
    <3>2. /\ UNCHANGED lastPushed
          /\ \/ /\ CanSend("sched", tx)
                /\ pool' = [pool EXCEPT !["sched"] = tx]
                /\ sched' = [sched EXCEPT !.pc = "batchReceipt"]
             \/ sched' = [sched EXCEPT !.pc = "individual"] /\ UNCHANGED pool
      BY <2>9 DEF SchedBatch
    <3> HIDE DEF tx
    <3>3. CASE /\ CanSend("sched", tx)
               /\ pool' = [pool EXCEPT !["sched"] = tx]
               /\ sched' = [sched EXCEPT !.pc = "batchReceipt"]
      <4>1. sched'.pc = "batchReceipt" /\ sched'.calls = sched.calls /\ sched'.succeeded = sched.succeeded
        BY <1>0, <3>3 DEF SchedState
      <4>2. Standing' /\ MonRecords' /\ pool'["sched"] = tx
        BY <2>5, <3>1, <3>3
      <4>3. SchedRecords'
        BY <2>0, <2>6, <3>1, <4>1, <4>2, NoneIsNoRecord DEF SchedRecords, JustStored, Delivered
      <4> QED BY <1>8, <1>11, <2>1, <3>2, <4>2, <4>3 DEF Good
    <3>4. CASE sched' = [sched EXCEPT !.pc = "individual"] /\ UNCHANGED pool
      <4>1. sched'.pc = "individual" /\ sched'.succeeded = sched.succeeded
        BY <1>0, <3>4 DEF SchedState
      <4>2. SchedRecords'
        BY <2>0, <2>6, <4>1 DEF SchedRecords, JustStored
      <4> QED BY <1>8, <1>11, <2>1, <2>2, <3>2, <3>4, <4>2 DEF Good
    <3> QED BY <3>2, <3>3, <3>4
  <2>10. CASE SchedBatchReceipt
    <3>1. /\ UNCHANGED pool /\ JustStored(sched.calls)
          /\ \/ lastPushed' = Pushed(sched.calls) /\ EndCycle
             \/ UNCHANGED lastPushed /\ sched' = [sched EXCEPT !.pc = "individual"]
      BY <1>3, <2>10 DEF SchedBatchReceipt, Recording, Delivered
    <3>2. CASE lastPushed' = Pushed(sched.calls) /\ EndCycle
      <4>1. PushesAreOlder'
        BY <1>0, <1>3, <2>0, <3>1, <3>2, RecordsAreFounded
      <4> QED BY <1>11, <2>2, <2>3, <2>4, <3>1, <3>2, <4>1 DEF Good
    <3>3. CASE UNCHANGED lastPushed /\ sched' = [sched EXCEPT !.pc = "individual"]
      <4>1. sched'.pc = "individual" /\ sched'.succeeded = sched.succeeded
        BY <1>0, <3>3 DEF SchedState
      <4>2. SchedRecords'
        BY <2>0, <2>6, <4>1 DEF SchedRecords, JustStored
      <4> QED BY <1>8, <1>11, <2>1, <2>2, <3>1, <3>3, <4>2 DEF Good
    <3> QED BY <3>1, <3>2, <3>3
  <2>11. CASE SchedIndividual
    <3> DEFINE tx == [direct |-> TRUE, calls |-> <<Head(sched.left)>>]
    <3>1. tx \in Tx /\ tx.calls = <<Head(sched.left)>>
      <4>1. Head(sched.left) \in Call
        BY <1>0, <2>11, HeadAndTail DEF SchedIndividual
      <4> QED BY <4>1 DEF Tx
    <3>2. /\ UNCHANGED lastPushed /\ sched.pc = "individual"
          /\ \/ /\ CanSend("sched", tx)
                /\ pool' = [pool EXCEPT !["sched"] = tx]
                /\ sched' = [sched EXCEPT !.pc = "receipt"]
             \/ sched' = [sched EXCEPT !.left = Tail(@)] /\ UNCHANGED pool
      BY <2>11 DEF SchedIndividual
    <3> HIDE DEF tx
    <3>3. CASE /\ CanSend("sched", tx)
               /\ pool' = [pool EXCEPT !["sched"] = tx]
               /\ sched' = [sched EXCEPT !.pc = "receipt"]
      <4>1. sched'.pc = "receipt" /\ sched'.left = sched.left /\ sched'.succeeded = sched.succeeded
        BY <1>0, <3>3 DEF SchedState
      <4>2. Standing' /\ MonRecords' /\ pool'["sched"] = tx
        BY <2>5, <3>1, <3>3
      <4>3. SchedRecords'
        BY <2>0, <2>6, <3>1, <4>1, <4>2, NoneIsNoRecord DEF SchedRecords, JustStored, Delivered
      <4> QED BY <1>8, <1>11, <2>1, <3>2, <4>2, <4>3 DEF Good
    <3>4. CASE sched' = [sched EXCEPT !.left = Tail(@)] /\ UNCHANGED pool
      <4>1. sched'.pc = "individual" /\ sched'.succeeded = sched.succeeded
        BY <1>0, <3>2, <3>4 DEF SchedState
      <4>2. SchedRecords'
        BY <2>0, <2>6, <4>1 DEF SchedRecords, JustStored
      <4> QED BY <1>8, <1>11, <2>1, <2>2, <3>2, <3>4, <4>2 DEF Good
    <3> QED BY <3>2, <3>3, <3>4
  <2>12. CASE SchedReceipt
    <3>1. /\ sched.pc = "receipt" /\ UNCHANGED <<pool, lastPushed>>
          /\ \/ sched' = [sched EXCEPT !.pc = "individual", !.left = Tail(@),
                                       !.succeeded = Append(@, Head(sched.left))]
             \/ sched' = [sched EXCEPT !.pc = "individual", !.left = Tail(@)]
          /\ JustStored(<<Head(sched.left)>>)
      BY <1>3, <2>12 DEF SchedReceipt, Recording, Delivered
    <3>2. /\ sched'.pc = "individual"
          /\ \/ sched'.succeeded = Append(sched.succeeded, Head(sched.left))
             \/ sched'.succeeded = sched.succeeded
      BY <1>0, <3>1 DEF SchedState
    <3>3. Range(sched'.succeeded) \subseteq Range(sched.succeeded) \cup Range(<<Head(sched.left)>>)
      <4>1. Range(Append(sched.succeeded, Head(sched.left)))
              = Range(sched.succeeded) \cup Range(<<Head(sched.left)>>)
        BY <1>0, <1>5, <3>1, RangeOfAppended, RangeOfOne
      <4> QED BY <3>2, <4>1
    <3>4. SchedRecords'
      BY <2>0, <2>6, <3>1, <3>2, <3>3 DEF SchedRecords, JustStored
    <3> QED BY <1>8, <1>11, <2>1, <2>2, <3>1, <3>4 DEF Good
  <2>13. CASE SchedFinish
    <3>1. lastPushed' = Pushed(sched.succeeded) /\ UNCHANGED pool
      BY <2>13 DEF SchedFinish
    <3>2. sched'.pc \in {"read", "sleep"} /\ sched'.succeeded = <<>>
      BY <2>4, <2>13 DEF SchedFinish, SchedStart
    <3>3. PushesAreOlder'
      BY <1>0, <1>3, <2>0, <2>6, <3>1, RecordsAreFounded
    <3> QED BY <1>11, <2>2, <2>3, <3>1, <3>2, <3>3 DEF Good
  <2> QED
    BY <1>14, <2>7, <2>8, <2>9, <2>10, <2>11, <2>12, <2>13 DEF SchedStep
<1>15. CASE MonStep
  <2>0. UNCHANGED <<vault, sched, request, notified, env>>
    BY <1>0, <1>15, MonType
  <2>1. NextSpoke.pc \in {"sleep", "decide"}
    BY DEF NextSpoke, MonStart
  <2>2. ~MonRemove /\ ~MonReset /\ ~MonRestore
    BY <1>4 DEF MonRemove, MonReset, MonRestore
  <2>3. ASSUME UNCHANGED <<oracle, warnings, pool>>,
               mon'.pc \notin {"remove", "reset", "restore", "receipt"}
        PROVE  Standing' /\ Recording'
    <3>1. MonRecords'
      BY <2>3 DEF MonRecords
    <3>2. /\ \A s \in Spoke : oracle'[s].age \in {oracle[s].age, 0}
          /\ \A s \in Spoke : oracle'[s].bps = 0
      BY <1>4, <2>3
    <3>3. Standing'
      BY <1>7, <2>0, <2>3, <3>2
    <3>4. SchedRecords'
      BY <1>12, <2>0, <2>3, <3>2
    <3> QED BY <1>11, <3>1, <3>3, <3>4
  <2>4. CASE MonRead
    <3>1. UNCHANGED <<oracle, warnings, pool, lastPushed>> /\ mon'.pc = "decide"
      BY <2>4 DEF MonRead, MonStart
    <3> QED BY <1>8, <2>3, <3>1 DEF Good
  <2>5. CASE MonDecide
    <3>1. UNCHANGED <<oracle, warnings, pool, lastPushed>> /\ mon.pc = "decide"
      BY <2>5 DEF MonDecide
    <3>2. warnings[Head(mon.todo).spoke] = None
      BY <1>4, <1>5, <3>1
    <3>3. mon' = NextSpoke \/ mon' = [mon EXCEPT !.pc = "send"]
      BY <2>5, <3>2 DEF MonDecide, DecideUnmoved, DecideMoved
    <3>4. mon'.pc \in {"sleep", "decide", "send"}
      BY <1>0, <2>1, <3>3 DEF MonState
    <3> QED BY <1>8, <2>3, <3>1, <3>4 DEF Good
  <2>6. CASE MonSend
    <3> DEFINE tx == [direct |-> TRUE, calls |-> <<Head(mon.todo)>>]
    <3>1. tx \in Tx /\ tx.calls = <<Head(mon.todo)>>
      BY <1>5, <2>6 DEF MonSend, Tx
    <3>2. /\ UNCHANGED <<oracle, warnings, lastPushed>>
          /\ \/ /\ CanSend("mon", tx)
                /\ pool' = [pool EXCEPT !["mon"] = tx]
                /\ mon' = [mon EXCEPT !.pc = "receipt"]
             \/ mon' = NextSpoke /\ UNCHANGED pool
      BY <2>6 DEF MonSend
    <3> HIDE DEF tx
    <3>3. CASE /\ CanSend("mon", tx)
               /\ pool' = [pool EXCEPT !["mon"] = tx]
               /\ mon' = [mon EXCEPT !.pc = "receipt"]
      <4>1. pool'["mon"] = tx /\ pool'["sched"] = pool["sched"]
        BY <1>0, <3>3 DEF Loop
      <4>2. mon'.pc = "receipt" /\ mon'.todo = mon.todo
        BY <1>0, <3>3 DEF MonState
      <4>3. \A l \in Loop : pool'[l] # None => pool'[l] = pool[l] \/ Executable(pool'[l])
        BY <3>3, <4>1 DEF CanSend, Loop
      <4>4. /\ \A s \in Spoke : oracle'[s].age \in {oracle[s].age, 0}
            /\ \A s \in Spoke : oracle'[s].bps = 0
        BY <1>4, <3>2
      <4>5. Standing'
        BY <1>7, <2>0, <3>2, <4>2, <4>3, <4>4
      <4>6. SchedRecords'
        BY <1>12, <2>0, <4>1, <4>4
      <4>7. MonRecords'
        BY <3>1, <4>1, <4>2, NoneIsNoRecord DEF MonRecords, Delivered
      <4> QED BY <1>8, <1>11, <3>2, <4>4, <4>5, <4>6, <4>7 DEF Good
    <3>4. CASE mon' = NextSpoke /\ UNCHANGED pool
      BY <1>8, <2>1, <2>3, <3>2, <3>4 DEF Good
    <3> QED BY <3>2, <3>3, <3>4
  <2>7. CASE MonReceipt
    <3>1. /\ mon.pc = "receipt" /\ mon' = NextSpoke /\ UNCHANGED <<oracle, warnings, pool>>
          /\ lastPushed' = Pushed(<<Head(mon.todo)>>) \/ UNCHANGED lastPushed
          /\ JustStored(<<Head(mon.todo)>>)
      BY <1>3, <2>7 DEF MonReceipt, Recording, Delivered
    <3>2. PushesAreOlder'
      <4>1. CASE lastPushed' = Pushed(<<Head(mon.todo)>>)
        BY <1>3, <1>5, <3>1, <4>1, RecordsAreFounded
      <4>2. CASE UNCHANGED lastPushed
        BY <1>8, <3>1, <4>2
      <4> QED BY <3>1, <4>1, <4>2
    <3> QED BY <2>1, <2>3, <3>1, <3>2 DEF Good
  <2> QED BY <1>15, <2>2, <2>4, <2>5, <2>6, <2>7 DEF MonStep
<1>16. ASSUME NEW l \in Loop, Mine(l)
       PROVE  Good
  <2>1. /\ pool[l] # None /\ pool' = [pool EXCEPT ![l] = None]
        /\ oracle' = Stored(pool[l].calls)
        /\ UNCHANGED <<sched, mon, lastPushed, warnings, request>>
    BY <1>4, <1>16 DEF Mine
  <2> DEFINE mined == pool[l].calls
  <2>2. mined \in Seq(Call)
    BY <1>0, <2>1 DEF Tx
  <2>3. /\ \A s \in Spoke : oracle'[s].bps = 0 /\ oracle'[s].age \in {oracle[s].age, 0}
        /\ \A c \in Range(mined) : oracle'[c.spoke].age = 0
    <3>1. \A c \in Range(mined) : c.spoke \in Spoke
      BY <2>2, SpokesOfCalls
    <3>2. \A s \in Spoke : oracle'[s].bps = oracle[s].bps /\ oracle'[s].age \in {oracle[s].age, 0}
      BY <1>0, <2>1, <2>2, StoredFields
    <3>3. \A s \in Spoke : (\E c \in Range(mined) : c.spoke = s) => oracle'[s].age = 0
      BY <1>0, <2>1, <2>2, StoredFields
    <3> HIDE DEF mined
    <3> QED BY <1>4, <3>1, <3>2, <3>3
  <2>4. pool'[l] = None /\ \A k \in Loop : k # l => pool'[k] = pool[k]
    BY <1>0, <2>1
  <2>5. Standing'
    BY <1>4, <1>7, <2>1, <2>3, <2>4
  <2>6. SchedRecords'
    <3>1. CASE l = "mon"
      BY <1>12, <2>1, <2>3, <2>4, <3>1 DEF Loop
    <3>2. CASE l = "sched"
      <4>1. sched.pc = "batchReceipt" => mined = sched.calls
        BY <1>3, <2>1, <3>2 DEF Recording, Delivered
      <4>2. sched.pc = "receipt" => mined = <<Head(sched.left)>>
        BY <1>3, <2>1, <3>2 DEF Recording, Delivered
      <4>3. \A c \in Range(sched.succeeded) : oracle'[c.spoke].age = 0
        BY <1>10, <2>3
      <4>4. sched.pc \in {"boot", "sleep"} => sched.succeeded = <<>>
        BY <1>3 DEF Recording
      <4>5. \A c \in Range(mined) : oracle'[c.spoke].age = 0
        BY <2>3
      <4> HIDE DEF mined
      <4> QED BY <2>1, <2>4, <3>2, <4>1, <4>2, <4>3, <4>4, <4>5 DEF SchedRecords, Delivered, JustStored
    <3> QED BY <3>1, <3>2 DEF Loop
  <2>7. MonRecords'
    <3>1. CASE l = "sched"
      BY <1>13, <2>1, <2>3, <2>4, <3>1 DEF Loop
    <3>2. CASE l = "mon"
      <4>1. mon.pc = "receipt" => mined = <<Head(mon.todo)>>
        BY <1>3, <2>1, <3>2 DEF Recording, Delivered
      <4>2. \A c \in Range(mined) : oracle'[c.spoke].age = 0
        BY <2>3
      <4> HIDE DEF mined
      <4> QED BY <2>1, <2>4, <3>2, <4>1, <4>2 DEF MonRecords, Delivered, JustStored
    <3> QED BY <3>1, <3>2 DEF Loop
  <2> QED BY <1>8, <1>11, <2>1, <2>3, <2>5, <2>6, <2>7 DEF Good
<1>17. ASSUME UNCHANGED <<pool, sched, mon, lastPushed, warnings, request>>,
              \A s \in Spoke : oracle'[s].bps = 0 /\ oracle'[s].age \in {oracle[s].age, 0}
       PROVE  Good
  BY <1>4, <1>7, <1>8, <1>11, <1>12, <1>13, <1>17 DEF Good
<1>18. CASE UNCHANGED <<oracle, pool, sched, mon, lastPushed, warnings, request>>
  BY <1>4, <1>17, <1>18
<1>19. ASSUME NEW s \in Spoke, OtherKeeperPushes(s)
       PROVE  Good
  <2> DEFINE pushed == <<[spoke |-> s, value |-> vault[s]]>>
  <2>1. vault[s] \in Reported
    BY <1>0, Bounds DEF TypeOK
  <2>2. pushed \in Seq(Call)
    BY <2>1 DEF Call
  <2>3. oracle' = Stored(pushed) /\ UNCHANGED <<pool, sched, mon, lastPushed, warnings, request>>
    BY <1>19 DEF OtherKeeperPushes
  <2> HIDE DEF pushed
  <2>4. \A r \in Spoke : oracle'[r].bps = oracle[r].bps /\ oracle'[r].age \in {oracle[r].age, 0}
    BY <1>0, <2>2, <2>3, StoredFields
  <2> QED BY <1>4, <1>17, <2>3, <2>4
<1>20. CASE Restart
  <2>1. /\ UNCHANGED <<pool, oracle>> /\ \A s \in Spoke : lastPushed'[s] = None /\ warnings'[s] = None
        /\ request' = None /\ mon'.pc = "sleep"
    BY <1>20 DEF Restart, MonStart
  <2>2. sched'.pc = "boot" /\ sched'.succeeded = <<>>
    BY <1>20 DEF Restart, Booting, SchedStart
  <2>3. Standing'
    <3>1. \A s \in Spoke : oracle'[s].bps = 0
      BY <1>4, <2>1
    <3>2. ASSUME NEW l \in Loop, pool[l] # None
          PROVE  \A c \in Range(pool[l].calls) :
                   Passes(c)' /\ (pool[l].direct => c.spoke \in env'.listed)
      <4>1. pool[l] \in Tx /\ Executable(pool[l])
        BY <1>0, <1>4, <3>2
      <4> QED BY <1>1, <3>1, <4>1, StaysExecutable
    <3> QED BY <2>1, <3>1, <3>2 DEF Standing, Executable
  <2>4. SchedRecords' /\ MonRecords'
    BY <2>1, <2>2 DEF SchedRecords, MonRecords, JustStored, Range
  <2>5. PushesAreOlder'
    BY <2>1 DEF PushesAreOlder
  <2> QED BY <1>11, <2>3, <2>4, <2>5 DEF Good
<1>21. CASE Tick
  <2>1. /\ UNCHANGED <<pool, mon, request, env>> /\ sched.pc \in {"boot", "sleep"} /\ mon.pc = "sleep"
        /\ \A l \in Loop : pool[l] = None
        /\ sched' = [sched EXCEPT !.timer = @ - 1]
        /\ oracle' = [s \in Spoke |-> [oracle[s] EXCEPT !.age = Older(@, OracleAgeCap)]]
        /\ lastPushed' = [s \in Spoke |-> AgedEntry(lastPushed[s], SkipIfFresh)]
        /\ warnings' = [s \in Spoke |-> AgedEntry(warnings[s], WarningAgeCap)]
    BY <1>21 DEF Tick, Quiet
  <2>2. sched'.pc = sched.pc /\ sched'.succeeded = sched.succeeded
    BY <1>0, <2>1 DEF SchedState
  <2>3. \A s \in Spoke : oracle'[s].bps = oracle[s].bps /\ oracle'[s].age = Older(oracle[s].age, OracleAgeCap)
    BY <1>0, <2>1 DEF OracleRecord
  <2>4. \A s \in Spoke : oracle[s].age \in Nat /\ oracle'[s].age \in Nat /\ oracle'[s].age <= oracle[s].age + 1
    BY <1>0, <2>3, Bounds DEF OracleRecord, Older
  <2>5. Standing'
    BY <1>4, <2>1, <2>3 DEF Standing, AgedEntry
  <2>6. SchedRecords' /\ MonRecords'
    BY <1>3, <2>1, <2>2 DEF Recording, SchedRecords, MonRecords, JustStored, Range
  <2>7. PushesAreOlder'
    <3>1. SUFFICES ASSUME NEW s \in Spoke, lastPushed[s] # None
                   PROVE  \/ lastPushed'[s].age >= SkipIfFresh
                          \/ oracle'[s].age <= lastPushed'[s].age
      BY <2>1 DEF PushesAreOlder, AgedEntry
    <3>2. lastPushed[s] \in PushRecord /\ lastPushed[s].age \in Nat
      BY <1>0, <3>1, Bounds DEF PushRecord
    <3>3. lastPushed'[s].age = Older(lastPushed[s].age, SkipIfFresh)
      BY <2>1, <3>1, <3>2 DEF AgedEntry, PushRecord
    <3>4. lastPushed[s].age >= SkipIfFresh \/ oracle[s].age <= lastPushed[s].age
      BY <1>3, <3>1 DEF PushesAreOlder
    <3> QED BY <2>4, <3>2, <3>3, <3>4, Bounds DEF Older
  <2> QED BY <1>11, <2>5, <2>6, <2>7 DEF Good
<1>22. ~RequestStep
  BY <1>3, <1>4
  DEF RequestStep, CuratorBridgeWarning, PeerBridgeWarning, HandlerStep, ReadBreaker,
      DisableBreaker, PeerReadBreaker, SpawnedDisable, InsertWarning, DropRequest
<1> QED
  BY <1>14, <1>15, <1>16, <1>18, <1>19, <1>20, <1>21, <1>22
  DEF Next, vars, RequestStep, VaultMoves, PostUpdate, PeerLooksStale

(* A spoke is skipped for a reason only: while the breakers are off, an     *)
(* oracle is at least as fresh as the keeper's record of its own last push  *)
(* says, whichever of the two loops pushed, waited for a receipt or         *)
(* recorded in between, whatever calls failed or receipts were lost, and    *)
(* whatever other keepers, restarts and the drift check did.                *)
THEOREM SkipsAreFounded == Spec => []SkipIsFounded
<1>1. Init => Founded
  <2>1. SUFFICES ASSUME Init, BreakersOff
                 PROVE  Standing /\ Recording /\ PushesAreOlder
    BY DEF Founded
  <2>2. /\ \A s \in Spoke : oracle[s] = [stored |-> vault[s], age |-> 0, bps |-> env.breaker]
        /\ \A s \in Spoke : lastPushed[s] = None /\ warnings[s] = None
        /\ request = None /\ mon.pc = "sleep" /\ \A l \in Loop : pool[l] = None
        /\ sched.pc = "boot" /\ sched.succeeded = <<>> /\ env.breaker = 0
    BY <2>1 DEF Init, BreakersOff, MonStart, Booting, SchedStart
  <2>3. ASSUME NEW s \in Spoke
        PROVE  oracle[s].bps = 0
    <3>1. oracle[s] = [stored |-> vault[s], age |-> 0, bps |-> env.breaker]
      BY <2>2
    <3> QED BY <2>2, <3>1
  <2> QED BY <2>2, <2>3 DEF Standing, Recording, PushesAreOlder, JustStored, Range
<1>2. Typed /\ Founded /\ [Next]_vars => Founded'
  BY NextFounded
<1>3. Typed /\ Founded => SkipIsFounded
  <2>1. SUFFICES ASSUME Typed, Founded, BreakersOff, NEW s \in Spoke, Fresh(s)
                 PROVE  oracle[s].age <= lastPushed[s].age
    BY DEF SkipIsFounded
  <2>2. lastPushed[s] # None /\ lastPushed[s].age < SkipIfFresh
    BY <2>1 DEF Fresh
  <2>3. lastPushed[s].age \in Nat /\ SkipIfFresh \in Nat
    BY <2>1, <2>2, Bounds DEF Typed, TypeOK, PushRecord
  <2>4. lastPushed[s].age >= SkipIfFresh \/ oracle[s].age <= lastPushed[s].age
    BY <2>1, <2>2 DEF Founded, PushesAreOlder
  <2> QED BY <2>2, <2>3, <2>4
<1> QED BY <1>1, <1>2, <1>3, TypedAlways, PTL DEF Spec

-----------------------------------------------------------------------------
(* Between the decision to end a warning and its removal another may take   *)
(* its place, but none that is a tick old.                                  *)
Justified(c) ==
  LET w == warnings[c.spoke]
  IN  w # None /\ w.age > 0 => TimedOut(w) \/ Completed(w, c.value)

Cause == mon.pc = "remove" => Justified(Head(mon.todo))

LEMMA NextCause ==
  ASSUME Typed, Cause, [Next]_vars
  PROVE  Cause'
<1>0. /\ TypeOK /\ AtHand /\ mon \in MonState
      /\ warnings \in [Spoke -> Warning \cup {None}]
  BY DEF Typed, TypeOK
<1>1. CASE UNCHANGED <<warnings, mon>>
  BY <1>1 DEF Cause, Justified
<1>2. CASE SchedStep
  BY <1>0, <1>1, <1>2, SchedType
<1>3. CASE MonStep
  <2>1. CASE MonDecide
    <3> DEFINE c == Head(mon.todo)
    <3>1. UNCHANGED warnings
      BY <2>1 DEF MonDecide
    <3>2. \/ mon'.pc # "remove"
          \/ /\ TimedOut(warnings[c.spoke]) \/ Completed(warnings[c.spoke], c.value)
             /\ mon'.todo = mon.todo
      <4>1. NextSpoke.pc # "remove"
        BY DEF NextSpoke, MonStart
      <4>2. [mon EXCEPT !.pc = "send"].pc # "remove"
        BY <1>0 DEF MonState
      <4>3. ASSUME NEW p, EndWarning(c, p)
            PROVE  mon'.todo = mon.todo
        BY <1>0, <4>3 DEF EndWarning, MonState
      <4> QED
        BY <2>1, <4>1, <4>2, <4>3 DEF MonDecide, DecideUnmoved, DecideBridged, DecideMoved
    <3> QED BY <3>1, <3>2 DEF Cause, Justified
  <2>2. CASE ~MonDecide
    <3>1. NextSpoke.pc # "remove" /\ AfterWarning.pc # "remove"
      BY <1>0 DEF NextSpoke, AfterWarning, MonStart, MonState
    <3>2. MonRead => mon'.pc = "decide"
      BY DEF MonRead, MonStart
    <3>3. MonRemove => mon'.pc = "reset"
      BY <1>0 DEF MonRemove, MonState
    <3>4. MonReset => mon'.pc # "remove"
      BY <1>0, <3>1 DEF MonReset, MonState
    <3>5. MonRestore \/ MonReceipt => mon'.pc # "remove"
      BY <3>1 DEF MonRestore, MonReceipt
    <3>6. MonSend => mon'.pc # "remove"
      BY <1>0, <3>1 DEF MonSend, MonState
    <3> QED BY <1>3, <2>2, <3>2, <3>3, <3>4, <3>5, <3>6 DEF MonStep, Cause
  <2> QED BY <2>1, <2>2
<1>4. CASE RequestStep
  <2>1. /\ UNCHANGED mon
        /\ \/ UNCHANGED warnings
           \/ \E s \in Spoke, w \in Warning :
                w.age = 0 /\ warnings' = [warnings EXCEPT ![s] = w]
    BY <1>0, <1>4, RequestType
  <2>2. ASSUME NEW s \in Spoke, NEW w \in Warning, w.age = 0,
               warnings' = [warnings EXCEPT ![s] = w], NEW c, Justified(c), c.spoke \in Spoke
        PROVE  LET v == warnings'[c.spoke]
               IN  v # None /\ v.age > 0 => TimedOut(v) \/ Completed(v, c.value)
    <3>1. CASE c.spoke = s
      <4>1. warnings'[c.spoke].age = 0
        BY <1>0, <2>2, <3>1
      <4> QED BY <4>1
    <3>2. CASE c.spoke # s
      <4>1. warnings'[c.spoke] = warnings[c.spoke]
        BY <1>0, <2>2, <3>2
      <4> QED BY <2>2, <4>1 DEF Justified
    <3> QED BY <3>1, <3>2
  <2>3. mon.pc = "remove" => Head(mon.todo).spoke \in Spoke
    <3>1. mon.pc = "remove" => Head(mon.todo) \in Call
      BY <1>0, HeadAndTail DEF AtHand, MonAtHand, MonState
    <3> QED BY <3>1 DEF Call
  <2>4. CASE UNCHANGED warnings
    BY <1>1, <2>1, <2>4
  <2>5. CASE \E s \in Spoke, w \in Warning :
               w.age = 0 /\ warnings' = [warnings EXCEPT ![s] = w]
    <3>1. PICK s \in Spoke, w \in Warning :
            w.age = 0 /\ warnings' = [warnings EXCEPT ![s] = w]
      BY <2>5
    <3>2. ASSUME mon.pc = "remove"
          PROVE  LET c == Head(mon.todo)
                     v == warnings'[c.spoke]
                 IN  v # None /\ v.age > 0 => TimedOut(v) \/ Completed(v, c.value)
      <4>1. Justified(Head(mon.todo))
        BY <3>2 DEF Cause
      <4> QED BY <2>2, <2>3, <3>1, <3>2, <4>1
    <3> QED BY <2>1, <3>2 DEF Cause, Justified, TimedOut, Completed
  <2> QED BY <2>1, <2>4, <2>5
<1>5. CASE Restart
  BY <1>5 DEF Restart, MonStart, Cause
<1>6. CASE Tick
  <2>1. UNCHANGED mon /\ mon.pc = "sleep"
    BY <1>6 DEF Tick, Quiet
  <2> QED BY <2>1 DEF Cause
<1> QED
  BY <1>1, <1>2, <1>3, <1>4, <1>5, <1>6
  DEF Next, vars, RequestStep, Mine, VaultMoves, OtherKeeperPushes, PostUpdate, PeerLooksStale

(* The monitor ends a warning for a cause, however many come and however    *)
(* they replace one another: it takes what it decided on seconds ago, with  *)
(* the mutex released in between, for what is in the store, and so may also *)
(* hit a warning that has just replaced it, but never one that has stood    *)
(* for a tick.                                                              *)
THEOREM WarningsEndForCause == Spec => WarningEndsForCause
<1> DEFINE A == mon.pc = "remove" /\ mon'.pc = "reset" =>
                  LET c == Head(mon.todo)
                      w == warnings[c.spoke]
                  IN  w # None /\ w.age > 0 => TimedOut(w) \/ Completed(w, c.value)
<1>1. Init => Cause
  BY DEF Init, Cause, MonStart
<1>2. Typed /\ Cause /\ [Next]_vars => Cause'
  BY NextCause
<1>3. Cause /\ [Next]_vars => [A]_vars
  BY DEF Cause, Justified
<1> QED BY <1>1, <1>2, <1>3, TypedAlways, PTL DEF Spec, WarningEndsForCause

-----------------------------------------------------------------------------
(* The ages of the oracles that the scheduled loop alone keeps up to date:  *)
(* every transaction renews them all, and a cycle that ends without one     *)
(* found them younger than the staleness check or the skip window asks for. *)
Covers(calls) == \A s \in Spoke : \E c \in Range(calls) : c.spoke = s

Renewed == \A s \in Spoke : oracle[s].age = 0

Recent == Max2(MinUpdateInterval, SkipIfFresh)

Undisturbed ==
  /\ ~env.others /\ env.warners = {} /\ request = None
  /\ Len(Spokes) > 1 \/ env.listed = Spoke
  /\ \A s \in Spoke : oracle[s].bps = 0
  /\ StalenessThreshold >= Recent + (env.restarts + 1) * UpdateInterval

SameAges ==
  /\ \A s, r \in Spoke : oracle[s].age = oracle[r].age
  /\ \A s, r \in Spoke : lastPushed[s] # None =>
       lastPushed[r] # None /\ lastPushed[r].age = lastPushed[s].age

(* Whatever restarts are to come, the loop is back in time. *)
Room ==
  \A s \in Spoke :
    oracle[s].age + sched.timer + env.restarts * UpdateInterval < StalenessThreshold

Sending ==
  pool["sched"] # None =>
    Covers(pool["sched"].calls) /\ (pool["sched"].direct => env.listed = Spoke)

Cycling ==
  /\ sched.pc \in {"staleness", "select", "batch", "batchReceipt"} => Covers(sched.calls)
  /\ sched.pc \in {"individual", "receipt"} /\ sched.left # <<>> =>
       env.listed = Spoke /\ Len(sched.left) = 1 /\ Covers(<<Head(sched.left)>>)
  /\ sched.pc \in {"batchReceipt", "receipt"} /\ pool["sched"] = None => Renewed
  /\ sched.pc = "individual" /\ sched.left = <<>> => Renewed /\ Covers(sched.succeeded)

Timely ==
  Calm /\ ~env.drift =>
    Undisturbed /\ SameAges /\ PushesAreOlder /\ Room /\ Sending /\ Cycling

LEMMA SomeSpoke == Spokes \in Seq(Spoke) /\ Spokes[1] \in Spoke /\ Len(Spokes) >= 1
<1>1. Spokes \in Seq(Spoke) /\ Spokes # <<>>
  BY KeeperAssumption
<1> QED BY <1>1

LEMMA CoveringIsNotEmpty ==
  ASSUME NEW calls, Covers(calls)
  PROVE  calls # <<>>
BY SomeSpoke DEF Covers, Range

LEMMA AllRead ==
  ASSUME NEW reports
  PROVE  Covers(Resolved({}, reports))
<1> DEFINE keep == {i \in DOMAIN Spokes : Spokes[i] \in {} => Usable(reports[Spokes[i]]) # <<>>}
           known == Filtered(Spokes, keep)
           r == Resolved({}, reports)
<1>1. Spokes \in Seq(Spoke) /\ keep = 1 .. Len(Spokes)
  BY SomeSpoke
<1>2. r = [i \in DOMAIN known |->
            [spoke |-> known[i],
             value |-> IF known[i] \in {} THEN Usable(reports[known[i]])[1] ELSE vault[known[i]]]]
  BY DEF Resolved
<1> HIDE DEF keep, r
<1>3. \A i \in 1 .. Len(Spokes) : i \in keep => \E j \in 1 .. Len(known) : known[j] = Spokes[i]
  BY <1>1, FilteredHas
<1>4. known \in Seq(Spoke)
  BY <1>1, FilteredElements
<1> HIDE DEF known
<1>5. SUFFICES ASSUME NEW s \in Spoke
               PROVE  \E c \in Range(r) : c.spoke = s
  BY DEF Covers, r
<1>6. PICK i \in 1 .. Len(Spokes) : Spokes[i] = s
  BY <1>1 DEF Spoke, Range
<1>7. PICK j \in 1 .. Len(known) : known[j] = s
  BY <1>1, <1>3, <1>6
<1>8. j \in DOMAIN r /\ r[j].spoke = s
  BY <1>2, <1>4, <1>7
<1> QED BY <1>8 DEF Range

(* A covering transaction that is executed renews every oracle. *)
LEMMA MiningRenews ==
  ASSUME TypeOK, NEW calls \in Seq(Call), Covers(calls), oracle' = Stored(calls)
  PROVE  \A s \in Spoke : oracle'[s].age = 0 /\ oracle'[s].bps = oracle[s].bps
<1> SUFFICES ASSUME NEW s \in Spoke
             PROVE  oracle'[s].age = 0 /\ oracle'[s].bps = oracle[s].bps
  OBVIOUS
<1> DEFINE v == (CHOOSE c \in Range(calls) : c.spoke = s).value
<1>1. oracle[s] \in OracleRecord
  BY DEF TypeOK, OracleRecord
<1>2. oracle'[s] = [oracle[s] EXCEPT !.stored = v, !.age = 0]
  BY DEF Stored, Covers
<1> HIDE DEF v
<1> QED BY <1>1, <1>2 DEF OracleRecord

LEMMA PushingRenews ==
  ASSUME TypeOK, NEW calls \in Seq(Call), Covers(calls), lastPushed' = Pushed(calls),
         NEW s \in Spoke
  PROVE  lastPushed'[s] # None /\ lastPushed'[s].age = 0
<1> DEFINE v == (CHOOSE c \in Range(calls) : c.spoke = s).value
<1>1. lastPushed'[s] = [value |-> v, age |-> 0]
  BY DEF Covers, Pushed
<1>a. \E c \in Range(calls) : c.spoke = s
  BY DEF Covers
<1>2. v \in Reported
  BY <1>a, ValueCalledFor
<1> HIDE DEF v
<1>3. 0 \in 0 .. SkipIfFresh
  BY Bounds
<1>4. [value |-> v, age |-> 0] \in PushRecord
  BY <1>2, <1>3 DEF PushRecord
<1> QED BY <1>1, <1>4, NoneIsNoRecord

(* With all of them fresh, or none, a cycle pushes nothing or everything.   *)
LEMMA AllOrNothing ==
  ASSUME Typed, ~env.drift, SameAges, Covers(sched.calls)
  PROVE  LET stale  == Filtered(sched.calls, {i \in DOMAIN sched.calls : ~Fresh(sched.calls[i].spoke)})
             passed == Filtered(stale, {i \in DOMAIN stale : DriftLetsThrough(stale[i])})
         IN  /\ passed \in Seq(Call)
             /\ passed = <<>> => \A s \in Spoke : Fresh(s)
             /\ passed # <<>> => Covers(passed)
<1> DEFINE old == {i \in DOMAIN sched.calls : ~Fresh(sched.calls[i].spoke)}
           stale == Filtered(sched.calls, old)
           free == {i \in DOMAIN stale : DriftLetsThrough(stale[i])}
           passed == Filtered(stale, free)
<1>00. SUFFICES /\ passed \in Seq(Call)
                /\ passed = <<>> => \A s \in Spoke : Fresh(s)
                /\ passed # <<>> => Covers(passed)
  OBVIOUS
<1>0. sched.calls \in Seq(Call) /\ DOMAIN sched.calls = 1 .. Len(sched.calls)
  BY DEF Typed, TypeOK, SchedState
<1>1. \A s, r \in Spoke : Fresh(s) => Fresh(r)
  BY DEF SameAges, Fresh
<1>2. \A i \in 1 .. Len(sched.calls) : i \in old <=> ~Fresh(sched.calls[i].spoke)
  BY <1>0
<1> HIDE DEF old
<1>4. stale \in Seq(Call)
  BY <1>0, FilteredElements
<1>5. \A i \in 1 .. Len(sched.calls) : i \in old =>
        \E j \in 1 .. Len(stale) : stale[j] = sched.calls[i]
  BY <1>0, FilteredHas
<1>6. \A j \in 1 .. Len(stale) : \E i \in 1 .. Len(sched.calls) : i \in old /\ stale[j] = sched.calls[i]
  BY <1>0, FilteredFrom
<1> HIDE DEF stale
<1>7. free = 1 .. Len(stale)
  <2>1. DOMAIN stale = 1 .. Len(stale)
    BY <1>4
  <2> QED BY <2>1 DEF DriftLetsThrough
<1> HIDE DEF free
<1>8. passed \in Seq(Call)
  BY <1>4, FilteredElements
<1>9. \A i \in 1 .. Len(stale) : i \in free => \E j \in 1 .. Len(passed) : passed[j] = stale[i]
  BY <1>4, FilteredElements
<1>10. \A j \in 1 .. Len(passed) : \E i \in 1 .. Len(stale) : i \in free /\ passed[j] = stale[i]
  BY <1>4, FilteredElements
<1> HIDE DEF passed
<1>11. CASE \A s \in Spoke : Fresh(s)
  <2>1. SUFFICES passed = <<>>
    BY <1>8, <1>11
  <2>2. \A i \in 1 .. Len(sched.calls) : sched.calls[i].spoke \in Spoke
    <3>1. \A i \in 1 .. Len(sched.calls) : sched.calls[i] \in Call
      BY <1>0
    <3> QED BY <3>1 DEF Call
  <2>3. ~ \E j \in 1 .. Len(stale) : TRUE
    BY <1>2, <1>6, <1>11, <2>2
  <2>4. ~ \E j \in 1 .. Len(passed) : TRUE
    BY <1>10, <2>3
  <2>5. Len(passed) \in Nat
    BY <1>8
  <2>6. Len(passed) = 0
    BY <2>4, <2>5
  <2> QED BY <1>8, <2>6
<1>12. CASE ~ \A s \in Spoke : Fresh(s)
  <2>1. \A s \in Spoke : ~Fresh(s)
    BY <1>1, <1>12
  <2>2. ASSUME NEW s \in Spoke
        PROVE  \E c \in Range(passed) : c.spoke = s
    <3>1. PICK c \in Range(sched.calls) : c.spoke = s
      BY DEF Covers
    <3>2. PICK i \in 1 .. Len(sched.calls) : c = sched.calls[i]
      BY <1>0, <3>1 DEF Range
    <3>3. i \in old
      BY <1>2, <2>1, <3>1, <3>2
    <3>4. PICK j \in 1 .. Len(stale) : stale[j] = c
      BY <1>5, <3>2, <3>3
    <3>5. PICK m \in 1 .. Len(passed) : passed[m] = c
      BY <1>7, <1>9, <3>4
    <3> QED BY <1>8, <3>1, <3>5 DEF Range
  <2>3. Covers(passed)
    BY <2>2 DEF Covers
  <2> QED BY <1>8, <2>3, CoveringIsNotEmpty
<1> QED BY <1>11, <1>12

LEMMA NextTimely ==
  ASSUME Typed, Alone, Timely, [Next]_vars, EarlyPushThreshold = 0, Unreadable = {},
         Recent > 0
  PROVE  Timely'
<1>0. /\ TypeOK /\ AtHand /\ sched \in SchedState /\ pool \in [Loop -> Tx \cup {None}]
      /\ sched.calls \in Seq(Call) /\ sched.left \in Seq(Call) /\ sched.succeeded \in Seq(Call)
      /\ env \in Environment /\ oracle \in [Spoke -> OracleRecord]
      /\ lastPushed \in [Spoke -> PushRecord \cup {None}]
      /\ Scheduling(sched) /\ pool["mon"] = None
  BY DEF Typed, TypeOK, SchedState, Alone, OracleRecord, PushRecord
<1>1. ~MonStep
  BY NextAlone
<1>2. /\ env' \in Environment /\ env'.reliable = env.reliable /\ env'.drift = env.drift
      /\ env'.breaker = env.breaker /\ env'.others = env.others /\ env'.warners = env.warners
      /\ env'.restarts <= env.restarts /\ env'.listed = env.listed
  BY <1>0, SurroundingsStay
<1>3. Calm' = Calm
  BY <1>2 DEF Calm, Reliable, BreakersOff
<1>4. SUFFICES ASSUME Calm, ~env.drift
               PROVE  Undisturbed' /\ SameAges' /\ PushesAreOlder' /\ Room' /\ Sending' /\ Cycling'
  BY <1>2, <1>3 DEF Timely
<1>5. /\ Undisturbed /\ SameAges /\ PushesAreOlder /\ Room /\ Sending /\ Cycling
      /\ ~FlowMayFail
  BY <1>4 DEF Timely, Calm, Reliable, FlowMayFail
<1>6. /\ UpdateInterval \in Nat /\ UpdateInterval > 0 /\ Recent \in Nat /\ Recent >= 1
      /\ MinUpdateInterval \in Nat /\ SkipIfFresh \in Nat
      /\ Recent >= MinUpdateInterval /\ Recent >= SkipIfFresh
      /\ StalenessThreshold \in Nat
  BY Bounds DEF Recent, Max2
<1>7. /\ env.restarts \in Nat /\ env'.restarts \in Nat /\ sched.timer \in Nat
      /\ \A s \in Spoke : oracle[s].age \in Nat
  BY <1>0, <1>2 DEF Environment, SchedState, OracleRecord
<1>8. request' = None
  <2>1. ~RequestStep
    BY <1>5
    DEF Undisturbed, RequestStep, CuratorBridgeWarning, PeerBridgeWarning, HandlerStep, ReadBreaker,
        DisableBreaker, PeerReadBreaker, SpawnedDisable, InsertWarning, DropRequest
  <2>2. SchedStep => UNCHANGED request
    BY <1>0, SchedType
  <2> QED
    BY <1>1, <1>5, <2>1, <2>2
    DEF Undisturbed, Next, vars, RequestStep, Mine, VaultMoves, OtherKeeperPushes, PostUpdate,
        PeerLooksStale, Restart, Tick
<1>9. StalenessThreshold >= Recent + (env'.restarts + 1) * UpdateInterval
  <2> DEFINE a == env.restarts
             b == env'.restarts
  <2>1. StalenessThreshold >= Recent + (a + 1) * UpdateInterval
    BY <1>5 DEF Undisturbed
  <2>2. a \in Nat /\ b \in Nat /\ b <= a
    BY <1>2, <1>7
  <2> HIDE DEF a, b
  <2>3. (b + 1) * UpdateInterval <= (a + 1) * UpdateInterval
    BY <1>6, <2>2
  <2>4. (b + 1) * UpdateInterval \in Nat /\ (a + 1) * UpdateInterval \in Nat
    BY <1>6, <2>2
  <2>5. StalenessThreshold >= Recent + (b + 1) * UpdateInterval
    BY <1>6, <2>1, <2>3, <2>4
  <2> QED BY <2>5 DEF b
<1>10. ASSUME \A s \in Spoke : oracle'[s].bps = 0
       PROVE  Undisturbed'
  BY <1>2, <1>5, <1>8, <1>9, <1>10 DEF Undisturbed, Recent
<1> DEFINE Good == Undisturbed' /\ SameAges' /\ PushesAreOlder' /\ Room' /\ Sending' /\ Cycling'
<1>11. SUFFICES Good
  OBVIOUS
<1> HIDE DEF Good
<1>12. ASSUME UNCHANGED <<oracle, pool, lastPushed, sched>>, env'.restarts = env.restarts
       PROVE  Good
  BY <1>2, <1>5, <1>10, <1>12
  DEF Good, Undisturbed, SameAges, PushesAreOlder, Room, Sending, Cycling, Renewed
<1>13. CASE SchedStep
  <2>0. UNCHANGED <<oracle, env>> /\ sched' \in SchedState
    BY <1>0, <1>13, SchedType
  <2>1. Undisturbed'
    BY <1>5, <1>10, <2>0 DEF Undisturbed
  <2> DEFINE e == env.restarts * UpdateInterval
  <2>2. e \in Nat /\ StalenessThreshold >= Recent + (e + UpdateInterval)
    <3>1. (env.restarts + 1) * UpdateInterval = e + UpdateInterval /\ e \in Nat
      BY <1>6, <1>7
    <3> HIDE DEF e
    <3> QED BY <1>5, <3>1 DEF Undisturbed
  <2>3. ASSUME UNCHANGED <<pool, lastPushed>>, sched'.timer <= sched.timer, Cycling'
        PROVE  Good
    <3>1. SameAges' /\ PushesAreOlder' /\ Sending'
      BY <1>2, <1>5, <2>0, <2>3 DEF SameAges, PushesAreOlder, Sending
    <3>2. \A s \in Spoke : oracle[s].age + sched.timer + e < StalenessThreshold
      BY <1>5 DEF Room
    <3>3. sched'.timer \in Nat
      BY <2>0 DEF SchedState
    <3>4. Room'
      <4> HIDE DEF e
      <4>1. \A s \in Spoke : oracle[s].age + sched'.timer + e < StalenessThreshold
        <5> SUFFICES ASSUME NEW s \in Spoke
                     PROVE  oracle[s].age + sched'.timer + e < StalenessThreshold
          OBVIOUS
        <5> DEFINE a == oracle[s].age
                   t == sched.timer
                   u == sched'.timer
        <5>1. a \in Nat /\ t \in Nat /\ u \in Nat /\ u <= t /\ e \in Nat
          BY <1>6, <1>7, <2>2, <2>3, <3>3
        <5>2. a + t + e < StalenessThreshold
          BY <3>2
        <5> HIDE DEF a, t, u
        <5>3. a + u + e < StalenessThreshold
          BY <5>1, <5>2, Bounds
        <5> QED BY <5>3 DEF a, u
      <4> QED BY <2>0, <4>1 DEF Room, e
    <3> QED BY <2>1, <2>3, <3>1, <3>4 DEF Good
  <2>4. ASSUME UNCHANGED pool, EndCycle, SameAges', PushesAreOlder',
               \A s \in Spoke : oracle[s].age < Recent
        PROVE  Good
    <3>1. sched'.pc = "sleep" /\ sched'.timer = UpdateInterval
      BY <2>4 DEF EndCycle, SchedStart
    <3>2. Room'
      <4> HIDE DEF e
      <4>1. \A s \in Spoke : oracle[s].age + UpdateInterval + e < StalenessThreshold
        BY <1>6, <1>7, <2>2, <2>4
      <4> QED BY <2>0, <3>1, <4>1 DEF Room, e
    <3>3. Sending' /\ Cycling'
      BY <1>2, <1>5, <2>4, <3>1 DEF Sending, Cycling
    <3> QED BY <2>1, <2>4, <3>2, <3>3 DEF Good
  <2>5. UNCHANGED lastPushed => SameAges' /\ PushesAreOlder'
    BY <1>5, <2>0 DEF SameAges, PushesAreOlder
  <2>6. ASSUME NEW calls \in Seq(Call), Covers(calls), Renewed, lastPushed' = Pushed(calls),
               UNCHANGED pool, EndCycle
        PROVE  Good
    <3>1. \A s \in Spoke : lastPushed'[s] # None /\ lastPushed'[s].age = 0
      BY <1>0, <2>6, PushingRenews
    <3>2. SameAges' /\ PushesAreOlder'
      BY <1>5, <2>0, <2>6, <3>1 DEF SameAges, PushesAreOlder, Renewed
    <3>3. \A s \in Spoke : oracle[s].age < Recent
      BY <1>6, <2>6 DEF Renewed
    <3> QED BY <2>4, <2>6, <3>2, <3>3
  <2>7. ASSUME NEW tx \in Tx, Covers(tx.calls), tx.direct => env.listed = Spoke
        PROVE  /\ Executable(tx) /\ ~SendFails(tx) /\ tx # None
               /\ pool' = [pool EXCEPT !["sched"] = tx] => pool'["sched"] = tx /\ Sending'
    <3>1. \A i \in 1 .. Len(tx.calls) : tx.calls[i] \in Call
      BY DEF Tx
    <3>2. \A c \in Range(tx.calls) : c.spoke \in Spoke
      BY <3>1 DEF Range, Call, Tx
    <3>3. Executable(tx)
      BY <1>5, <2>7, <3>2 DEF Executable, Passes, Undisturbed
    <3>4. pool' = [pool EXCEPT !["sched"] = tx] => pool'["sched"] = tx /\ Sending'
      BY <1>0, <1>2, <2>7 DEF Loop, Sending, Covers
    <3> QED BY <1>5, <3>3, <3>4, NoneIsNoRecord DEF SendFails
  <2>8. ASSUME Sending', Cycling', UNCHANGED lastPushed, sched'.timer = sched.timer
        PROVE  Good
    <3>1. Room'
      BY <1>5, <2>0, <2>8 DEF Room
    <3> QED BY <2>1, <2>5, <2>8, <3>1 DEF Good
  <2> HIDE DEF e
  <2>9. CASE SchedBoot \/ SchedWake
    <3>1. UNCHANGED <<pool, lastPushed>> /\ sched'.pc = "read" /\ sched'.timer = 0
      BY <2>9 DEF SchedBoot, SchedWake, SchedStart
    <3> QED BY <1>7, <2>3, <3>1 DEF Cycling
  <2>10. CASE SchedRead
    <3>1. PICK failed \in SUBSET Unreadable :
            \E reports \in [failed -> PeerReports] :
              sched' = [sched EXCEPT !.pc = "staleness", !.calls = Resolved(failed, reports)]
      BY <2>10 DEF SchedRead
    <3>2. failed = {}
      OBVIOUS
    <3>3. PICK reports \in [failed -> PeerReports] :
            sched' = [sched EXCEPT !.pc = "staleness", !.calls = Resolved({}, reports)]
      BY <3>1, <3>2
    <3> DEFINE r == Resolved({}, reports)
    <3>4. Covers(r)
      BY AllRead
    <3> HIDE DEF r
    <3>5. sched'.pc = "staleness" /\ sched'.timer = sched.timer /\ sched'.calls = r
      BY <1>0, <3>3 DEF SchedState, r
    <3>6. Cycling'
      BY <3>4, <3>5 DEF Cycling, Covers
    <3> QED BY <1>7, <2>3, <2>10, <3>5, <3>6 DEF SchedRead
  <2>11. CASE SchedStaleness
    <3>1. sched.pc = "staleness" /\ UNCHANGED <<pool, lastPushed>> /\ sched.calls # <<>>
      BY <1>5, <2>11, CoveringIsNotEmpty DEF SchedStaleness, Cycling
    <3>2. \/ oracle[Spokes[1]].age < MinUpdateInterval /\ EndCycle
          \/ sched' = [sched EXCEPT !.pc = "select"]
      BY <2>11, <3>1 DEF SchedStaleness
    <3>3. CASE oracle[Spokes[1]].age < MinUpdateInterval /\ EndCycle
      <4>1. \A s \in Spoke : oracle[s].age = oracle[Spokes[1]].age
        BY <1>5, SomeSpoke DEF SameAges
      <4>2. \A s \in Spoke : oracle[s].age < Recent
        BY <1>6, <1>7, <3>3, <4>1
      <4> QED BY <2>4, <2>5, <3>1, <3>3, <4>2
    <3>4. CASE sched' = [sched EXCEPT !.pc = "select"]
      <4>1. sched'.pc = "select" /\ sched'.timer = sched.timer /\ sched'.calls = sched.calls
        BY <1>0, <3>4 DEF SchedState
      <4>2. Cycling'
        BY <1>5, <3>1, <4>1 DEF Cycling, Covers
      <4> QED BY <1>7, <2>3, <3>1, <4>1, <4>2
    <3> QED BY <3>2, <3>3, <3>4
  <2>12. CASE SchedSelect
    <3> DEFINE stale  == Filtered(sched.calls, {i \in DOMAIN sched.calls : ~Fresh(sched.calls[i].spoke)})
               passed == Filtered(stale, {i \in DOMAIN stale : DriftLetsThrough(stale[i])})
    <3>1. Covers(sched.calls) /\ ~env.drift
      BY <1>4, <1>5, <2>12 DEF SchedSelect, Cycling
    <3>2. /\ passed \in Seq(Call)
          /\ passed = <<>> => \A s \in Spoke : Fresh(s)
          /\ passed # <<>> => Covers(passed)
      BY <1>5, <3>1, AllOrNothing
    <3>3. /\ UNCHANGED <<pool, lastPushed>>
          /\ IF passed = <<>>
             THEN EndCycle
             ELSE sched' = [sched EXCEPT
                              !.pc = IF Len(passed) > 1 THEN "batch" ELSE "individual",
                              !.calls = passed, !.left = passed]
      BY <2>12 DEF SchedSelect
    <3> HIDE DEF passed
    <3>4. CASE passed = <<>>
      <4>1. \A s \in Spoke : oracle[s].age < Recent
        <5>1. SUFFICES ASSUME NEW s \in Spoke
                       PROVE  oracle[s].age < Recent
          OBVIOUS
        <5>2. lastPushed[s] # None /\ lastPushed[s].age < SkipIfFresh
          BY <3>2, <3>4 DEF Fresh
        <5>3. lastPushed[s].age \in Nat
          BY <1>0, <1>6, <5>2 DEF PushRecord
        <5>4. oracle[s].age <= lastPushed[s].age
          BY <1>5, <1>6, <5>2, <5>3 DEF PushesAreOlder
        <5> QED BY <1>6, <1>7, <5>2, <5>3, <5>4
      <4> QED BY <2>4, <2>5, <3>3, <3>4, <4>1
    <3>5. CASE passed # <<>>
      <4>1. /\ sched'.pc = IF Len(passed) > 1 THEN "batch" ELSE "individual"
            /\ sched'.calls = passed /\ sched'.left = passed /\ sched'.timer = sched.timer
        BY <1>0, <3>3, <3>5 DEF SchedState
      <4>2. Covers(passed)
        BY <3>2, <3>5
      <4>3. CASE Len(passed) > 1
        <5>1. Cycling'
          BY <4>1, <4>2, <4>3 DEF Cycling, Covers
        <5> QED BY <1>7, <2>3, <3>3, <4>1, <5>1
      <4>4. CASE ~(Len(passed) > 1)
        <5>1. Len(passed) = 1 /\ passed = <<passed[1]>> /\ Head(passed) = passed[1]
          <6> DEFINE n == Len(passed)
          <6>1. n \in Nat /\ n # 0 /\ ~(n > 1)
            BY <3>2, <3>5, <4>4
          <6>2. n = 1
            <7> HIDE DEF n
            <7> QED BY <6>1
          <6> QED BY <3>2, <6>2
        <5>2. Covers(<<Head(passed)>>)
          BY <4>2, <5>1
        <5>3. \A s \in Spoke : s = passed[1].spoke
          BY <5>1, <5>2, RangeOfOne DEF Covers
        <5>4. env.listed = Spoke
          <6>1. SUFFICES ASSUME Len(Spokes) > 1
                         PROVE  FALSE
            BY <1>5 DEF Undisturbed
          <6>2. 1 \in DOMAIN Spokes /\ 2 \in DOMAIN Spokes /\ Spokes[1] \in Spoke /\ Spokes[2] \in Spoke
            BY <6>1, SomeSpoke
          <6>3. Spokes[1] = Spokes[2]
            BY <5>3, <6>2
          <6> QED BY <6>2, <6>3, KeeperAssumption DEF IsInjective
        <5>5. Cycling'
          BY <2>0, <3>5, <4>1, <4>4, <5>1, <5>2, <5>4 DEF Cycling, Covers
        <5> QED BY <1>7, <2>3, <3>3, <4>1, <5>5
      <4> QED BY <4>3, <4>4
    <3> QED BY <3>4, <3>5
  <2>13. CASE SchedBatch
    <3> DEFINE tx == [direct |-> FALSE, calls |-> sched.calls]
    <3>1. sched.pc = "batch" /\ Covers(sched.calls) /\ UNCHANGED lastPushed
      BY <1>5, <2>13 DEF SchedBatch, Cycling
    <3>2. tx \in Tx /\ Covers(tx.calls) /\ (tx.direct => env.listed = Spoke)
      BY <1>0, <3>1 DEF Tx
    <3>3. \/ /\ pool' = [pool EXCEPT !["sched"] = tx]
             /\ sched' = [sched EXCEPT !.pc = "batchReceipt"]
          \/ SendFails(tx)
      BY <2>13 DEF SchedBatch
    <3> HIDE DEF tx
    <3>4. /\ pool'["sched"] # None /\ Sending'
          /\ sched' = [sched EXCEPT !.pc = "batchReceipt"]
      BY <2>7, <3>2, <3>3
    <3>5. sched'.pc = "batchReceipt" /\ sched'.calls = sched.calls /\ sched'.timer = sched.timer
      BY <1>0, <3>4 DEF SchedState
    <3>6. Cycling'
      BY <3>1, <3>4, <3>5 DEF Cycling, Covers
    <3> QED BY <2>8, <3>1, <3>4, <3>5, <3>6
  <2>14. CASE SchedBatchReceipt
    <3>1. lastPushed' = Pushed(sched.calls) /\ EndCycle /\ UNCHANGED pool
      BY <1>5, <2>14 DEF SchedBatchReceipt
    <3>2. Covers(sched.calls) /\ Renewed
      BY <1>5, <2>14 DEF SchedBatchReceipt, Cycling
    <3> QED BY <1>0, <2>6, <3>1, <3>2
  <2>15. CASE SchedIndividual
    <3> DEFINE tx == [direct |-> TRUE, calls |-> <<Head(sched.left)>>]
    <3>1. /\ sched.pc = "individual" /\ sched.left # <<>> /\ UNCHANGED lastPushed
          /\ env.listed = Spoke /\ Len(sched.left) = 1 /\ Covers(<<Head(sched.left)>>)
      BY <1>5, <2>15 DEF SchedIndividual, Cycling
    <3>2. tx \in Tx /\ Covers(tx.calls) /\ (tx.direct => env.listed = Spoke)
      <4>1. <<Head(sched.left)>> \in Seq(Call)
        BY <1>0, <3>1, HeadAndTail
      <4> QED BY <3>1, <4>1 DEF Tx
    <3>3. \/ /\ pool' = [pool EXCEPT !["sched"] = tx]
             /\ sched' = [sched EXCEPT !.pc = "receipt"]
          \/ SendFails(tx)
      BY <2>15 DEF SchedIndividual
    <3> HIDE DEF tx
    <3>4. /\ pool'["sched"] # None /\ Sending'
          /\ sched' = [sched EXCEPT !.pc = "receipt"]
      BY <2>7, <3>2, <3>3
    <3>5. sched'.pc = "receipt" /\ sched'.left = sched.left /\ sched'.timer = sched.timer
      BY <1>0, <3>4 DEF SchedState
    <3>6. Cycling'
      BY <2>0, <3>1, <3>4, <3>5 DEF Cycling, Covers
    <3> QED BY <2>8, <3>1, <3>4, <3>5, <3>6
  <2>16. CASE SchedReceipt
    <3>1. /\ sched.pc = "receipt" /\ pool["sched"] = None /\ UNCHANGED <<pool, lastPushed>>
          /\ sched' = [sched EXCEPT !.pc = "individual", !.left = Tail(@),
                                    !.succeeded = Append(@, Head(sched.left))]
      BY <1>5, <2>16 DEF SchedReceipt
    <3>2. sched.left # <<>> /\ Renewed /\ Len(sched.left) = 1 /\ Covers(<<Head(sched.left)>>)
      BY <1>0, <1>5, <3>1 DEF AtHand, Cycling
    <3>3. /\ Tail(sched.left) \in Seq(Call) /\ Len(Tail(sched.left)) = Len(sched.left) - 1
          /\ Head(sched.left) \in Call
      BY <1>0, <3>2, HeadAndTail
    <3>4. Tail(sched.left) = <<>>
      <4> DEFINE l == Tail(sched.left)
      <4>1. l \in Seq(Call) /\ Len(l) = 0
        BY <3>2, <3>3
      <4> HIDE DEF l
      <4>2. l = <<>>
        BY <4>1
      <4> QED BY <4>2 DEF l
    <3>5. /\ sched'.pc = "individual" /\ sched'.left = <<>> /\ sched'.timer = sched.timer
          /\ sched'.succeeded = Append(sched.succeeded, Head(sched.left))
      BY <1>0, <3>1, <3>4 DEF SchedState
    <3>6. Range(sched'.succeeded) = Range(sched.succeeded) \cup {Head(sched.left)}
      BY <1>0, <3>3, <3>5, RangeOfAppended
    <3>7. Covers(sched.succeeded)'
      BY <3>2, <3>6, RangeOfOne DEF Covers
    <3>8. Renewed'
      BY <2>0, <3>2 DEF Renewed
    <3>9. Cycling'
      BY <3>5, <3>7, <3>8 DEF Cycling
    <3> QED BY <1>7, <2>3, <3>1, <3>5, <3>9
  <2>17. CASE SchedFinish
    <3>1. Renewed /\ Covers(sched.succeeded) /\ sched.succeeded # <<>>
      BY <1>5, <2>17, CoveringIsNotEmpty DEF SchedFinish, Cycling
    <3>2. lastPushed' = Pushed(sched.succeeded) /\ EndCycle /\ UNCHANGED pool
      BY <2>17, <3>1 DEF SchedFinish
    <3> QED BY <1>0, <2>6, <3>1, <3>2
  <2> QED
    BY <1>13, <2>9, <2>10, <2>11, <2>12, <2>13, <2>14, <2>15, <2>16, <2>17 DEF SchedStep
<1>14. ASSUME NEW l \in Loop, Mine(l)
       PROVE  Good
  <2>1. /\ l = "sched" /\ pool["sched"] # None /\ UNCHANGED <<sched, lastPushed, env>>
        /\ pool'["sched"] = None
        /\ oracle' = IF Executable(pool["sched"]) THEN Stored(pool["sched"].calls) ELSE oracle
    BY <1>0, <1>14 DEF Mine, Loop
  <2>2. pool["sched"].calls \in Seq(Call) /\ Covers(pool["sched"].calls)
    BY <1>0, <1>5, <2>1 DEF Loop, Tx, Sending
  <2>3. Executable(pool["sched"])
    <3>1. \A i \in 1 .. Len(pool["sched"].calls) : pool["sched"].calls[i] \in Call
      BY <2>2
    <3>2. \A c \in Range(pool["sched"].calls) : c.spoke \in Spoke
      BY <2>2, <3>1 DEF Range, Call
    <3> QED BY <1>5, <2>1, <3>2 DEF Executable, Sending, Passes, Undisturbed
  <2>4. oracle' = Stored(pool["sched"].calls)
    BY <2>1, <2>3
  <2>5. \A s \in Spoke : oracle'[s].age = 0 /\ oracle'[s].bps = oracle[s].bps
    BY <1>0, <2>2, <2>4, MiningRenews
  <2>6. Undisturbed'
    BY <1>5, <1>10, <2>5 DEF Undisturbed
  <2>7. SameAges'
    BY <1>5, <2>1, <2>5 DEF SameAges
  <2>8. PushesAreOlder'
    <3>1. \A s \in Spoke : lastPushed[s] # None => lastPushed[s].age \in 0 .. SkipIfFresh
      BY <1>0 DEF PushRecord
    <3> QED BY <1>6, <2>1, <2>5, <3>1 DEF PushesAreOlder
  <2>9. Room'
    <3> DEFINE e == env.restarts * UpdateInterval
    <3>1. e \in Nat
      BY <1>6, <1>7
    <3>2. \A s \in Spoke : oracle[s].age + sched.timer + e < StalenessThreshold
      BY <1>5 DEF Room
    <3> HIDE DEF e
    <3>3. \A s \in Spoke : 0 + sched.timer + e < StalenessThreshold
      BY <1>6, <1>7, <3>1, <3>2
    <3> QED BY <2>1, <2>5, <3>3 DEF Room, e
  <2>10. Sending'
    BY <2>1 DEF Sending
  <2>11. Cycling'
    BY <1>5, <2>1, <2>5 DEF Cycling, Renewed
  <2> QED BY <2>6, <2>7, <2>8, <2>9, <2>10, <2>11 DEF Good
<1>15. CASE Tick
  <2>1. /\ UNCHANGED <<pool, env>> /\ sched.pc \in {"boot", "sleep"} /\ sched.timer > 0
        /\ sched' = [sched EXCEPT !.timer = @ - 1]
        /\ oracle' = [s \in Spoke |-> [oracle[s] EXCEPT !.age = Older(@, OracleAgeCap)]]
        /\ lastPushed' = [s \in Spoke |-> AgedEntry(lastPushed[s], SkipIfFresh)]
    BY <1>15 DEF Tick, Quiet
  <2>2. sched'.pc = sched.pc /\ sched'.timer = sched.timer - 1
    BY <1>0, <2>1 DEF SchedState
  <2>3. \A s \in Spoke : oracle'[s].bps = oracle[s].bps /\ oracle'[s].age = Older(oracle[s].age, OracleAgeCap)
    BY <1>0, <2>1 DEF OracleRecord
  <2>4. \A s \in Spoke : oracle'[s].age <= oracle[s].age + 1 /\ oracle'[s].age \in Nat
    BY <1>7, <2>3, Bounds DEF Older
  <2>5. \A s \in Spoke :
          /\ lastPushed[s] = None => lastPushed'[s] = None
          /\ lastPushed[s] # None =>
               /\ lastPushed'[s] # None
               /\ lastPushed'[s].age = Older(lastPushed[s].age, SkipIfFresh)
    <3>1. SUFFICES ASSUME NEW s \in Spoke, lastPushed[s] # None
                   PROVE  /\ lastPushed'[s] # None
                          /\ lastPushed'[s].age = Older(lastPushed[s].age, SkipIfFresh)
      BY <2>1 DEF AgedEntry
    <3> DEFINE a == Older(lastPushed[s].age, SkipIfFresh)
    <3>2. lastPushed[s] \in PushRecord
      BY <1>0, <3>1
    <3>3. lastPushed'[s] = [lastPushed[s] EXCEPT !.age = a]
      BY <2>1, <3>1 DEF AgedEntry
    <3>4. a \in 0 .. SkipIfFresh
      BY <1>6, <3>2 DEF PushRecord, Older
    <3> HIDE DEF a
    <3>5. lastPushed'[s] \in PushRecord /\ lastPushed'[s].age = a
      BY <3>2, <3>3, <3>4 DEF PushRecord
    <3> QED BY <3>5, NoneIsNoRecord DEF a
  <2>6. Undisturbed'
    BY <1>2, <1>5, <1>10, <2>3 DEF Undisturbed
  <2>7. SameAges'
    BY <1>5, <2>3, <2>5 DEF SameAges
  <2>8. PushesAreOlder'
    <3>1. SUFFICES ASSUME NEW s \in Spoke, lastPushed[s] # None
                   PROVE  \/ lastPushed'[s].age >= SkipIfFresh
                          \/ oracle'[s].age <= lastPushed'[s].age
      BY <2>5 DEF PushesAreOlder
    <3>2. lastPushed[s].age \in Nat /\ lastPushed'[s].age = Older(lastPushed[s].age, SkipIfFresh)
      BY <1>0, <2>5, <3>1, <1>6 DEF PushRecord
    <3>3. lastPushed[s].age >= SkipIfFresh \/ oracle[s].age <= lastPushed[s].age
      BY <1>5, <3>1 DEF PushesAreOlder
    <3> QED BY <1>6, <1>7, <2>4, <3>2, <3>3 DEF Older
  <2>9. Room'
    <3> DEFINE e == env.restarts * UpdateInterval
    <3>1. e \in Nat
      BY <1>6, <1>7
    <3>2. \A s \in Spoke : oracle[s].age + sched.timer + e < StalenessThreshold
      BY <1>5 DEF Room
    <3> HIDE DEF e
    <3>3. \A s \in Spoke : oracle'[s].age + sched'.timer + e < StalenessThreshold
      <4>1. /\ sched.timer \in Nat /\ sched'.timer = sched.timer - 1
            /\ StalenessThreshold \in Nat
        BY <1>6, <1>7, <2>2
      <4>2. ASSUME NEW s \in Spoke
            PROVE  oracle'[s].age + sched'.timer + e < StalenessThreshold
        <5> DEFINE a == oracle[s].age
                   b == oracle'[s].age
                   u == sched.timer
        <5>1. a \in Nat /\ b \in Nat /\ b <= a + 1 /\ a + u + e < StalenessThreshold
          BY <1>7, <2>4, <3>2
        <5> HIDE DEF a, b
        <5>2. b + (u - 1) + e < StalenessThreshold
          BY <3>1, <4>1, <5>1
        <5> QED BY <4>1, <5>2 DEF b
      <4> QED BY <4>2
    <3> QED BY <2>1, <3>3 DEF Room, e
  <2>10. Sending' /\ Cycling'
    BY <1>5, <2>1, <2>2 DEF Sending, Cycling
  <2> QED BY <2>6, <2>7, <2>8, <2>9, <2>10 DEF Good
<1>16. CASE Restart
  <2>1. /\ UNCHANGED <<pool, oracle>> /\ \A s \in Spoke : lastPushed'[s] = None
        /\ env.restarts > 0 /\ env' = [env EXCEPT !.restarts = @ - 1]
    BY <1>16 DEF Restart
  <2>2. sched'.pc = "boot" /\ sched'.timer \in 0 .. UpdateInterval
    BY <1>16 DEF Restart, Booting, SchedStart
  <2>3. env'.restarts = env.restarts - 1
    BY <1>0, <2>1 DEF Environment
  <2>4. Room'
    <3> DEFINE a == env.restarts
    <3>1. a \in Nat /\ a > 0 /\ env'.restarts = a - 1
      BY <1>7, <2>1, <2>3
    <3>2. \A s \in Spoke : oracle[s].age + sched.timer + a * UpdateInterval < StalenessThreshold
      BY <1>5 DEF Room
    <3> HIDE DEF a
    <3>3. (a - 1) * UpdateInterval = a * UpdateInterval - UpdateInterval /\ a * UpdateInterval \in Nat
      BY <1>6, <3>1
    <3> DEFINE e == a * UpdateInterval
               f == (a - 1) * UpdateInterval
    <3>4. \A s \in Spoke : oracle[s].age + sched.timer + e < StalenessThreshold
      BY <3>2
    <3>5. f = e - UpdateInterval /\ e \in Nat
      BY <3>3
    <3> HIDE DEF e, f
    <3>6. \A s \in Spoke : oracle[s].age + sched'.timer + f < StalenessThreshold
      BY <1>6, <1>7, <2>2, <3>4, <3>5
    <3> QED BY <2>1, <3>1, <3>6 DEF Room, f
  <2>5. Undisturbed' /\ SameAges' /\ PushesAreOlder' /\ Sending' /\ Cycling'
    BY <1>2, <1>5, <1>10, <2>1, <2>2 DEF Undisturbed, SameAges, PushesAreOlder, Sending, Cycling
  <2> QED BY <2>4, <2>5 DEF Good
<1>17. CASE PostUpdate
  <2>1. UNCHANGED <<oracle, pool, lastPushed, sched>> /\ env'.restarts = env.restarts
    BY <1>0, <1>17 DEF PostUpdate, Environment
  <2> QED BY <1>12, <2>1
<1>18. ~RequestStep /\ \A s \in Spoke : ~OtherKeeperPushes(s)
  BY <1>5
  DEF Undisturbed, RequestStep, CuratorBridgeWarning, PeerBridgeWarning, HandlerStep, ReadBreaker,
      DisableBreaker, PeerReadBreaker, SpawnedDisable, InsertWarning, DropRequest, OtherKeeperPushes
<1>19. CASE UNCHANGED <<oracle, pool, lastPushed, sched, env>>
  BY <1>12, <1>19
<1> QED
  BY <1>1, <1>13, <1>14, <1>15, <1>16, <1>17, <1>18, <1>19
  DEF Next, vars, RequestStep, VaultMoves, PeerLooksStale

(* No oracle gets too old for the hub vault.  A keeper without a monitor    *)
(* loop keeps any number of oracles younger than the longer of the          *)
(* staleness check and the skip window, an interval, and another for every  *)
(* restart, whatever wakes it in between: no oracle is left out of a cycle  *)
(* because of another.                                                      *)
THEOREM ScheduleKeepsFresh ==
  ASSUME EarlyPushThreshold = 0, Unreadable = {}, Recent > 0,
         \A e \in Environments :
           e.reliable /\ e.breaker = 0 /\ e.warners = {} /\ ~e.drift =>
             /\ ~e.others
             /\ Len(Spokes) > 1 \/ e.listed = Spoke
             /\ StalenessThreshold >= Recent + (e.restarts + 1) * UpdateInterval
  PROVE  Spec => []NeverStale
<1>1. Init => Alone /\ Timely
  <2>1. SUFFICES ASSUME Init, Calm, ~env.drift
                 PROVE  Undisturbed /\ SameAges /\ PushesAreOlder /\ Room /\ Sending /\ Cycling
    BY InitAlone DEF Timely
  <2>2. /\ \A s \in Spoke : oracle[s] = [stored |-> vault[s], age |-> 0, bps |-> env.breaker]
        /\ \A s \in Spoke : lastPushed[s] = None
        /\ request = None /\ pool["sched"] = None
        /\ sched.pc = "boot" /\ sched.timer \in 0 .. UpdateInterval
    BY <2>1 DEF Init, Loop, Booting, SchedStart
  <2>3. /\ ~env.others /\ env.warners = {} /\ env.breaker = 0
        /\ Len(Spokes) > 1 \/ env.listed = Spoke
        /\ StalenessThreshold >= Recent + (env.restarts + 1) * UpdateInterval
        /\ env.restarts \in Nat
    BY <2>1, KeeperAssumption DEF Init, Calm, Reliable, BreakersOff, Environment
  <2>4. \A s \in Spoke : oracle[s].age = 0 /\ oracle[s].bps = 0
    <3>1. ASSUME NEW s \in Spoke
          PROVE  oracle[s].age = 0 /\ oracle[s].bps = env.breaker
      <4>1. oracle[s] = [stored |-> vault[s], age |-> 0, bps |-> env.breaker]
        BY <2>2
      <4> QED BY <4>1
    <3> QED BY <2>3, <3>1
  <2>5. Room
    <3> DEFINE e == env.restarts * UpdateInterval
    <3>1. (env.restarts + 1) * UpdateInterval = e + UpdateInterval /\ e \in Nat
      BY <2>3, Bounds
    <3>2. Recent \in Nat /\ Recent >= 1
      BY Bounds DEF Recent, Max2
    <3> HIDE DEF e
    <3>3. 0 + sched.timer + e < StalenessThreshold
      BY <2>2, <2>3, <3>1, <3>2, Bounds
    <3> QED BY <2>4, <3>3 DEF Room, e
  <2>6. Undisturbed
    BY <2>2, <2>3, <2>4 DEF Undisturbed
  <2> QED BY <2>2, <2>4, <2>5, <2>6 DEF SameAges, PushesAreOlder, Sending, Cycling
<1>2. Typed /\ Alone /\ Timely /\ [Next]_vars => Alone' /\ Timely'
  BY NextAlone, NextTimely
<1>3. Typed /\ Timely => NeverStale
  <2>1. SUFFICES ASSUME Typed, Timely, Calm, ~env.drift, NEW s \in Spoke
                 PROVE  oracle[s].age < StalenessThreshold
    BY DEF NeverStale
  <2> DEFINE e == env.restarts * UpdateInterval
  <2>2. oracle[s].age \in Nat /\ sched.timer \in Nat /\ env.restarts \in Nat
    BY <2>1 DEF Typed, TypeOK, SchedState, Environment
  <2>3. e \in Nat
    BY <2>2, Bounds
  <2>4. oracle[s].age + sched.timer + e < StalenessThreshold
    BY <2>1 DEF Timely, Room
  <2> HIDE DEF e
  <2> QED BY <2>2, <2>3, <2>4, Bounds
<1> QED BY <1>1, <1>2, <1>3, TypedAlways, PTL DEF Spec
=============================================================================
