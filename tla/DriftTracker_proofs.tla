-------------------------- MODULE DriftTracker_proofs --------------------------
(***************************************************************************)
(* What the drift tracker guarantees for every window, every limit, any    *)
(* number of tasks and histories of every length.                          *)
(***************************************************************************)
EXTENDS DriftTracker, Filtering_proofs

Observation == [value : Value, age : 0 .. AgeCap]

LEMMA Bounds ==
  /\ Window \in Nat /\ MaxLag \in Nat /\ AgeCap \in Nat
  /\ MaxLag < AgeCap
  /\ Asleep \notin Nat /\ Awake \notin Nat
BY DriftAssumption, TrackerAssumption DEF AgeCap

LEMMA ObservationAge ==
  ASSUME NEW h \in Seq(Observation), NEW i \in 1 .. Len(h)
  PROVE  h[i] \in Observation /\ h[i].age \in 0 .. AgeCap /\ h[i].age \in Nat
<1>1. h[i] \in Observation
  OBVIOUS
<1> QED BY <1>1, Bounds DEF Observation

(* retain() drops observations: what is left is in the history before. *)
LEMMA RetainedType ==
  ASSUME NEW h \in Seq(Observation), NEW nowAge
  PROVE  Retained(h, nowAge) \in Seq(Observation)
BY FilteredElements DEF Retained

(* What check_and_record() leaves: the retained part, or that and the value. *)
LEMMA RecordedCases ==
  ASSUME NEW h \in Seq(Observation), NEW v \in Value, NEW nowAge \in 0 .. MaxLag
  PROVE  /\ DriftRecorded(h, v, nowAge) \in Seq(Observation)
         /\ \/ DriftRecorded(h, v, nowAge) = h
            \/ DriftRecorded(h, v, nowAge) = Retained(h, nowAge)
            \/ /\ DriftEnabled /\ DriftAccepts(h, v, nowAge)
               /\ DriftRecorded(h, v, nowAge) =
                    Append(Retained(h, nowAge), [value |-> v, age |-> nowAge])
<1>1. Retained(h, nowAge) \in Seq(Observation)
  BY RetainedType
<1>2. [value |-> v, age |-> nowAge] \in Observation
  BY Bounds DEF Observation
<1>3. Append(Retained(h, nowAge), [value |-> v, age |-> nowAge]) \in Seq(Observation)
  BY <1>1, <1>2
<1> QED BY <1>1, <1>3 DEF DriftRecorded

(* One tick later every observation is a tick older, up to the cap. *)
LEMMA AgedElements ==
  ASSUME NEW h \in Seq(Observation)
  PROVE  /\ Aged(h, AgeCap) \in Seq(Observation)
         /\ Len(Aged(h, AgeCap)) = Len(h)
         /\ \A i \in 1 .. Len(h) :
              Aged(h, AgeCap)[i].age =
                IF h[i].age < AgeCap THEN h[i].age + 1 ELSE AgeCap
<1>1. Len(h) \in Nat /\ DOMAIN h = 1 .. Len(h)
  OBVIOUS
<1>2. \A i \in 1 .. Len(h) : h[i] \in Observation
  OBVIOUS
<1>3. ASSUME NEW i \in 1 .. Len(h)
      PROVE  /\ [h[i] EXCEPT !.age = Older(@, AgeCap)] \in Observation
             /\ [h[i] EXCEPT !.age = Older(@, AgeCap)].age =
                  IF h[i].age < AgeCap THEN h[i].age + 1 ELSE AgeCap
  BY <1>2, Bounds DEF Observation, Older
<1> DEFINE a == Aged(h, AgeCap)
<1>4. a = [i \in 1 .. Len(h) |-> [h[i] EXCEPT !.age = Older(@, AgeCap)]]
  BY <1>1 DEF Aged
<1>5. a \in [1 .. Len(h) -> Observation]
  BY <1>3, <1>4
<1>6. a \in Seq(Observation) /\ Len(a) = Len(h)
  BY <1>1, <1>5, IsASeq, LenProperties
<1> QED BY <1>3, <1>4, <1>6

-----------------------------------------------------------------------------
(* The types of the tracker's state. *)
LEMMA InitType == Init => TypeOK
BY TrackerAssumption DEF Init, TypeOK

LEMMA NextType ==
  ASSUME TypeOK, [Next]_vars
  PROVE  TypeOK'
<1>0. /\ history \in Seq(Observation)
      /\ captured \in [Task -> {Asleep, Awake} \cup 0 .. MaxLag]
      /\ reading \in Value
      /\ accepted \in Value \cup {NoValue}
  BY DEF TypeOK, Observation
<1>1. ASSUME NEW t \in Task, TakeNow(t)
      PROVE  TypeOK'
  <2>1. captured' \in [Task -> {Asleep, Awake} \cup 0 .. MaxLag]
    BY <1>0, <1>1, Bounds DEF TakeNow
  <2> QED BY <1>1, <2>1 DEF TakeNow, TypeOK
<1>2. ASSUME NEW t \in Task, Check(t)
      PROVE  TypeOK'
  <2>1. captured[t] \in 0 .. MaxLag
    BY <1>0, <1>2, Bounds DEF Check
  <2>2. history' \in Seq(Observation)
    BY <1>0, <1>2, <2>1, RecordedCases DEF Check
  <2>3. captured' \in [Task -> {Asleep, Awake} \cup 0 .. MaxLag]
    BY <1>0, <1>2 DEF Check
  <2> QED BY <1>0, <1>2, <2>2, <2>3 DEF Check, TypeOK, Observation
<1>3. CASE Reset
  BY <1>0, <1>3 DEF Reset, TypeOK
<1>4. CASE Restart
  BY <1>0, <1>4 DEF Restart, TypeOK
<1>5. CASE VaultMoves
  BY <1>0, <1>5 DEF VaultMoves, TypeOK
<1>6. CASE Tick
  <2>1. history' \in Seq(Observation)
    BY <1>0, <1>6, AgedElements DEF Tick
  <2>2. ASSUME NEW t \in Task
        PROVE  (IF captured[t] \in Nat THEN captured[t] + 1 ELSE Awake)
                 \in {Asleep, Awake} \cup 0 .. MaxLag
    BY <1>0, <1>6, Bounds DEF Tick
  <2>3. captured' \in [Task -> {Asleep, Awake} \cup 0 .. MaxLag]
    BY <1>6, <2>2 DEF Tick
  <2> QED BY <1>0, <1>6, <2>1, <2>3 DEF Tick, TypeOK, Observation
<1>7. CASE UNCHANGED vars
  BY <1>7 DEF vars, TypeOK
<1> QED BY <1>1, <1>2, <1>3, <1>4, <1>5, <1>6, <1>7 DEF Next

(* The histories hold readings with ages up to the cap, whatever is pruned, *)
(* recorded or reset in which order.                                        *)
THEOREM TypeCorrect == Spec => []TypeOK
<1>1. Init => TypeOK
  BY InitType
<1>2. TypeOK /\ [Next]_vars => TypeOK'
  BY NextType
<1> QED BY <1>1, <1>2, PTL DEF Spec

-----------------------------------------------------------------------------
(* The order of any sequence of observations, of which OrderedUpToLag is    *)
(* that of the history.                                                     *)
NearlyOrdered(h) ==
  \A i, j \in 1 .. Len(h) : i < j => h[j].age <= h[i].age + MaxLag

InNearOrder ==
  {p \in Observation \X Observation : p[2].age <= p[1].age + MaxLag}

LEMMA RetainedOrder ==
  ASSUME NEW h \in Seq(Observation), NearlyOrdered(h), NEW nowAge
  PROVE  NearlyOrdered(Retained(h, nowAge))
<1> DEFINE keep == {i \in DOMAIN h : h[i].age <= nowAge + Window}
           k == Filtered(h, keep)
<1>1. \A i, j \in 1 .. Len(h) : i < j => <<h[i], h[j]>> \in InNearOrder
  BY DEF NearlyOrdered, InNearOrder
<1> HIDE DEF keep
<1>2. \A i, j \in 1 .. Len(k) : i < j => <<k[i], k[j]>> \in InNearOrder
  BY <1>1, FilteredOrder
<1>3. NearlyOrdered(k)
  BY <1>2 DEF NearlyOrdered, InNearOrder
<1> QED BY <1>3 DEF Retained, keep

LEMMA NextNearlyOrdered ==
  ASSUME TypeOK, NearlyOrdered(history), [Next]_vars
  PROVE  NearlyOrdered(history')
<1>0. /\ history \in Seq(Observation) /\ reading \in Value
      /\ captured \in [Task -> {Asleep, Awake} \cup 0 .. MaxLag]
  BY DEF TypeOK, Observation
<1>1. CASE UNCHANGED history
  BY <1>1
<1>2. CASE history' = <<>>
  BY <1>2 DEF NearlyOrdered
<1>3. ASSUME NEW t \in Task, Check(t)
      PROVE  NearlyOrdered(history')
  <2> DEFINE now == captured[t]
             kept == Retained(history, now)
             ob   == [value |-> reading, age |-> now]
  <2>1. now \in 0 .. MaxLag
    BY <1>0, <1>3, Bounds DEF Check
  <2>2. kept \in Seq(Observation) /\ NearlyOrdered(kept)
    BY <1>0, RetainedType, RetainedOrder
  <2>3. history' \in {history, kept, Append(kept, ob)}
    BY <1>0, <1>3, <2>1, RecordedCases DEF Check
  <2>4. ob \in Observation /\ ob.age <= MaxLag
    BY <1>0, <2>1, Bounds DEF Observation
  <2> HIDE DEF kept, ob
  <2>5. NearlyOrdered(Append(kept, ob))
    <3> SUFFICES ASSUME NEW i \in 1 .. Len(kept) + 1, NEW j \in 1 .. Len(kept) + 1, i < j
                 PROVE  Append(kept, ob)[j].age <= Append(kept, ob)[i].age + MaxLag
      BY <2>2, <2>4 DEF NearlyOrdered
    <3>0. Len(kept) \in Nat
      BY <2>2
    <3>1. i \in 1 .. Len(kept) /\ Append(kept, ob)[i] = kept[i] /\ kept[i].age \in Nat
      <4>1. i \in 1 .. Len(kept)
        BY <3>0
      <4> QED BY <2>2, <4>1, ObservationAge
    <3>2. CASE j \in 1 .. Len(kept)
      BY <2>2, <3>1, <3>2 DEF NearlyOrdered
    <3>3. CASE j = Len(kept) + 1
      <4>1. Append(kept, ob)[j] = ob
        BY <2>2, <3>3
      <4>2. ob.age \in Nat
        BY <2>4, Bounds DEF Observation
      <4> QED BY <2>4, <3>1, <4>1, <4>2, Bounds
    <3> QED BY <2>2, <3>2, <3>3
  <2> QED BY <2>2, <2>3, <2>5
<1>4. CASE Tick
  <2> DEFINE a == Aged(history, AgeCap)
  <2>1. /\ Len(a) = Len(history)
        /\ \A i \in 1 .. Len(history) :
             a[i].age = IF history[i].age < AgeCap THEN history[i].age + 1 ELSE AgeCap
    BY <1>0, AgedElements
  <2>2. \A i \in 1 .. Len(history) : history[i].age \in 0 .. AgeCap
    BY <1>0, ObservationAge
  <2> HIDE DEF a
  <2>3. ASSUME NEW i \in 1 .. Len(a), NEW j \in 1 .. Len(a), i < j
        PROVE  a[j].age <= a[i].age + MaxLag
    <3>1. history[j].age <= history[i].age + MaxLag
      BY <2>1, <2>3 DEF NearlyOrdered
    <3> DEFINE x == history[i].age
               y == history[j].age
    <3>2. /\ x \in 0 .. AgeCap /\ y \in 0 .. AgeCap
          /\ a[i].age = IF x < AgeCap THEN x + 1 ELSE AgeCap
          /\ a[j].age = IF y < AgeCap THEN y + 1 ELSE AgeCap
      BY <2>1, <2>2, <2>3
    <3>3. AgeCap \in Nat /\ MaxLag \in Nat /\ y <= x + MaxLag
      BY <3>1, Bounds
    <3> HIDE DEF x, y
    <3> QED BY <3>2, <3>3
  <2> QED BY <1>4, <2>3 DEF Tick, NearlyOrdered, a
<1> QED
  BY <1>1, <1>2, <1>3, <1>4 DEF Next, vars, TakeNow, Reset, Restart, VaultMoves

(* Observations are in the order of their times up to the time a task may   *)
(* wait between its now_secs and the mutex, whoever records them and        *)
(* whatever is dropped.                                                     *)
THEOREM OrderedByLag == Spec => []OrderedUpToLag
<1>1. Init => NearlyOrdered(history)
  BY DEF Init, NearlyOrdered
<1>2. TypeOK /\ NearlyOrdered(history) /\ [Next]_vars => NearlyOrdered(history)'
  BY NextNearlyOrdered
<1>3. TypeOK /\ NearlyOrdered(history) => OrderedUpToLag
  BY DEF TypeOK, NearlyOrdered, OrderedUpToLag
<1> QED BY <1>1, <1>2, <1>3, TypeCorrect, PTL DEF Spec

LEMMA OrderIsNear ==
  ASSUME TypeOK, OrderedUpToLag
  PROVE  NearlyOrdered(history)
BY DEF TypeOK, NearlyOrdered, OrderedUpToLag

(* The first observation that retain() leaves is inside the window, and the *)
(* others inside it are older by no more than the lag.                      *)
LEMMA HeadIsNearlyOldest ==
  ASSUME TypeOK, OrderedUpToLag, NEW now \in 0 .. MaxLag, InWindow(now) # {}
  PROVE  /\ Retained(history, now) # <<>>
         /\ \E i \in InWindow(now) :
              /\ history[i] = Head(Retained(history, now))
              /\ \A j \in InWindow(now) : history[j].age <= history[i].age + MaxLag
<1> DEFINE inside == InWindow(now)
           kept   == Retained(history, now)
<1>1. history \in Seq(Observation) /\ DOMAIN history = 1 .. Len(history)
  BY DEF TypeOK, Observation
<1>2. kept \in Seq(Observation) /\ NearlyOrdered(kept)
  BY <1>1, RetainedType, RetainedOrder, OrderIsNear
<1>3. inside \subseteq 1 .. Len(history)
  BY <1>1 DEF InWindow
<1>4. kept = Filtered(history, inside)
  BY DEF Retained, InWindow
<1>5. \A j \in 1 .. Len(kept) : \E i \in 1 .. Len(history) : i \in inside /\ kept[j] = history[i]
  BY <1>1, <1>4, FilteredFrom
<1>6. \A i \in 1 .. Len(history) : i \in inside => \E j \in 1 .. Len(kept) : kept[j] = history[i]
  BY <1>1, <1>4, FilteredHas
<1> HIDE DEF inside, kept
<1>7. kept # <<>> /\ Len(kept) \in Nat /\ 1 \in 1 .. Len(kept) /\ Head(kept) = kept[1]
  <2>1. PICK i \in inside : TRUE
    BY DEF inside
  <2>2. PICK j \in 1 .. Len(kept) : kept[j] = history[i]
    BY <1>3, <1>6, <2>1
  <2> QED BY <1>2, <2>2
<1>8. PICK i \in inside : history[i] = kept[1]
  BY <1>5, <1>7
<1>9. ASSUME NEW j \in inside
      PROVE  history[j].age <= history[i].age + MaxLag
  <2>1. PICK m \in 1 .. Len(kept) : kept[m] = history[j]
    BY <1>3, <1>6
  <2>2. kept[1].age \in Nat /\ MaxLag \in Nat
    BY <1>2, <1>7, ObservationAge, Bounds
  <2>3. CASE m = 1
    BY <1>8, <2>1, <2>2, <2>3
  <2>4. CASE m # 1
    <3>1. kept[m].age <= kept[1].age + MaxLag
      BY <1>2, <1>7, <2>1, <2>4 DEF NearlyOrdered
    <3> QED BY <1>8, <2>1, <3>1
  <2> QED BY <2>3, <2>4
<1> QED BY <1>7, <1>8, <1>9 DEF inside, kept

(* Small steps do not add up: what a check lets through is within the limit *)
(* of an observation that is as old as any inside its window, up to the     *)
(* lag, whatever was dropped from the history, by whichever task.           *)
THEOREM DriftIsCumulative == Spec => AcceptedNearOldest
<1> DEFINE Near(t) ==
             LET inside == InWindow(captured[t])
             IN  /\ DriftEnabled /\ Check(t)
                 /\ DriftAccepts(history, reading, captured[t])
                 /\ inside # {}
                 => \E i \in inside :
                      /\ WithinDrift(history[i].value, reading)
                      /\ \A j \in inside : history[j].age <= history[i].age + MaxLag
<1>1. ASSUME TypeOK, OrderedUpToLag, NEW t \in Task
      PROVE  Near(t)
  <2> SUFFICES ASSUME DriftEnabled, Check(t),
                      DriftAccepts(history, reading, captured[t]),
                      InWindow(captured[t]) # {}
               PROVE  \E i \in InWindow(captured[t]) :
                        /\ WithinDrift(history[i].value, reading)
                        /\ \A j \in InWindow(captured[t]) :
                             history[j].age <= history[i].age + MaxLag
    OBVIOUS
  <2> DEFINE now == captured[t]
  <2>1. now \in 0 .. MaxLag
    <3>1. now \in {Asleep, Awake} \cup 0 .. MaxLag /\ now \in Nat
      BY <1>1 DEF TypeOK, Check
    <3> QED BY <3>1, Bounds
  <2>2. DriftAccepts(history, reading, now) /\ InWindow(now) # {}
    OBVIOUS
  <2> HIDE DEF now
  <2>3. Retained(history, now) # <<>>
    BY <1>1, <2>1, <2>2, HeadIsNearlyOldest
  <2>4. PICK i \in InWindow(now) :
          /\ history[i] = Head(Retained(history, now))
          /\ \A j \in InWindow(now) : history[j].age <= history[i].age + MaxLag
    BY <1>1, <2>1, <2>2, HeadIsNearlyOldest
  <2>5. WithinDrift(Head(Retained(history, now)).value, reading)
    BY <2>2, <2>3 DEF DriftAccepts
  <2> QED BY <2>4, <2>5 DEF now
<1>2. TypeOK /\ OrderedUpToLag => \A t \in Task : Near(t)
  BY <1>1
<1>3. TypeOK /\ OrderedUpToLag => [\A t \in Task : Near(t)]_vars
  BY <1>2
<1> QED BY <1>3, TypeCorrect, OrderedByLag, PTL DEF AcceptedNearOldest
=============================================================================
