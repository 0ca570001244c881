----------------------------- MODULE DriftTracker -----------------------------
(***************************************************************************)
(* The keeper's off-chain drift protection for one oracle and the two      *)
(* tasks that share it.  A task takes now_secs first and then waits for    *)
(* the tracker's mutex (main.rs, scheduled and monitor loop), so time and  *)
(* the other task may come in between.  Bridge completion resets the       *)
(* history; a restart loses it.                                            *)
(***************************************************************************)
EXTENDS DriftCore

CONSTANTS
  Task,     \* the loops that call check_and_record
  Value,    \* totalAssets() readings
  NoValue,  \* nothing pushed yet
  Asleep,   \* the task waits for its next interval
  Awake,    \* the task runs and has taken no timestamp yet
  MaxLag    \* bound: ticks a task waits between taking now_secs and the mutex

ASSUME TrackerAssumption ==
  /\ Value \subseteq Nat \ {0}
  /\ NoValue \notin Value
  /\ Asleep # Awake
  /\ {Asleep, Awake} \cap Nat = {}
  /\ MaxLag \in Nat

VARIABLES
  history,   \* observations of the oracle, in the order they were recorded
  captured,  \* where each task is: the age of the now_secs it holds, if any
  reading,   \* the value the vault reports to both tasks
  accepted   \* the last value check_and_record let through

vars == <<history, captured, reading, accepted>>

(* Above this age an observation is outside the window of every task. *)
AgeCap == Window + MaxLag + 1

TypeOK ==
  /\ history \in Seq([value : Value, age : 0 .. AgeCap])
  /\ captured \in [Task -> {Asleep, Awake} \cup 0 .. MaxLag]
  /\ reading \in Value
  /\ accepted \in Value \cup {NoValue}

Init ==
  /\ history = <<>>
  /\ captured = [t \in Task |-> Awake]
  /\ reading \in Value
  /\ accepted = NoValue

-----------------------------------------------------------------------------
TakeNow(t) ==
  /\ captured[t] = Awake
  /\ captured' = [captured EXCEPT ![t] = 0]
  /\ UNCHANGED <<history, reading, accepted>>

Check(t) ==
  /\ captured[t] \in Nat
  /\ history' = DriftRecorded(history, reading, captured[t])
  /\ accepted' = IF DriftAccepts(history, reading, captured[t])
                 THEN reading ELSE accepted
  /\ captured' = [captured EXCEPT ![t] = Asleep]
  /\ UNCHANGED reading

(* A bridge completes. *)
Reset ==
  /\ history' = <<>>
  /\ UNCHANGED <<captured, reading, accepted>>

Restart ==
  /\ history' = <<>>
  /\ captured' = [t \in Task |-> Awake]
  /\ UNCHANGED <<reading, accepted>>

VaultMoves ==
  /\ reading' \in Value
  /\ UNCHANGED <<history, captured, accepted>>

Tick ==
  /\ \A t \in Task : captured[t] # MaxLag
  /\ history' = Aged(history, AgeCap)
  /\ captured' = [t \in Task |->
                    IF captured[t] \in Nat THEN captured[t] + 1 ELSE Awake]
  /\ UNCHANGED <<reading, accepted>>

Next ==
  \/ \E t \in Task : TakeNow(t) \/ Check(t)
  \/ Reset \/ Restart \/ VaultMoves \/ Tick

(* The loops run for ever and tokio's mutex is fair, so a task that can go  *)
(* on does; time passes.                                                    *)
Fairness ==
  /\ \A t \in Task : WF_vars(TakeNow(t)) /\ WF_vars(Check(t))
  /\ WF_vars(Tick)

Spec == Init /\ [][Next]_vars /\ Fairness

-----------------------------------------------------------------------------
(* A task that is overtaken between its now_secs and the mutex records an   *)
(* older time behind a newer one, but no older than it was held up: what    *)
(* check_and_record() takes for "ordered by time" (drift.rs:25) is ordered  *)
(* up to that.                                                              *)
OrderedUpToLag ==
  \A i, j \in DOMAIN history : i < j => history[j].age <= history[i].age + MaxLag

(* The observations inside the window of a caller, whatever their order. *)
InWindow(nowAge) == {i \in DOMAIN history : history[i].age <= nowAge + Window}

(* Cumulative, not stepwise: a check that lets a value through, whether or  *)
(* not it drops observations as well, finds it within the limit of one that *)
(* is as old as any inside the window, up to the lag.                       *)
AcceptedNearOldest ==
  [][\A t \in Task :
       LET inside == InWindow(captured[t])
       IN  /\ DriftEnabled /\ Check(t)
           /\ DriftAccepts(history, reading, captured[t])
           /\ inside # {}
           => \E i \in inside :
                /\ WithinDrift(history[i].value, reading)
                /\ \A j \in inside : history[j].age <= history[i].age + MaxLag]_vars

(* The protection suspends pushes, it does not end them: a value the vault  *)
(* keeps reporting is the one let through in the end, because refused       *)
(* values are not recorded and the window empties -- unless the keeper is   *)
(* restarted again and again before it gets to check.                       *)
PersistentValueAccepted ==
  \A v \in Value :
    <>[](reading = v) /\ <>[][~Restart]_vars => <>[](accepted = v)
=============================================================================
