------------------------------- MODULE DriftCore -------------------------------
(***************************************************************************)
(* check_and_record() of the keeper's drift tracker on the history of one  *)
(* oracle.                                                                 *)
(*                                                                         *)
(* Times are relative: a timestamp is represented by its age, so the clock *)
(* itself is not part of any state.  An observation [value, age] was made  *)
(* age ticks ago, and the caller's now_secs was taken nowAge ticks ago.    *)
(***************************************************************************)
EXTENDS BasisPoints, Filtering

CONSTANTS
  Window,      \* drift_window_secs; 0 disables the tracker
  MaxDriftBps  \* max_cumulative_drift_bps; 0 disables the tracker

ASSUME DriftAssumption == Window \in Nat /\ MaxDriftBps \in Nat

DriftEnabled == Window # 0 /\ MaxDriftBps # 0

(* Mistakes the mutation runs put in the place of the operators below:      *)
(* nothing is pruned, ...                                                   *)
AllRetained(history, nowAge) == history

(* retain(timestamp >= now_secs - window) *)
Retained(history, nowAge) ==
  Filtered(history, {i \in DOMAIN history : history[i].age <= nowAge + Window})

WithinDrift(anchor, v) == DeltaBps(anchor, v) <= MaxDriftBps

(* ... a value is compared with the latest observation, ...                 *)
AcceptsNearLatest(history, v, nowAge) ==
  LET kept == Retained(history, nowAge)
  IN  ~DriftEnabled \/ kept = <<>> \/ WithinDrift(kept[Len(kept)].value, v)

(* The value returned by check_and_record ... *)
DriftAccepts(history, v, nowAge) ==
  LET kept == Retained(history, nowAge)
  IN  ~DriftEnabled \/ kept = <<>> \/ WithinDrift(Head(kept).value, v)

(* ... an observation is put in front, or carries the time it expires.      *)
RecordedInFront(history, v, nowAge) ==
  LET kept == Retained(history, nowAge)
  IN  IF DriftEnabled /\ DriftAccepts(history, v, nowAge)
      THEN <<[value |-> v, age |-> nowAge]>> \o kept
      ELSE kept

RecordedWithExpiry(history, v, nowAge) ==
  LET kept == Retained(history, nowAge)
  IN  IF DriftEnabled /\ DriftAccepts(history, v, nowAge)
      THEN Append(kept, [value |-> v, age |-> nowAge - Window])
      ELSE kept

(* ... and the history it leaves: pruned, and extended when v passed. *)
DriftRecorded(history, v, nowAge) ==
  LET kept == Retained(history, nowAge)
  IN  CASE ~DriftEnabled -> history
        [] DriftEnabled /\ DriftAccepts(history, v, nowAge)
             -> Append(kept, [value |-> v, age |-> nowAge])
        [] OTHER -> kept

(* One tick later; ages beyond cap are not told apart. *)
Older(age, cap) == IF age < cap THEN age + 1 ELSE cap

Aged(history, cap) ==
  [i \in DOMAIN history |-> [history[i] EXCEPT !.age = Older(@, cap)]]
=============================================================================
