----------------------------- MODULE BridgeWarning -----------------------------
(***************************************************************************)
(* How a bridge warning gets into the store: POST /curator/bridge-warning  *)
(* from the curator and POST /peers/bridge-warning from a keeper that the  *)
(* curator told, each after authentication.  The calls to the chain come   *)
(* between the steps, and no lock is held across them.                     *)
(***************************************************************************)
EXTENDS KeeperState

CONSTANT Delta   \* expected_delta values a curator may announce

ASSUME DeltaAssumption == Delta \subseteq Nat

RequestPc == {"bps", "disable", "peerBps", "insert", "stored"}

Request ==
  [pc : RequestPc, spoke : Spoke, delta : Delta, pre : Reported \cup {0},
   original : Nat \cup {None},
   switching : BOOLEAN]    \* a task spawned for the request is to switch the breaker off

(* The baseline: storedTotalAssets, or 0 if it cannot be read. *)
Baseline(s) == {oracle[s].stored} \cup (IF FlowMayFail THEN {0} ELSE {})

(* One request is handled at a time: a bound. *)
CuratorBridgeWarning(s, d) ==
  /\ request = None
  /\ env.warnings > 0 /\ "curator" \in env.warners
  /\ env' = [env EXCEPT !.warnings = @ - 1]
  /\ \E pre \in Baseline(s) :
       request' = [pc |-> IF HasOwnerKey THEN "bps" ELSE "insert",
                   spoke |-> s, delta |-> d, pre |-> pre, original |-> None,
                   switching |-> FALSE]
  /\ UNCHANGED <<vault, oracle, pool, lastPushed, history, warnings, sched,
                 mon, notified>>

(* propagate_bridge_warning() sends what the curator's keeper has found: a  *)
(* baseline and, if it holds the owner's key too and had a breaker to       *)
(* switch off, what that was.                                               *)
PeerBridgeWarning(s, d) ==
  /\ request = None
  /\ env.warnings > 0 /\ "peer" \in env.warners
  /\ env' = [env EXCEPT !.warnings = @ - 1]
  /\ \E pre \in Baseline(s), original \in {None, oracle[s].bps} \ {0} :
       /\ \/ original = None /\ UNCHANGED oracle
          \/ original # None /\ oracle' = [oracle EXCEPT ![s].bps = 0]
          \/ original # None /\ FlowMayFail /\ UNCHANGED oracle
       /\ request' = [pc |-> IF HasOwnerKey /\ original = None THEN "peerBps" ELSE "insert",
                      spoke |-> s, delta |-> d, pre |-> pre, original |-> original,
                      switching |-> HasOwnerKey /\ original # None]
  /\ UNCHANGED <<vault, pool, lastPushed, history, warnings, sched, mon, notified>>

(* get_max_change_bps(): a breaker that is off already, or cannot be read,  *)
(* is nothing to restore.                                                   *)
ReadBreaker ==
  /\ request # None
  /\ request.pc = "bps"
  /\ LET bps == oracle[request.spoke].bps
     IN  \/ /\ bps > 0
            /\ request' = [request EXCEPT !.pc = "disable", !.original = bps]
         \/ /\ bps = 0 \/ FlowMayFail
            /\ request' = [request EXCEPT !.pc = "insert"]
  /\ UNCHANGED <<vault, oracle, pool, lastPushed, history, warnings, sched,
                 mon, notified, env>>

(* The same in the peers' handler, which leaves the switching to a task. *)
PeerReadBreaker ==
  /\ request # None
  /\ request.pc = "peerBps"
  /\ LET bps == oracle[request.spoke].bps
     IN  \/ /\ bps > 0
            /\ request' = [request EXCEPT !.pc = "insert", !.original = bps,
                                          !.switching = TRUE]
         \/ /\ bps = 0 \/ FlowMayFail
            /\ request' = [request EXCEPT !.pc = "insert"]
  /\ UNCHANGED <<vault, oracle, pool, lastPushed, history, warnings, sched,
                 mon, notified, env>>

(* setMaxChangeBps(0); a failure is only logged. *)
SwitchedOff(s) ==
  \/ oracle' = [oracle EXCEPT ![s].bps = 0]
  \/ FlowMayFail /\ UNCHANGED oracle

DisableBreaker ==
  /\ request # None
  /\ request.pc = "disable"
  /\ SwitchedOff(request.spoke)
  /\ request' = [request EXCEPT !.pc = "insert"]
  /\ UNCHANGED <<vault, pool, lastPushed, history, warnings, sched, mon,
                 notified, env>>

SpawnedDisable ==
  /\ request # None
  /\ request.switching
  /\ SwitchedOff(request.spoke)
  /\ request' = IF request.pc = "stored" THEN None ELSE [request EXCEPT !.switching = FALSE]
  /\ UNCHANGED <<vault, pool, lastPushed, history, warnings, sched, mon,
                 notified, env>>

(* A warning already stored for the spoke is replaced. *)
InsertWarning ==
  /\ request # None
  /\ request.pc = "insert"
  /\ warnings' = [warnings EXCEPT ![request.spoke] =
                    [pre |-> request.pre, delta |-> request.delta, age |-> 0,
                     original |-> request.original]]
  /\ request' = IF request.switching THEN [request EXCEPT !.pc = "stored"] ELSE None
  /\ UNCHANGED <<vault, oracle, pool, lastPushed, history, sched, mon,
                 notified, env>>

(* The timeout layer, or a client that hangs up, ends the handler where it  *)
(* waits for the chain; what it has sent may still be executed.             *)
DropRequest ==
  /\ FlowMayFail
  /\ request # None
  /\ request.pc \in {"bps", "disable", "peerBps"}
  /\ IF request.pc = "disable" THEN SwitchedOff(request.spoke) ELSE UNCHANGED oracle
  /\ request' = None
  /\ UNCHANGED <<vault, pool, lastPushed, history, warnings, sched, mon,
                 notified, env>>

HandlerStep ==
  \/ ReadBreaker \/ DisableBreaker
  \/ PeerReadBreaker \/ SpawnedDisable
  \/ InsertWarning \/ DropRequest
=============================================================================
