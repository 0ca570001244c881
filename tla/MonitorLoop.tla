------------------------------ MODULE MonitorLoop ------------------------------
(***************************************************************************)
(* run_monitor_loop(): read all spokes and push, one by one, those that    *)
(* moved since their last push.  It is also the only task that notices     *)
(* that a bridge has completed or its warning timed out.                   *)
(***************************************************************************)
EXTENDS KeeperState

(* Definitions headed "Mistake" are not the code's: the mutation runs put   *)
(* them in the place of the definition that follows.                        *)

MonPc == {"sleep", "decide", "remove", "reset", "restore", "send", "receipt"}

MonState ==
  [pc : MonPc,
   todo : Seq(Call),                \* readings not dealt with yet
   original : Nat \cup {None},      \* the breaker to restore
   pushing : BOOLEAN]               \* a push follows the end of the warning

MonStart == [pc |-> "sleep", todo |-> <<>>, original |-> None, pushing |-> FALSE]

(* The state after the loop is done with the spoke at hand. *)
NextSpoke ==
  IF Len(mon.todo) = 1 THEN MonStart
                       ELSE [MonStart EXCEPT !.pc = "decide", !.todo = Tail(mon.todo)]

(* The rpc_failed flag of a reading is dropped. *)
MonRead ==
  /\ EarlyPushThreshold > 0
  /\ sched.pc # "boot"
  /\ mon.pc = "sleep"
  /\ \E failed \in SUBSET Unreadable :
       mon' = [MonStart EXCEPT !.pc = "decide", !.todo = Readings(failed)]
  /\ UNCHANGED <<vault, oracle, pool, lastPushed, history, warnings, sched,
                 request, notified, env>>

Moved(c) ==
  /\ lastPushed[c.spoke] # None
  /\ DeltaBps(lastPushed[c.spoke].value, c.value) >= EarlyPushThreshold

TimedOut(w) == w.age > BridgeTimeout

(* At least 90% of the expected change is there. *)
Completed(w, v) == Distance(v, w.pre) >= (w.delta * 9) \div 10

(* What is read of the warning here is used after its mutex is released.    *)
EndWarning(c, pushing) ==
  /\ mon' = [mon EXCEPT !.pc = "remove",
                        !.original = warnings[c.spoke].original,
                        !.pushing = pushing]
  /\ UNCHANGED history

(* Mistakes: a warning is ended whenever nothing moves, or never then. *)
DecideUnmovedAtOnce(c) ==
  IF warnings[c.spoke] # None
  THEN EndWarning(c, FALSE)
  ELSE mon' = NextSpoke /\ UNCHANGED history

DecideUnmovedNever(c) == mon' = NextSpoke /\ UNCHANGED history

DecideUnmoved(c) ==
  IF warnings[c.spoke] # None /\ TimedOut(warnings[c.spoke])
  THEN EndWarning(c, FALSE)
  ELSE mon' = NextSpoke /\ UNCHANGED history

DecideBridged(c) ==
  IF Completed(warnings[c.spoke], c.value) \/ TimedOut(warnings[c.spoke])
  THEN EndWarning(c, TRUE)
  ELSE mon' = [mon EXCEPT !.pc = "send"] /\ UNCHANGED history

DecideMoved(c) ==
  /\ mon' = IF DriftLetsThrough(c) THEN [mon EXCEPT !.pc = "send"] ELSE NextSpoke
  /\ history' = AfterDriftCheck(<<c>>)

MonDecide ==
  /\ mon.pc = "decide"
  /\ LET c == Head(mon.todo)
     IN  \/ ~Moved(c) /\ DecideUnmoved(c)
         \/ Moved(c) /\ warnings[c.spoke] # None /\ DecideBridged(c)
         \/ Moved(c) /\ warnings[c.spoke] = None /\ DecideMoved(c)
  /\ UNCHANGED <<vault, oracle, pool, lastPushed, warnings, sched, request,
                 notified, env>>

-----------------------------------------------------------------------------
(* complete_bridge_warning(): remove the warning that is there now, forget  *)
(* the spoke's observations, restore the breaker; then the push, if any.    *)

AfterWarning == IF mon.pushing THEN [mon EXCEPT !.pc = "send"] ELSE NextSpoke

MonRemove ==
  /\ mon.pc = "remove"
  /\ warnings' = [warnings EXCEPT ![Head(mon.todo).spoke] = None]
  /\ mon' = [mon EXCEPT !.pc = "reset"]
  /\ UNCHANGED <<vault, oracle, pool, lastPushed, history, sched, request,
                 notified, env>>

(* Mistake: the breaker is restored after a completion, not a timeout. *)
MonResetRestoringSome ==
  /\ mon.pc = "reset"
  /\ history' = [history EXCEPT ![Head(mon.todo).spoke] = <<>>]
  /\ mon' = IF HasOwnerKey /\ mon.original # None /\ mon.pushing
            THEN [mon EXCEPT !.pc = "restore"]
            ELSE AfterWarning
  /\ UNCHANGED <<vault, oracle, pool, lastPushed, warnings, sched, request,
                 notified, env>>

MonReset ==
  /\ mon.pc = "reset"
  /\ history' = [history EXCEPT ![Head(mon.todo).spoke] = <<>>]
  /\ mon' = IF HasOwnerKey /\ mon.original # None
            THEN [mon EXCEPT !.pc = "restore"]
            ELSE AfterWarning
  /\ UNCHANGED <<vault, oracle, pool, lastPushed, warnings, sched, request,
                 notified, env>>

(* setMaxChangeBps(original); a failure is only logged. *)
MonRestore ==
  /\ mon.pc = "restore"
  /\ \/ oracle' = [oracle EXCEPT ![Head(mon.todo).spoke].bps = mon.original]
     \/ FlowMayFail /\ UNCHANGED oracle
  /\ mon' = AfterWarning
  /\ UNCHANGED <<vault, pool, lastPushed, history, warnings, sched, request,
                 notified, env>>

-----------------------------------------------------------------------------
(* Mistake: a push counts when it is sent. *)
MonSendRecording ==
  LET tx == [direct |-> TRUE, calls |-> <<Head(mon.todo)>>]
  IN  /\ mon.pc = "send"
      /\ \/ /\ CanSend("mon", tx)
            /\ pool' = [pool EXCEPT !["mon"] = tx]
            /\ mon' = [mon EXCEPT !.pc = "receipt"]
            /\ lastPushed' = Pushed(<<Head(mon.todo)>>)
         \/ SendFails(tx) /\ mon' = NextSpoke /\ UNCHANGED <<pool, lastPushed>>
      /\ UNCHANGED <<vault, oracle, history, warnings, sched, request,
                     notified, env>>

MonSend ==
  LET tx == [direct |-> TRUE, calls |-> <<Head(mon.todo)>>]
  IN  /\ mon.pc = "send"
      /\ \/ /\ CanSend("mon", tx)
            /\ pool' = [pool EXCEPT !["mon"] = tx]
            /\ mon' = [mon EXCEPT !.pc = "receipt"]
         \/ SendFails(tx) /\ mon' = NextSpoke /\ UNCHANGED pool
      /\ UNCHANGED <<vault, oracle, lastPushed, history, warnings, sched,
                     request, notified, env>>

MonReceipt ==
  /\ mon.pc = "receipt"
  /\ pool["mon"] = None
  /\ \/ lastPushed' = Pushed(<<Head(mon.todo)>>)
     \/ FlowMayFail /\ UNCHANGED lastPushed
  /\ mon' = NextSpoke
  /\ UNCHANGED <<vault, oracle, pool, history, warnings, sched, request,
                 notified, env>>

MonStep ==
  \/ MonRead \/ MonDecide
  \/ MonRemove \/ MonReset \/ MonRestore
  \/ MonSend \/ MonReceipt
=============================================================================
