----------------------------- MODULE ScheduledLoop -----------------------------
(***************************************************************************)
(* run_scheduled_loop(): read all spokes, skip what is fresh or drifts too *)
(* far, push the rest as one batch, fall back to one update per oracle,    *)
(* retry a cycle in which nothing succeeded, sleep.                        *)
(***************************************************************************)
EXTENDS KeeperState

(* Definitions headed "Mistake" are not the code's: the mutation runs put   *)
(* them in the place of the definition that follows.                        *)

SchedPc == {"boot", "read", "staleness", "select", "batch", "batchReceipt",
            "individual", "receipt", "sleep"}

SchedState ==
  [pc : SchedPc, timer : 0 .. UpdateInterval, attempt : 0 .. MaxRetries,
   calls : Seq(Call),      \* what this cycle pushes
   left : Seq(Call),       \* individual updates still to send
   succeeded : Seq(Call)]  \* individual updates reported as successful

SchedStart ==
  [pc |-> "read", timer |-> 0, attempt |-> 0, calls |-> <<>>, left |-> <<>>,
   succeeded |-> <<>>]

Booting(t) == [SchedStart EXCEPT !.pc = "boot", !.timer = t]

EndCycle == sched' = [SchedStart EXCEPT !.pc = "sleep", !.timer = UpdateInterval]

(* The sleep of main() before it spawns the loops. *)
SchedBoot ==
  /\ sched.pc = "boot"
  /\ sched.timer = 0
  /\ sched' = SchedStart
  /\ UNCHANGED <<vault, oracle, pool, lastPushed, history, warnings, mon,
                 request, notified, env>>

(* What the peers that answer report of a spoke, in the registry's order.   *)
PeerReports == UNION {[1 .. n -> PeerValues] : n \in 0 .. PeerCount}

(* Mistake: a peer's failed or empty reading counts as a value. *)
UsableUnfiltered(reports) == reports

(* peer_vals of cross_validate_and_resolve() *)
Usable(reports) == Filtered(reports, {i \in DOMAIN reports : reports[i] > Sentinel})

(* cross_validate_and_resolve(): a failed reading is replaced by the first  *)
(* usable one of a peer, or dropped; then build_oracle_calls().             *)
Resolved(failed, reports) ==
  LET known == Filtered(Spokes, {i \in DOMAIN Spokes :
                                   Spokes[i] \in failed => Usable(reports[Spokes[i]]) # <<>>})
  IN  [i \in DOMAIN known |->
         [spoke |-> known[i],
          value |-> IF known[i] \in failed THEN Usable(reports[known[i]])[1]
                                           ELSE vault[known[i]]]]

SchedRead ==
  /\ sched.pc = "read"
  /\ \E failed \in SUBSET Unreadable :
       \E reports \in [failed -> PeerReports] :
         sched' = [sched EXCEPT !.pc = "staleness", !.calls = Resolved(failed, reports)]
  /\ UNCHANGED <<vault, oracle, pool, lastPushed, history, warnings, mon,
                 request, notified, env>>

(* check_staleness_and_skip(): the first spoke's oracle stands for all; if  *)
(* it cannot be read the cycle goes on.                                     *)
SchedStaleness ==
  /\ sched.pc = "staleness"
  /\ \/ oracle[Spokes[1]].age < MinUpdateInterval /\ EndCycle
     \/ /\ oracle[Spokes[1]].age >= MinUpdateInterval \/ FlowMayFail
        /\ IF sched.calls = <<>> THEN EndCycle ELSE sched' = [sched EXCEPT !.pc = "select"]
  /\ UNCHANGED <<vault, oracle, pool, lastPushed, history, warnings, mon,
                 request, notified, env>>

(* Mistakes: a push never stops being recent, or one tick too late. *)
FreshForEver(s) == lastPushed[s] # None

FreshAtInterval(s) ==
  /\ SkipIfFresh # 0
  /\ lastPushed[s] # None
  /\ lastPushed[s].age <= SkipIfFresh

(* filter_fresh_spokes() *)
Fresh(s) ==
  /\ SkipIfFresh # 0
  /\ lastPushed[s] # None
  /\ lastPushed[s].age < SkipIfFresh

SchedSelect ==
  /\ sched.pc = "select"
  /\ LET stale  == Filtered(sched.calls, {i \in DOMAIN sched.calls : ~Fresh(sched.calls[i].spoke)})
         passed == Filtered(stale, {i \in DOMAIN stale : DriftLetsThrough(stale[i])})
     IN  /\ history' = AfterDriftCheck(stale)
         /\ IF passed = <<>>
            THEN EndCycle
            ELSE sched' = [sched EXCEPT
                             !.pc = IF Len(passed) > 1 THEN "batch" ELSE "individual",
                             !.calls = passed,
                             !.left = passed]
  /\ UNCHANGED <<vault, oracle, pool, lastPushed, warnings, mon, request,
                 notified, env>>

SchedBatch ==
  LET tx == [direct |-> FALSE, calls |-> sched.calls]
  IN  /\ sched.pc = "batch"
      /\ \/ /\ CanSend("sched", tx)
            /\ pool' = [pool EXCEPT !["sched"] = tx]
            /\ sched' = [sched EXCEPT !.pc = "batchReceipt"]
         \/ /\ SendFails(tx)
            /\ sched' = [sched EXCEPT !.pc = "individual"]
            /\ UNCHANGED pool
      /\ UNCHANGED <<vault, oracle, lastPushed, history, warnings, mon,
                     request, notified, env>>

(* Any receipt counts as success; a lost one counts as failure. *)
SchedBatchReceipt ==
  /\ sched.pc = "batchReceipt"
  /\ pool["sched"] = None
  /\ \/ lastPushed' = Pushed(sched.calls) /\ EndCycle
     \/ /\ FlowMayFail
        /\ sched' = [sched EXCEPT !.pc = "individual"]
        /\ UNCHANGED lastPushed
  /\ UNCHANGED <<vault, oracle, pool, history, warnings, mon, request,
                 notified, env>>

(* Mistake: the first failure ends the fallback. *)
SchedIndividualUntilFailure ==
  /\ sched.pc = "individual"
  /\ sched.left # <<>>
  /\ LET tx == [direct |-> TRUE, calls |-> <<Head(sched.left)>>]
     IN  \/ /\ CanSend("sched", tx)
            /\ pool' = [pool EXCEPT !["sched"] = tx]
            /\ sched' = [sched EXCEPT !.pc = "receipt"]
         \/ SendFails(tx) /\ sched' = [sched EXCEPT !.left = <<>>] /\ UNCHANGED pool
  /\ UNCHANGED <<vault, oracle, lastPushed, history, warnings, mon, request,
                 notified, env>>

(* send_individual_updates(): one after the other, each waiting for its     *)
(* receipt.                                                                 *)
SchedIndividual ==
  /\ sched.pc = "individual"
  /\ sched.left # <<>>
  /\ LET tx == [direct |-> TRUE, calls |-> <<Head(sched.left)>>]
     IN  \/ /\ CanSend("sched", tx)
            /\ pool' = [pool EXCEPT !["sched"] = tx]
            /\ sched' = [sched EXCEPT !.pc = "receipt"]
         \/ /\ SendFails(tx)
            /\ sched' = [sched EXCEPT !.left = Tail(@)]
            /\ UNCHANGED pool
  /\ UNCHANGED <<vault, oracle, lastPushed, history, warnings, mon, request,
                 notified, env>>

SchedReceipt ==
  /\ sched.pc = "receipt"
  /\ pool["sched"] = None
  /\ \/ sched' = [sched EXCEPT !.pc = "individual", !.left = Tail(@),
                               !.succeeded = Append(@, Head(sched.left))]
     \/ FlowMayFail /\ sched' = [sched EXCEPT !.pc = "individual", !.left = Tail(@)]
  /\ UNCHANGED <<vault, oracle, pool, lastPushed, history, warnings, mon,
                 request, notified, env>>

(* Mistakes: failed calls are recorded too; attempts are not counted. *)
SchedFinishRecordingAll ==
  /\ sched.pc = "individual"
  /\ sched.left = <<>>
  /\ IF sched.succeeded # <<>> \/ sched.attempt + 1 >= MaxRetries
     THEN EndCycle
     ELSE sched' = [SchedStart EXCEPT !.attempt = sched.attempt + 1]
  /\ lastPushed' = Pushed(sched.calls)
  /\ UNCHANGED <<vault, oracle, pool, history, warnings, mon, request,
                 notified, env>>

SchedFinishUncounted ==
  /\ sched.pc = "individual"
  /\ sched.left = <<>>
  /\ IF sched.succeeded # <<>> THEN EndCycle ELSE sched' = SchedStart
  /\ lastPushed' = Pushed(sched.succeeded)
  /\ UNCHANGED <<vault, oracle, pool, history, warnings, mon, request,
                 notified, env>>

(* Only a cycle without any success is retried, from the reading on.        *)
SchedFinish ==
  /\ sched.pc = "individual"
  /\ sched.left = <<>>
  /\ IF sched.succeeded # <<>> \/ sched.attempt + 1 >= MaxRetries
     THEN EndCycle
     ELSE sched' = [SchedStart EXCEPT !.attempt = sched.attempt + 1]
  /\ lastPushed' = Pushed(sched.succeeded)
  /\ UNCHANGED <<vault, oracle, pool, history, warnings, mon, request,
                 notified, env>>

(* select!: the interval, or a permit from POST /update *)
SchedWake ==
  /\ sched.pc = "sleep"
  /\ \/ sched.timer = 0 /\ UNCHANGED notified
     \/ notified /\ notified' = FALSE
  /\ sched' = SchedStart
  /\ UNCHANGED <<vault, oracle, pool, lastPushed, history, warnings, mon,
                 request, env>>

SchedStep ==
  \/ SchedBoot \/ SchedRead \/ SchedStaleness \/ SchedSelect
  \/ SchedBatch \/ SchedBatchReceipt
  \/ SchedIndividual \/ SchedReceipt \/ SchedFinish
  \/ SchedWake
=============================================================================
