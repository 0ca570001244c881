------------------------------- MODULE RoundFeed -------------------------------
(***************************************************************************)
(* What a Chainlink-style aggregator promises its readers, without saying  *)
(* who may write or which values are refused: published rounds form a log  *)
(* that only grows at its end, one positive value at a time, stamped with  *)
(* times that never go back.                                               *)
(***************************************************************************)
EXTENDS Integers, Sequences

VARIABLE log   \* the published rounds, round 1 first

Positive == Nat \ {0}

Entry == [value : Positive, at : Nat]

NotBeforeLast(t) == log = <<>> \/ log[Len(log)].at <= t

FeedInit == log = <<>>

Publish(v, t) ==
  /\ NotBeforeLast(t)
  /\ log' = Append(log, [value |-> v, at |-> t])

(* The entry is read off the new log, so that the step can be checked in   *)
(* any instance without enumerating the numbers.                           *)
FeedNext ==
  /\ Len(log') = Len(log) + 1
  /\ log'[Len(log')] \in Entry
  /\ Publish(log'[Len(log')].value, log'[Len(log')].at)

FeedSpec == FeedInit /\ [][FeedNext]_log
=============================================================================
