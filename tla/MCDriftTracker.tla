---------------------------- MODULE MCDriftTracker ----------------------------
(***************************************************************************)
(* Instances of DriftTracker: 100 and 110 are within 1000 bps of each      *)
(* other, 110 and 120 too, 100 and 120 are not.                            *)
(***************************************************************************)
EXTENDS DriftTracker

MCValue == {100, 110, 120}
=============================================================================
