------------------------------ MODULE BasisPoints ------------------------------
(***************************************************************************)
(* The arithmetic every comparison of two totalAssets() values rests on,   *)
(* on chain and in the keeper.                                             *)
(***************************************************************************)
EXTENDS Integers

BpsScale == 10000

Distance(a, b) == IF a > b THEN a - b ELSE b - a

(* How far v is from the reference, in whole basis points, rounded down.    *)
(* A zero reference counts as no change.  The keeper saturates at the end   *)
(* of u64 what would overflow, far above any threshold compared with it.    *)
DeltaBps(reference, v) ==
  IF reference = 0 THEN 0
                   ELSE (Distance(reference, v) * BpsScale) \div reference
=============================================================================
