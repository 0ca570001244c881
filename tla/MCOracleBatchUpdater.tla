------------------------- MODULE MCOracleBatchUpdater -------------------------
(***************************************************************************)
(* Two oracles, one updater, and one account that owns the contracts and   *)
(* also acts as the keeper wallet.  12 trips a 1000 bps breaker from 10.   *)
(***************************************************************************)
EXTENDS OracleBatchUpdater

MCValue == {10, 12}
MCBps == {0, 1000}
OracleSymmetry == Permutations(Oracle)
=============================================================================
