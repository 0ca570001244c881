-------------------------- MODULE MCSpokeVaultOracle --------------------------
(***************************************************************************)
(* A small instance of SpokeVaultOracle.  11 is exactly 1000 bps above 10, *)
(* 12 is past it; HugeBps makes the breaker's product overflow; the second *)
(* price makes 12's USD value overflow.                                    *)
(***************************************************************************)
EXTENDS SpokeVaultOracle

MCValue == {0, 10, 11, 12}
HugeBps == 30000
MCBps == {0, 1000, HugeBps}
MCPrice == {5, 25000}
MCMaxWord == 299999
=============================================================================
