----------------------------- MODULE MCChallengeAuth -----------------------------
(***************************************************************************)
(* Two tasks that share a wallet, one of them careless; and one by itself. *)
(* WalletTtl is the code's two minutes; the cache's five are shortened to  *)
(* two.                                                                    *)
(***************************************************************************)
EXTENDS ChallengeAuth

SharedOrOwn ==
  {[program |-> "w1", script |-> "w1"], [program |-> "w1", other |-> "w2"]}
=============================================================================
