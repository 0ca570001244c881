-------------------------------- MODULE MCKeeper --------------------------------
(***************************************************************************)
(* Instances of Keeper.  With a breaker of 950 bps an oracle takes 110 to  *)
(* 100 but not 100 to 110; with 500 bps it takes neither, nor does the     *)
(* drift tracker.  Time is config.toml's, a tick being half an hour;       *)
(* README.md says which instances break which property.                    *)
(***************************************************************************)
EXTENDS Keeper

TwoSpokes == <<"first", "second">>
OneSpoke == <<"first">>

Near == {100, 110}
Reading == Near \cup {Sentinel}

Steady ==
  [reliable |-> TRUE, listed |-> Spoke, drift |-> FALSE, breaker |-> 0,
   others |-> FALSE, peersFail |-> FALSE, warners |-> {}, warnings |-> 0,
   restarts |-> 0, posts |-> 0]
Warned(by, n) ==
  [Steady EXCEPT !.breaker = 500, !.warners = by, !.warnings = n]
Failing(e) == [e EXCEPT !.reliable = FALSE]

Alone == {Steady}

(* The scheduled loop alone: breakers that trip, oracles that whitelist the *)
(* wallet, the updater only (OracleBatchUpdater.sol:14) or one of each, and *)
(* an RPC that fails.                                                       *)
Tripping == [Steady EXCEPT !.breaker = 950]

Scheduled ==
  {Tripping,
   [Tripping EXCEPT !.listed = {"second"}],
   [Tripping EXCEPT !.listed = {}],
   Failing(Tripping),
   Failing([Steady EXCEPT !.restarts = 1])}

(* Both loops: among other keepers, behind a failing RPC, under the drift   *)
(* limit, and while bridges are announced, the breaker on or off.           *)
Crowded ==
  [Steady EXCEPT !.others = TRUE, !.peersFail = TRUE, !.restarts = 1, !.posts = 1]

BothLoops ==
  {Crowded,
   Failing(Steady),
   [Steady EXCEPT !.drift = TRUE, !.restarts = 1],
   Warned({"curator"}, 1),
   [Warned({"curator", "peer"}, 2) EXCEPT !.breaker = 0],
   Failing(Warned({"curator", "peer"}, 1))}

OneBridge == {Warned({"curator"}, 1)}
TwoBridges == {Warned({"curator"}, 2)}
=============================================================================
