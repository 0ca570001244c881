------------------------------- MODULE MCPeerMesh -------------------------------
(***************************************************************************)
(* Two keepers while time passes, one of their links weak or none; three,  *)
(* or two of which one is an old program, that start and restart within a  *)
(* tick.                                                                   *)
(***************************************************************************)
EXTENDS PeerMesh

Pair ==
  [peers |-> [a |-> <<"b">>, b |-> <<"a">>],
   legacy |-> {}, timed |-> TRUE, weak |-> {}, crashes |-> 1]

Trio ==
  [Pair EXCEPT !.peers = [a |-> <<"b", "c">>, b |-> <<"c", "a">>, c |-> <<"a", "b">>],
               !.timed = FALSE]

(* Everybody is configured with everybody. *)
Configured ==
  {Pair, Trio, [Pair EXCEPT !.weak = {<<"a", "b">>}],
   [Pair EXCEPT !.legacy = {"b"}, !.timed = FALSE]}

(* Two keepers and a third are configured with each other, the two are not: *)
(* they are to hear of one another.                                         *)
Star ==
  {[Trio EXCEPT !.peers = [a |-> <<"b", "c">>, b |-> <<"a">>, c |-> <<"a">>],
                !.timed = TRUE, !.crashes = 0]}
=============================================================================
