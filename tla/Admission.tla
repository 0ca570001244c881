-------------------------------- MODULE Admission --------------------------------
(***************************************************************************)
(* What challenge-response authentication promises: the server issues      *)
(* challenges to wallets, and a challenge lets its own wallet in at most   *)
(* once and not when it is older than MaxAge.  It says nothing of where    *)
(* challenges are kept, or of the requests that come before an admission.  *)
(* A challenge's age counts from the request for it, MaxDelay ago at most. *)
(***************************************************************************)
EXTENDS Naturals

CONSTANTS Wallet, Nonce, MaxAge, MaxDelay, None

VARIABLES
  open,   \* the challenges that may still let somebody in
  last    \* whom the last step let in, with which challenge; or None

vars == <<open, last>>

Init == open = {} /\ last = None

(* Issuing one may make the server forget others. *)
Issue(w, n) ==
  /\ \A c \in open : c.nonce # n
  /\ \E a \in 0 .. MaxDelay, kept \in SUBSET open :
       open' = kept \cup {[wallet |-> w, nonce |-> n, age |-> a]}
  /\ last' = None

Admit(c) ==
  /\ c.age <= MaxAge
  /\ open' = open \ {c}
  /\ last' = [wallet |-> c.wallet, nonce |-> c.nonce]

(* Challenges are used up without success, or forgotten. *)
Lapse ==
  /\ open' \in SUBSET open
  /\ last' = None

TimePasses ==
  /\ open' \in SUBSET {[c EXCEPT !.age = @ + 1] : c \in open}
  /\ last' = None

Next ==
  \/ \E w \in Wallet, n \in Nonce : Issue(w, n)
  \/ \E c \in open : Admit(c)
  \/ Lapse
  \/ TimePasses

Spec == Init /\ [][Next]_vars
=============================================================================
