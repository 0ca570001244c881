------------------------------ MODULE ChallengeAuth ------------------------------
(***************************************************************************)
(* Challenge-response authentication as every protected endpoint of the    *)
(* keeper's API uses it: GET /challenge?wallet= or /peers/challenge, which *)
(* fill one store, and verify_auth_for() in front of each POST.  Both ask  *)
(* the cache of the updater's whitelist.                                   *)
(*                                                                         *)
(* The store has one challenge per wallet, and a wallet has several tasks  *)
(* that use it: the sync loop, cross-validation, propagation of warnings,  *)
(* notifications.  A task here is both sides of one exchange; no lock is   *)
(* held from one step to the next.                                         *)
(*                                                                         *)
(* A tick is one minute; an expiry time is kept as the ticks left until    *)
(* it.  The server drops a request after 30 s, so it sees one tick at most. *)
(***************************************************************************)
EXTENDS Integers, FiniteSetsExt

CONSTANTS
  Wallet,
  Task,          \* who may authenticate
  Assignments,   \* who does, with which wallet: the possibilities
  Revocable,     \* wallets the owner lists and unlists; the others stay listed
  Careless,      \* tasks that post late, not at all, or once more
  WalletTtl,     \* WALLET_CHALLENGE_TTL_SECS, which exceeds PEER_CHALLENGE_TTL_SECS
  CacheTtl,      \* WHITELIST_CACHE_TTL_SECS
  Nonce,         \* names for the challenges somebody remembers at a time
  None

ASSUME AuthAssumption ==
  /\ \A f \in Assignments : f \in [DOMAIN f -> Wallet] /\ DOMAIN f \subseteq Task
  /\ Revocable \subseteq Wallet
  /\ Careless \subseteq Task
  /\ WalletTtl \in Nat \ {0}
  /\ CacheTtl \in Nat \ {0, 1}
  /\ Nonce \subseteq Nat
  /\ None \notin Nat
  /\ None \notin [nonce : Nonce, left : -2 .. WalletTtl]

(* There is always a name that nobody remembers. *)
ASSUME NonceAssumption ==
  /\ IsFiniteSet(Wallet) /\ IsFiniteSet(Task) /\ IsFiniteSet(Nonce)
  /\ Cardinality(Nonce) > Cardinality(Wallet) + Cardinality(Task)

VARIABLES
  walletOf,     \* one of Assignments, for good
  listed,       \* OracleBatchUpdater.isWhitelisted
  unlistedFor,  \* history: the ticks since a wallet was taken off it
  cache,        \* WhitelistCache
  store,        \* WalletChallengeStore
  task,
  last,         \* history: whom the last step let in, with which challenge
  healthy       \* from now on no RPC fails and no request is lost

vars == <<walletOf, listed, unlistedFor, cache, store, task, last, healthy>>

Client == DOMAIN walletOf

Pc == {"idle", "read", "fill", "store", "signed"}

TaskState ==
  [pc : Pc,
   post : BOOLEAN,             \* the POST, not the GET for its challenge
   since : 0 .. 1,             \* ticks since the handler took its `now'
   answer : BOOLEAN,           \* what the whitelist said
   held : Nonce \cup {None},   \* the challenge the client has signed
   left : Int]                 \* of the challenge that is being verified

Idle ==
  [pc |-> "idle", post |-> FALSE, since |-> 0, answer |-> FALSE, held |-> None,
   left |-> 0]

(* What expired two ticks ago is as good as what expired before. *)
TypeOK ==
  /\ walletOf \in Assignments
  /\ listed \in [Wallet -> BOOLEAN]
  /\ unlistedFor \in [Wallet -> 0 .. CacheTtl]
  /\ cache \in [Wallet -> [listed : BOOLEAN, left : 1 .. CacheTtl] \cup {None}]
  /\ store \in [Wallet -> [nonce : Nonce, left : -2 .. WalletTtl] \cup {None}]
  /\ task \in [Client -> TaskState]
  /\ last \in [wallet : Wallet, nonce : Nonce] \cup {None}
  /\ healthy \in BOOLEAN

Init ==
  /\ walletOf \in Assignments
  /\ listed = [w \in Wallet |-> TRUE]
  /\ unlistedFor = [w \in Wallet |-> 0]
  /\ cache = [w \in Wallet |-> None]
  /\ store = [w \in Wallet |-> None]
  /\ task = [t \in Client |-> Idle]
  /\ last = None
  /\ healthy = FALSE

Min2(a, b) == IF a < b THEN a ELSE b

-----------------------------------------------------------------------------
(* A careless client keeps what it has signed. *)
Done(t) == [Idle EXCEPT !.held = IF t \in Careless THEN task[t].held ELSE None]

Refused(t) ==
  /\ task' = [task EXCEPT ![t] = Done(t)]
  /\ last' = None

(* The whitelist has the wallet: a GET goes on, a POST is let in. *)
Passed(t, post) ==
  IF post
  THEN /\ task' = [task EXCEPT ![t] = Done(t)]
       /\ last' = [wallet |-> walletOf[t], nonce |-> task[t].held]
  ELSE /\ task' = [task EXCEPT ![t].pc = "store", ![t].answer = FALSE]
       /\ last' = None

(* is_whitelisted(): an entry of the cache, if there is one that has not    *)
(* expired, else the chain ...                                              *)
Lookup(t, post, left) ==
  LET hit == cache[walletOf[t]]
  IN  \/ hit # None /\ hit.listed /\ Passed(t, post)
      \/ hit # None /\ ~hit.listed /\ Refused(t)
      \/ /\ hit = None
         /\ task' = [task EXCEPT ![t].pc = "read", ![t].post = post,
                                 ![t].left = left, ![t].since = 0]
         /\ last' = None

(* Mistake: a hit keeps the entry alive. *)
GetSliding(t) ==
  /\ task[t].pc = "idle"
  /\ Lookup(t, FALSE, 0)
  /\ cache' = IF cache[walletOf[t]] = None THEN cache
              ELSE [cache EXCEPT ![walletOf[t]].left = CacheTtl]
  /\ UNCHANGED <<walletOf, listed, unlistedFor, store, healthy>>

Get(t) ==
  /\ task[t].pc = "idle"
  /\ Lookup(t, FALSE, 0)
  /\ UNCHANGED <<walletOf, listed, unlistedFor, cache, store, healthy>>

ReadChain(t) ==
  /\ task[t].pc = "read"
  /\ task' = [task EXCEPT ![t].pc = "fill", ![t].answer = listed[walletOf[t]]]
  /\ last' = None
  /\ UNCHANGED <<walletOf, listed, unlistedFor, cache, store, healthy>>

(* Mistakes: the time the lookup took lengthens the entry's; or is ignored. *)
FillLengthened(t) ==
  /\ task[t].pc = "fill"
  /\ cache' = [cache EXCEPT ![walletOf[t]] =
                 [listed |-> task[t].answer, left |-> CacheTtl + task[t].since]]
  /\ IF task[t].answer THEN Passed(t, task[t].post) ELSE Refused(t)
  /\ UNCHANGED <<walletOf, listed, unlistedFor, store, healthy>>

FillFromNow(t) ==
  /\ task[t].pc = "fill"
  /\ cache' = [cache EXCEPT ![walletOf[t]] = [listed |-> task[t].answer, left |-> CacheTtl]]
  /\ IF task[t].answer THEN Passed(t, task[t].post) ELSE Refused(t)
  /\ UNCHANGED <<walletOf, listed, unlistedFor, store, healthy>>

(* ... whose answer is cached from the moment of the lookup on, whatever    *)
(* another request has cached in the meantime.                              *)
Fill(t) ==
  /\ task[t].pc = "fill"
  /\ cache' = [cache EXCEPT ![walletOf[t]] =
                 [listed |-> task[t].answer, left |-> CacheTtl - task[t].since]]
  /\ IF task[t].answer THEN Passed(t, task[t].post) ELSE Refused(t)
  /\ UNCHANGED <<walletOf, listed, unlistedFor, store, healthy>>

Nonces(s) == {s[w].nonce : w \in {v \in Wallet : s[v] # None}}

Remembered == Nonces(store) \cup {task[t].held : t \in Client}

(* A new challenge of the uuid generator: one nobody remembers. *)
Fresh == Min(Nonce \ Remembered)

(* The rest of the GET: expired challenges go, by the `now' from before the *)
(* whitelist check; a challenge the wallet has is given out again.          *)
StoreChallenge(t) ==
  /\ task[t].pc = "store"
  /\ LET w    == walletOf[t]
         kept == [v \in Wallet |->
                    IF store[v] # None /\ store[v].left + task[t].since > 0
                    THEN store[v] ELSE None]
     IN  /\ store' = IF kept[w] # None
                     THEN kept
                     ELSE [kept EXCEPT ![w] = [nonce |-> Fresh,
                                               left |-> WalletTtl - task[t].since]]
         /\ task' = [task EXCEPT ![t].pc = "signed", ![t].held = store'[w].nonce]
  /\ last' = None
  /\ UNCHANGED <<walletOf, listed, unlistedFor, cache, healthy>>

(* Mistakes: a challenge is removed only after it has been accepted; its    *)
(* time is not looked at.                                                   *)
VerifyKeeping(t) ==
  LET mine == store[walletOf[t]]
  IN  /\ store' = IF mine # None /\ mine.left < 0
                  THEN [store EXCEPT ![walletOf[t]] = None] ELSE store
      /\ IF mine # None /\ mine.left >= 0 /\ mine.nonce = task[t].held
         THEN Lookup(t, TRUE, mine.left)
         ELSE Refused(t)

(* verify_auth_inner() up to the whitelist check: the wallet's challenge is *)
(* gone, whatever becomes of the request.                                   *)
Verify(t) ==
  LET mine == store[walletOf[t]]
  IN  /\ store' = [store EXCEPT ![walletOf[t]] = None]
      /\ IF mine # None /\ mine.left >= 0 /\ mine.nonce = task[t].held
         THEN Lookup(t, TRUE, mine.left)
         ELSE Refused(t)

Post(t) ==
  /\ task[t].pc = "signed"
  /\ Verify(t)
  /\ UNCHANGED <<walletOf, listed, unlistedFor, cache, healthy>>

(* A client that got no answer, or does not care, sends its POST again. *)
PostAgain(t) ==
  /\ t \in Careless
  /\ task[t].pc = "idle"
  /\ task[t].held # None
  /\ Verify(t)
  /\ UNCHANGED <<walletOf, listed, unlistedFor, cache, healthy>>

-----------------------------------------------------------------------------
(* The environment.                                                         *)

(* The RPC fails, the timeout layer drops the request at one of its awaits, *)
(* or an answer does not arrive.                                            *)
Drop(t) ==
  /\ ~healthy
  /\ task[t].pc # "idle"
  /\ task' = [task EXCEPT ![t] = Done(t)]
  /\ last' = None
  /\ UNCHANGED <<walletOf, listed, unlistedFor, cache, store, healthy>>

Abandon(t) ==
  /\ t \in Careless
  /\ task[t].pc = "signed"
  /\ task' = [task EXCEPT ![t] = Done(t)]
  /\ last' = None
  /\ UNCHANGED <<walletOf, listed, unlistedFor, cache, store, healthy>>

(* The owner's addKeeper() and removeKeeper(). *)
SetListed(w) ==
  /\ w \in Revocable
  /\ listed' = [listed EXCEPT ![w] = ~@]
  /\ unlistedFor' = [unlistedFor EXCEPT ![w] = 0]
  /\ last' = None
  /\ UNCHANGED <<walletOf, cache, store, task, healthy>>

Recover ==
  /\ ~healthy
  /\ healthy' = TRUE
  /\ last' = None
  /\ UNCHANGED <<walletOf, listed, unlistedFor, cache, store, task>>

(* What does not wait: requests at the server, and programs that sign; from *)
(* a program's GET to its POST at most one tick passes too.                 *)
Hurries(t) ==
  \/ task[t].pc \notin {"idle", "signed"}
  \/ task[t].pc = "signed" /\ t \notin Careless

Tick ==
  /\ \A t \in Client : Hurries(t) => task[t].since = 0
  /\ task' = [t \in Client |-> IF Hurries(t)
                             THEN [task[t] EXCEPT !.since = 1,
                                                  !.left = IF task[t].post THEN @ - 1 ELSE @]
                             ELSE task[t]]
  /\ cache' = [w \in Wallet |-> IF cache[w] = None \/ cache[w].left = 1 THEN None
                                ELSE [cache[w] EXCEPT !.left = @ - 1]]
  /\ store' = [w \in Wallet |-> IF store[w] = None \/ store[w].left = -2 THEN store[w]
                                ELSE [store[w] EXCEPT !.left = @ - 1]]
  /\ unlistedFor' = [w \in Wallet |-> IF listed[w] THEN unlistedFor[w]
                                      ELSE Min2(unlistedFor[w] + 1, CacheTtl)]
  /\ last' = None
  /\ UNCHANGED <<walletOf, listed, healthy>>

Serve(t) == ReadChain(t) \/ Fill(t) \/ StoreChallenge(t)

Next ==
  \/ \E t \in Client : Get(t) \/ Serve(t) \/ Post(t) \/ PostAgain(t) \/ Drop(t) \/ Abandon(t)
  \/ \E w \in Wallet : SetListed(w)
  \/ Recover
  \/ Tick

(* The server serves, the keeper's own tasks go on, and time passes. *)
Fairness ==
  /\ \A t \in Task : WF_vars(t \in Client /\ Serve(t))
  /\ \A t \in Task \ Careless :
       WF_vars(t \in Client /\ Get(t)) /\ WF_vars(t \in Client /\ Post(t))
  /\ SF_vars(Tick)

Spec == Init /\ [][Next]_vars /\ Fairness

-----------------------------------------------------------------------------
(* The challenges that are in the store or have just been taken from it.    *)
Open ==
  {c \in
     {[wallet |-> w, nonce |-> store[w].nonce, age |-> WalletTtl - store[w].left] :
        w \in {v \in Wallet : store[v] # None}}
     \cup
     {[wallet |-> walletOf[t], nonce |-> task[t].held, age |-> WalletTtl - task[t].left] :
        t \in {u \in Client : task[u].post}} :
   c.age <= WalletTtl + 1}

Promise ==
  INSTANCE Admission WITH open <- Open, MaxAge <- WalletTtl + 1, MaxDelay <- 1

(* Every admission is by a challenge issued to the same wallet, not yet     *)
(* used, and not expired when it was posted, however the requests of the    *)
(* wallet's tasks interleave (update.rs:239: "single-use").                 *)
ChallengesAdmitOnce == Promise!Spec

(* Nobody is let in CacheTtl after he was taken off the whitelist,          *)
(* though both the lookup and the answer of the chain may be stale when an  *)
(* entry is cached, and an older answer may overwrite a newer one.          *)
RevokedRefused ==
  [][last' # None => LET w == last'.wallet
                     IN  listed[w] \/ unlistedFor[w] < CacheTtl]_vars

(* A keeper task that has its wallet to itself gets in again and again once *)
(* nothing fails, whatever it left behind in the store and the cache.       *)
Alone(t) ==
  t \in Client \ Careless /\ \A u \in Client \ {t} : walletOf[u] # walletOf[t]

LoneClientServed ==
  \A t \in Task \ Careless :
    <>[](Alone(t) /\ healthy /\ listed[walletOf[t]])
      => []<>(Alone(t) /\ last # None /\ last.wallet = walletOf[t])
=============================================================================
