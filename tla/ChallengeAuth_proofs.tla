-------------------------- MODULE ChallengeAuth_proofs --------------------------
(***************************************************************************)
(* What authentication guarantees for every set of wallets and tasks,      *)
(* every way to share them, and every life of a challenge and of a cache   *)
(* entry.                                                                  *)
(***************************************************************************)
EXTENDS ChallengeAuth, FiniteSetTheorems, TLAPS

(* A non-empty set of natural numbers has a least element. *)
LEMMA LeastElement ==
  ASSUME NEW S \in SUBSET Nat, S # {}
  PROVE  Min(S) \in S
<1>1. PICK x \in S : \A y \in S : ~(<<y, x>> \in OpToRel(<, Nat))
  BY NatLessThanWellFounded, WFMin
<1>2. ASSUME NEW y \in S
      PROVE  x <= y
  <2>1. <<y, x>> \in Nat \X Nat /\ ~(<<y, x>>[1] < <<y, x>>[2])
    BY <1>1 DEF OpToRel
  <2> QED BY <2>1
<1> QED BY <1>2 DEF Min

-----------------------------------------------------------------------------
(* There is a name for a new challenge that no other challenge bears: the   *)
(* store remembers one per wallet, and the tasks one each.                  *)
LEMMA FreshIsNew ==
  ASSUME TypeOK
  PROVE  Fresh \in Nonce \ Remembered
<1> DEFINE stored == {n \in Nonce : n \in Nonces(store)}
           kept   == {n \in Nonce : n \in {task[t].held : t \in Client}}
           f      == [n \in stored |-> CHOOSE w \in Wallet : store[w] # None /\ store[w].nonce = n]
           g      == [n \in kept |-> CHOOSE t \in Client : task[t].held = n]
<1>1. IsFiniteSet(stored) /\ Cardinality(stored) <= Cardinality(Wallet)
  <2>1. \A n \in stored : \E w \in Wallet : store[w] # None /\ store[w].nonce = n
    BY DEF Nonces
  <2>2. \A n \in stored : f[n] \in Wallet /\ store[f[n]].nonce = n
    BY <2>1
  <2>3. f \in [stored -> Wallet]
    BY <2>1
  <2> HIDE DEF stored, f
  <2>4. f \in Injection(stored, Wallet)
    BY <2>2, <2>3 DEF Injection, IsInjective
  <2> QED BY <2>4, FS_Injection, NonceAssumption
<1>2. IsFiniteSet(kept) /\ Cardinality(kept) <= Cardinality(Task)
  <2>1. Client \subseteq Task
    BY AuthAssumption DEF TypeOK, Client
  <2>2. \A n \in kept : g[n] \in Client /\ task[g[n]].held = n
    OBVIOUS
  <2>3. g \in [kept -> Task]
    BY <2>1
  <2> HIDE DEF kept, g
  <2>4. g \in Injection(kept, Task)
    BY <2>2, <2>3 DEF Injection, IsInjective
  <2> QED BY <2>4, FS_Injection, NonceAssumption
<1>3. IsFiniteSet(stored \cup kept)
      /\ Cardinality(stored \cup kept) <= Cardinality(stored) + Cardinality(kept)
  <2>1. Cardinality(stored \cap kept) \in Nat
    BY <1>1, <1>2, FS_Intersection, FS_CardinalityType
  <2>2. Cardinality(stored) \in Nat /\ Cardinality(kept) \in Nat
    BY <1>1, <1>2, FS_CardinalityType
  <2> HIDE DEF stored, kept
  <2>3. /\ IsFiniteSet(stored \cup kept)
        /\ Cardinality(stored \cup kept)
             = Cardinality(stored) + Cardinality(kept) - Cardinality(stored \cap kept)
    BY <1>1, <1>2, FS_Union
  <2> QED BY <2>1, <2>2, <2>3
<1>4. Nonce \ Remembered # {}
  <2> SUFFICES ASSUME Nonce \subseteq Remembered PROVE FALSE
    OBVIOUS
  <2>1. Nonce \subseteq stored \cup kept
    BY DEF Remembered
  <2>2. Cardinality(Nonce) <= Cardinality(stored \cup kept)
    <3> HIDE DEF stored, kept
    <3> QED BY <2>1, <1>3, FS_Subset
  <2>3. /\ Cardinality(stored) \in Nat /\ Cardinality(kept) \in Nat
        /\ Cardinality(stored \cup kept) \in Nat
        /\ Cardinality(Nonce) \in Nat
        /\ Cardinality(Wallet) \in Nat /\ Cardinality(Task) \in Nat
    <3> HIDE DEF stored, kept
    <3> QED BY <1>1, <1>2, <1>3, FS_CardinalityType, NonceAssumption
  <2> HIDE DEF stored, kept
  <2> QED BY <1>1, <1>2, <1>3, <2>2, <2>3, NonceAssumption
<1> QED BY <1>4, LeastElement, AuthAssumption DEF Fresh

-----------------------------------------------------------------------------
(* A task that posts is at its lookup, and it and a task about to post hold *)
(* a challenge.                                                             *)
TasksInPhase ==
  \A t \in Client :
    /\ task[t].post => task[t].pc \in {"read", "fill"} /\ task[t].held # None
    /\ task[t].pc = "signed" => task[t].held # None

TypeInv == TypeOK /\ TasksInPhase

(* One task moves on. *)
LEMMA TaskMoves ==
  ASSUME TypeInv, NEW t \in Client, NEW r \in TaskState,
         task' = [task EXCEPT ![t] = r], UNCHANGED walletOf,
         r.post => r.pc \in {"read", "fill"} /\ r.held # None,
         r.pc = "signed" => r.held # None
  PROVE  task' \in [Client -> TaskState] /\ TasksInPhase'
BY DEF TypeInv, TypeOK, TasksInPhase, Client

(* What a task's record consists of. *)
LEMMA TaskFields ==
  ASSUME TypeInv, NEW t \in Client
  PROVE  /\ task[t] = [pc |-> task[t].pc, post |-> task[t].post, since |-> task[t].since,
                       answer |-> task[t].answer, held |-> task[t].held,
                       left |-> task[t].left]
         /\ task[t].pc \in Pc /\ task[t].post \in BOOLEAN /\ task[t].since \in 0 .. 1
         /\ task[t].answer \in BOOLEAN /\ task[t].held \in Nonce \cup {None}
         /\ task[t].left \in Int
BY DEF TypeInv, TypeOK, TaskState

(* A task gives up, keeping what it has signed if it is careless. *)
LEMMA DoneType ==
  ASSUME TypeInv, NEW t \in Client, task' = [task EXCEPT ![t] = Done(t)], UNCHANGED walletOf
  PROVE  task' \in [Client -> TaskState] /\ TasksInPhase'
<1>1. PICK h \in Nonce \cup {None} : Done(t) = [Idle EXCEPT !.held = h]
  BY TaskFields DEF Done
<1>2. Done(t) = [pc |-> "idle", post |-> FALSE, since |-> 0, answer |-> FALSE,
                 held |-> h, left |-> 0]
  BY <1>1 DEF Idle
<1>3. Done(t) \in TaskState /\ Done(t).pc = "idle" /\ ~Done(t).post
  BY <1>2 DEF TaskState, Pc
<1> QED BY <1>3, TaskMoves

LEMMA RefusedType ==
  ASSUME TypeInv, NEW t \in Client, Refused(t), UNCHANGED walletOf
  PROVE  task' \in [Client -> TaskState] /\ TasksInPhase' /\ last' = None
BY DoneType DEF Refused

(* The whitelist has the wallet. *)
LEMMA PassedType ==
  ASSUME TypeInv, NEW t \in Client, NEW post \in BOOLEAN, Passed(t, post),
         UNCHANGED walletOf,
         post => task[t].held # None,
         ~post => ~task[t].post
  PROVE  task' \in [Client -> TaskState] /\ TasksInPhase'
         /\ last' \in [wallet : Wallet, nonce : Nonce] \cup {None}
<1>1. CASE post
  <2>1. task' \in [Client -> TaskState] /\ TasksInPhase'
    BY <1>1, DoneType DEF Passed
  <2>2. last' = [wallet |-> walletOf[t], nonce |-> task[t].held]
    BY <1>1 DEF Passed
  <2>3. walletOf[t] \in Wallet
    BY AuthAssumption DEF TypeInv, TypeOK, Client
  <2>4. task[t].held \in Nonce
    BY <1>1, TaskFields
  <2> QED BY <2>1, <2>2, <2>3, <2>4
<1>2. CASE ~post
  <2> DEFINE r == [pc |-> "store", post |-> FALSE, since |-> task[t].since,
                   answer |-> FALSE, held |-> task[t].held, left |-> task[t].left]
  <2>1. r \in TaskState
    BY TaskFields DEF TaskState, Pc
  <2>2. task[t].post = FALSE
    BY <1>2, TaskFields
  <2>3. task' = [task EXCEPT ![t] = r] /\ last' = None
    BY <1>2, <2>2, TaskFields DEF Passed
  <2> QED BY <2>1, <2>3, TaskMoves
<1> QED BY <1>1, <1>2

(* A lookup: a hit, or a question to the chain. *)
LEMMA LookupType ==
  ASSUME TypeInv, NEW t \in Client, NEW post \in BOOLEAN, NEW left \in Int,
         Lookup(t, post, left), UNCHANGED walletOf,
         task[t].pc \in {"idle", "signed"},
         post => task[t].held # None
  PROVE  task' \in [Client -> TaskState] /\ TasksInPhase'
         /\ last' \in [wallet : Wallet, nonce : Nonce] \cup {None}
<1>1. ~task[t].post
  BY DEF TypeInv, TasksInPhase
<1>2. CASE Passed(t, post)
  BY <1>1, <1>2, PassedType
<1>3. CASE Refused(t)
  BY <1>3, RefusedType
<1>4. CASE /\ task' = [task EXCEPT ![t].pc = "read", ![t].post = post,
                                   ![t].left = left, ![t].since = 0]
           /\ last' = None
  <2> DEFINE r == [task[t] EXCEPT !.pc = "read", !.post = post, !.left = left,
                                  !.since = 0]
  <2>1. task[t] \in TaskState
    BY DEF TypeInv, TypeOK
  <2>2. r = [task[t] EXCEPT !.pc = "read", !.post = post, !.left = left, !.since = 0]
    OBVIOUS
  <2>3. task' = [task EXCEPT ![t] = r]
    BY <1>4
  <2> HIDE DEF r
  <2>4. 0 \in 0 .. 1 /\ "read" \in Pc
    BY DEF Pc
  <2>5. r \in TaskState
    BY <2>1, <2>2, <2>4, Zenon DEF TaskState
  <2>6. r.pc = "read" /\ r.held = task[t].held
    BY <2>1, <2>2 DEF TaskState
  <2>7. r.post = post
    BY <2>1, <2>2 DEF TaskState
  <2> QED BY <1>4, <2>3, <2>5, <2>6, <2>7, TaskMoves
<1> QED BY <1>2, <1>3, <1>4 DEF Lookup

(* The part of a POST that is before its lookup. *)
LEMMA VerifyType ==
  ASSUME TypeInv, NEW t \in Client, Verify(t), UNCHANGED walletOf,
         task[t].pc \in {"idle", "signed"}
  PROVE  /\ task' \in [Client -> TaskState] /\ TasksInPhase'
         /\ last' \in [wallet : Wallet, nonce : Nonce] \cup {None}
         /\ store' = [store EXCEPT ![walletOf[t]] = None]
<1> DEFINE mine == store[walletOf[t]]
<1>1. walletOf[t] \in Wallet
  BY AuthAssumption DEF TypeInv, TypeOK, Client
<1>2. CASE mine # None /\ mine.left >= 0 /\ mine.nonce = task[t].held
  <2>1. mine.nonce \in Nonce /\ mine.left \in Int
    BY <1>1, <1>2 DEF TypeInv, TypeOK
  <2>2. Lookup(t, TRUE, mine.left)
    BY <1>2 DEF Verify
  <2>3. task[t].held # None
    BY <1>2, <2>1, AuthAssumption
  <2>4. store' = [store EXCEPT ![walletOf[t]] = None]
    BY DEF Verify
  <2> HIDE DEF mine
  <2> QED BY <2>1, <2>2, <2>3, <2>4, LookupType
<1>3. CASE ~(mine # None /\ mine.left >= 0 /\ mine.nonce = task[t].held)
  BY <1>3, RefusedType DEF Verify
<1> QED BY <1>2, <1>3

-----------------------------------------------------------------------------
LEMMA InitType == Init => TypeInv
<1> SUFFICES ASSUME Init PROVE TypeInv
  OBVIOUS
<1>1. Idle \in TaskState /\ Idle.pc = "idle" /\ ~Idle.post
  BY DEF Idle, TaskState, Pc
<1>2. task \in [Client -> TaskState] /\ TasksInPhase
  BY <1>1 DEF Init, TasksInPhase
<1>3. 0 \in 0 .. CacheTtl
  BY AuthAssumption
<1>4. /\ listed \in [Wallet -> BOOLEAN] /\ unlistedFor \in [Wallet -> 0 .. CacheTtl]
      /\ healthy \in BOOLEAN
  BY <1>3 DEF Init
<1> QED BY <1>2, <1>4 DEF Init, TypeInv, TypeOK

(* Every step keeps the state within its types. *)
LEMMA NextType ==
  ASSUME TypeInv, [Next]_vars
  PROVE  TypeInv'
<1>0. TypeOK /\ TasksInPhase
  BY DEF TypeInv
<1>w. ASSUME NEW t \in Client PROVE walletOf[t] \in Wallet
  BY <1>0, AuthAssumption DEF TypeOK, Client
<1>1. ASSUME NEW t \in Client, Get(t)
      PROVE  TypeInv'
  <2>1. task' \in [Client -> TaskState] /\ TasksInPhase'
        /\ last' \in [wallet : Wallet, nonce : Nonce] \cup {None}
    <3>1. Lookup(t, FALSE, 0) /\ task[t].pc = "idle" /\ walletOf' = walletOf
      BY <1>1 DEF Get
    <3>2. 0 \in Int /\ FALSE \in BOOLEAN
      OBVIOUS
    <3> QED BY <3>1, <3>2, LookupType, Zenon
  <2> QED BY <1>0, <1>1, <2>1 DEF Get, TypeInv, TypeOK, Client
<1>2. ASSUME NEW t \in Client, ReadChain(t)
      PROVE  TypeInv'
  <2> DEFINE r == [task[t] EXCEPT !.pc = "fill", !.answer = listed[walletOf[t]]]
  <2>1. /\ task[t] \in TaskState /\ "fill" \in Pc /\ listed[walletOf[t]] \in BOOLEAN
        /\ task[t].post => task[t].held # None
    BY <1>0, <1>w DEF TypeOK, TasksInPhase, Pc
  <2>2. r \in TaskState
    BY <2>1, Zenon DEF TaskState
  <2>3. r.pc = "fill" /\ r.held = task[t].held
    BY <2>1 DEF TaskState
  <2>4. r.post = task[t].post
    BY <2>1 DEF TaskState
  <2>5. task' = [task EXCEPT ![t] = r] /\ UNCHANGED walletOf
    BY <1>2 DEF ReadChain
  <2>6. task' \in [Client -> TaskState] /\ TasksInPhase'
    <3> HIDE DEF r
    <3> QED BY <2>1, <2>2, <2>3, <2>4, <2>5, TaskMoves
  <2> QED BY <1>0, <1>2, <2>6 DEF ReadChain, TypeInv, TypeOK, Client
<1>3. ASSUME NEW t \in Client, Fill(t)
      PROVE  TypeInv'
  <2>1. task' \in [Client -> TaskState] /\ TasksInPhase'
        /\ last' \in [wallet : Wallet, nonce : Nonce] \cup {None}
    <3>1. task[t].post \in BOOLEAN /\ (task[t].post => task[t].held # None)
      BY <1>0, TaskFields DEF TasksInPhase
    <3>2. CASE task[t].answer
      BY <1>3, <3>1, <3>2, PassedType DEF Fill
    <3>3. CASE ~task[t].answer
      BY <1>3, <3>3, RefusedType DEF Fill
    <3> QED BY <3>2, <3>3
  <2>2. cache' \in [Wallet -> [listed : BOOLEAN, left : 1 .. CacheTtl] \cup {None}]
    <3>1. task[t].since \in 0 .. 1 /\ task[t].answer \in BOOLEAN
      BY TaskFields
    <3>2. CacheTtl - task[t].since \in 1 .. CacheTtl
      BY <3>1, AuthAssumption
    <3> QED BY <1>0, <1>w, <1>3, <3>1, <3>2 DEF Fill, TypeOK
  <2> QED BY <1>0, <1>3, <2>1, <2>2 DEF Fill, TypeInv, TypeOK, Client
<1>4. ASSUME NEW t \in Client, StoreChallenge(t)
      PROVE  TypeInv'
  <2> DEFINE w == walletOf[t]
             kept == [v \in Wallet |->
                        IF store[v] # None /\ store[v].left + task[t].since > 0
                        THEN store[v] ELSE None]
  <2>1. kept \in [Wallet -> [nonce : Nonce, left : -2 .. WalletTtl] \cup {None}]
    BY <1>0 DEF TypeOK
  <2>2. [nonce |-> Fresh, left |-> WalletTtl - task[t].since]
          \in [nonce : Nonce, left : -2 .. WalletTtl]
    <3>1. task[t].since \in 0 .. 1
      BY TaskFields
    <3>2. Fresh \in Nonce
      BY <1>0, FreshIsNew
    <3> QED BY <3>1, <3>2, AuthAssumption
  <2>3. store' \in [Wallet -> [nonce : Nonce, left : -2 .. WalletTtl] \cup {None}]
    BY <1>w, <1>4, <2>1, <2>2 DEF StoreChallenge
  <2>4. store'[w] # None
    BY <1>w, <1>4, <2>1, <2>2, AuthAssumption DEF StoreChallenge
  <2>5. store'[w].nonce \in Nonce
    BY <1>w, <2>3, <2>4
  <2> DEFINE r == [task[t] EXCEPT !.pc = "signed", !.held = store'[w].nonce]
  <2>6. /\ task[t] \in TaskState /\ "signed" \in Pc /\ task[t].post = FALSE
        /\ store'[w].nonce # None
    BY <1>0, <1>4, <2>5, AuthAssumption, TaskFields
    DEF TypeOK, TasksInPhase, Pc, StoreChallenge
  <2>7. r \in TaskState
    BY <2>5, <2>6, Zenon DEF TaskState
  <2>8. r.post = FALSE /\ r.held # None
    BY <2>6 DEF TaskState
  <2>9. task' = [task EXCEPT ![t] = r] /\ UNCHANGED walletOf
    <3>1. task' = [task EXCEPT ![t].pc = "signed", ![t].held = store'[walletOf[t]].nonce]
      BY <1>4, Zenon DEF StoreChallenge
    <3>2. UNCHANGED walletOf
      BY <1>4 DEF StoreChallenge
    <3> QED BY <3>1, <3>2
  <2>10. task' \in [Client -> TaskState] /\ TasksInPhase'
    <3> HIDE DEF r
    <3> QED BY <2>7, <2>8, <2>9, TaskMoves
  <2> QED BY <1>0, <1>4, <2>3, <2>10 DEF StoreChallenge, TypeInv, TypeOK, Client
<1>5. ASSUME NEW t \in Client, Post(t) \/ PostAgain(t)
      PROVE  TypeInv'
  <2>1. /\ task' \in [Client -> TaskState] /\ TasksInPhase'
        /\ last' \in [wallet : Wallet, nonce : Nonce] \cup {None}
        /\ store' = [store EXCEPT ![walletOf[t]] = None]
    BY <1>5, VerifyType DEF Post, PostAgain
  <2> QED BY <1>0, <1>w, <1>5, <2>1 DEF Post, PostAgain, TypeInv, TypeOK, Client
<1>6. ASSUME NEW t \in Client, Drop(t) \/ Abandon(t)
      PROVE  TypeInv'
  <2>1. task' \in [Client -> TaskState] /\ TasksInPhase'
    BY <1>6, DoneType DEF Drop, Abandon
  <2> QED BY <1>0, <1>6, <2>1 DEF Drop, Abandon, TypeInv, TypeOK, Client
<1>7. ASSUME NEW w \in Wallet, SetListed(w)
      PROVE  TypeInv'
  BY <1>0, <1>7, AuthAssumption DEF SetListed, TypeInv, TypeOK, TasksInPhase, Client
<1>8. CASE Recover
  BY <1>0, <1>8 DEF Recover, TypeInv, TypeOK, TasksInPhase, Client
<1>9. CASE Tick
  <2>1. ASSUME NEW t \in Client
        PROVE  /\ task'[t] \in TaskState
               /\ task'[t].pc = task[t].pc /\ task'[t].held = task[t].held
               /\ task'[t].post = task[t].post
    <3>1. task[t] \in TaskState /\ task[t].left - 1 \in Int /\ 1 \in 0 .. 1
      BY <1>0 DEF TypeOK, TaskState
    <3>2. PICK l \in Int : task'[t] \in {task[t], [task[t] EXCEPT !.since = 1, !.left = l]}
      BY <1>9, <3>1, TaskFields DEF Tick
    <3>3. task'[t] \in TaskState
      BY <3>1, <3>2, Zenon DEF TaskState
    <3>4. task'[t].pc = task[t].pc /\ task'[t].held = task[t].held
      BY <3>1, <3>2 DEF TaskState
    <3>5. task'[t].post = task[t].post
      BY <3>1, <3>2 DEF TaskState
    <3> QED BY <3>3, <3>4, <3>5
  <2>2. task' \in [Client -> TaskState] /\ TasksInPhase'
    BY <1>0, <1>9, <2>1 DEF Tick, TasksInPhase, Client
  <2>3. ASSUME NEW w \in Wallet
        PROVE  /\ cache'[w] \in [listed : BOOLEAN, left : 1 .. CacheTtl] \cup {None}
               /\ store'[w] \in [nonce : Nonce, left : -2 .. WalletTtl] \cup {None}
               /\ unlistedFor'[w] \in 0 .. CacheTtl
    <3>1. cache'[w] \in [listed : BOOLEAN, left : 1 .. CacheTtl] \cup {None}
      <4>1. cache'[w] = IF cache[w] = None \/ cache[w].left = 1 THEN None
                        ELSE [cache[w] EXCEPT !.left = @ - 1]
        BY <1>9 DEF Tick
      <4>2. cache[w] \in [listed : BOOLEAN, left : 1 .. CacheTtl] \cup {None}
        BY <1>0 DEF TypeOK
      <4>3. CASE cache[w] # None /\ cache[w].left # 1
        <5>1. cache[w].left - 1 \in 1 .. CacheTtl
          BY <4>2, <4>3, AuthAssumption
        <5> QED BY <4>1, <4>2, <4>3, <5>1
      <4> QED BY <4>1, <4>3
    <3>2. store'[w] \in [nonce : Nonce, left : -2 .. WalletTtl] \cup {None}
      <4>1. store'[w] = IF store[w] = None \/ store[w].left = -2 THEN store[w]
                        ELSE [store[w] EXCEPT !.left = @ - 1]
        BY <1>9 DEF Tick
      <4>2. store[w] \in [nonce : Nonce, left : -2 .. WalletTtl] \cup {None}
        BY <1>0 DEF TypeOK
      <4>3. CASE store[w] # None /\ store[w].left # -2
        <5>1. store[w].left - 1 \in -2 .. WalletTtl
          BY <4>2, <4>3, AuthAssumption
        <5> QED BY <4>1, <4>2, <4>3, <5>1
      <4> QED BY <4>1, <4>2, <4>3
    <3>3. unlistedFor'[w] \in 0 .. CacheTtl
      <4>1. unlistedFor'[w] = IF listed[w] THEN unlistedFor[w]
                              ELSE Min2(unlistedFor[w] + 1, CacheTtl)
        BY <1>9 DEF Tick
      <4>2. unlistedFor[w] \in 0 .. CacheTtl
        BY <1>0 DEF TypeOK
      <4> QED BY <4>1, <4>2, AuthAssumption DEF Min2
    <3> QED BY <3>1, <3>2, <3>3
  <2>4. /\ cache' \in [Wallet -> [listed : BOOLEAN, left : 1 .. CacheTtl] \cup {None}]
        /\ store' \in [Wallet -> [nonce : Nonce, left : -2 .. WalletTtl] \cup {None}]
        /\ unlistedFor' \in [Wallet -> 0 .. CacheTtl]
    BY <1>9, <2>3 DEF Tick
  <2> QED BY <1>0, <1>9, <2>2, <2>4 DEF Tick, TypeInv, TypeOK, Client
<1>10. CASE UNCHANGED vars
  BY <1>0, <1>10 DEF vars, TypeInv, TypeOK, TasksInPhase, Client
<1> QED
  BY <1>1, <1>2, <1>3, <1>4, <1>5, <1>6, <1>7, <1>8, <1>9, <1>10 DEF Next, Serve

(* Challenges, cache entries and tasks stay within their types: no expiry   *)
(* time exceeds its life, and a challenge can always be issued.             *)
THEOREM TypeCorrect == Spec => []TypeOK
<1>1. Init => TypeInv
  BY InitType
<1>2. TypeInv /\ [Next]_vars => TypeInv'
  BY NextType
<1>3. TypeInv => TypeOK
  BY DEF TypeInv
<1> QED BY <1>1, <1>2, <1>3, PTL DEF Spec

-----------------------------------------------------------------------------
(* A good entry of a revoked wallet is at least as old as the revocation:   *)
(* the lookup that made it started before, though its answer may have been  *)
(* cached after.                                                            *)
EntriesRunOut ==
  \A w \in Wallet :
    ~listed[w] /\ cache[w] # None /\ cache[w].listed
      => unlistedFor[w] + cache[w].left <= CacheTtl

(* And so is a good answer that is not cached yet. *)
AnswersArePrompt ==
  \A t \in Client :
    task[t].pc = "fill" /\ task[t].answer /\ ~listed[walletOf[t]]
      => unlistedFor[walletOf[t]] <= task[t].since

CacheInv == TypeInv /\ EntriesRunOut /\ AnswersArePrompt

(* What a step of a task leaves alone that brings it no answer.             *)
KeepsAnswers(t) ==
  /\ task'[t].pc # "fill"
  /\ \A u \in Client \ {t} : task'[u] = task[u]

LEMMA DoneKeeps ==
  ASSUME TypeInv, NEW t \in Client, task' = [task EXCEPT ![t] = Done(t)]
  PROVE  KeepsAnswers(t)
<1>1. Done(t).pc = "idle"
  BY DEF Done, Idle
<1> QED BY <1>1 DEF KeepsAnswers, TypeInv, TypeOK

LEMMA PassedKeeps ==
  ASSUME TypeInv, NEW t \in Client, NEW post \in BOOLEAN, Passed(t, post)
  PROVE  KeepsAnswers(t)
<1>1. CASE post
  BY <1>1, DoneKeeps DEF Passed
<1>2. CASE ~post
  <2>1. task' = [task EXCEPT ![t].pc = "store", ![t].answer = FALSE]
    BY <1>2 DEF Passed
  <2>2. task'[t].pc = "store"
    BY <2>1, TaskFields DEF TypeInv, TypeOK, TaskState
  <2> QED BY <2>1, <2>2 DEF KeepsAnswers, TypeInv, TypeOK
<1> QED BY <1>1, <1>2

LEMMA LookupKeeps ==
  ASSUME TypeInv, NEW t \in Client, NEW post \in BOOLEAN, NEW left,
         Lookup(t, post, left)
  PROVE  KeepsAnswers(t)
<1>1. CASE Passed(t, post)
  BY <1>1, PassedKeeps
<1>2. CASE Refused(t)
  BY <1>2, DoneKeeps DEF Refused
<1>3. CASE task' = [task EXCEPT ![t].pc = "read", ![t].post = post,
                                ![t].left = left, ![t].since = 0]
  <2>1. task'[t].pc = "read"
    BY <1>3 DEF TypeInv, TypeOK, TaskState
  <2> QED BY <1>3, <2>1 DEF KeepsAnswers, TypeInv, TypeOK
<1> QED BY <1>1, <1>2, <1>3 DEF Lookup

(* Steps that neither answer a lookup nor cache an answer.                  *)
LEMMA CacheKept ==
  ASSUME CacheInv, TypeInv', NEW t \in Client, KeepsAnswers(t),
         UNCHANGED <<walletOf, listed, unlistedFor, cache>>
  PROVE  CacheInv'
BY DEF CacheInv, EntriesRunOut, AnswersArePrompt, KeepsAnswers, Client

LEMMA NextCache ==
  ASSUME CacheInv, [Next]_vars
  PROVE  CacheInv'
<1>0. TypeInv /\ TypeInv' /\ EntriesRunOut /\ AnswersArePrompt
  BY NextType DEF CacheInv
<1>w. ASSUME NEW t \in Client PROVE walletOf[t] \in Wallet
  BY <1>0, AuthAssumption DEF TypeInv, TypeOK, Client
<1>1. ASSUME NEW t \in Client, Get(t)
      PROVE  CacheInv'
  BY <1>0, <1>1, LookupKeeps, CacheKept DEF Get
<1>2. ASSUME NEW t \in Client, ReadChain(t)
      PROVE  CacheInv'
  <2>1. \A u \in Client \ {t} : task'[u] = task[u]
    BY <1>0, <1>2 DEF ReadChain, TypeInv, TypeOK
  <2>2. task'[t].answer = listed[walletOf[t]]
    <3>1. task' = [task EXCEPT ![t].pc = "fill", ![t].answer = listed[walletOf[t]]]
      BY <1>2 DEF ReadChain
    <3>2. task'[t].answer = [task[t] EXCEPT !.pc = "fill",
                                            !.answer = listed[walletOf[t]]].answer
      BY <1>0, <3>1 DEF TypeInv, TypeOK
    <3> QED BY <1>0, <3>2 DEF TypeInv, TypeOK, TaskState
  <2>3. UNCHANGED <<walletOf, listed, unlistedFor, cache>>
    BY <1>2 DEF ReadChain
  <2>4. AnswersArePrompt'
    BY <1>0, <2>1, <2>2, <2>3 DEF AnswersArePrompt, Client
  <2> QED BY <1>0, <2>3, <2>4 DEF CacheInv, EntriesRunOut
<1>3. ASSUME NEW t \in Client, Fill(t)
      PROVE  CacheInv'
  <2>1. KeepsAnswers(t)
    <3>1. task[t].post \in BOOLEAN
      BY <1>0, TaskFields
    <3> QED BY <1>0, <1>3, <3>1, PassedKeeps, DoneKeeps DEF Fill, Refused
  <2>2. UNCHANGED <<walletOf, listed, unlistedFor>>
    BY <1>3 DEF Fill
  <2>3. AnswersArePrompt'
    BY <1>0, <2>1, <2>2 DEF AnswersArePrompt, KeepsAnswers, Client
  <2>4. ASSUME NEW w \in Wallet, ~listed[w], cache'[w] # None, cache'[w].listed
        PROVE  unlistedFor[w] + cache'[w].left <= CacheTtl
    <3>1. CASE w # walletOf[t]
      <4>1. cache'[w] = cache[w]
        BY <1>0, <1>3, <3>1 DEF Fill, TypeInv, TypeOK
      <4> QED BY <1>0, <2>4, <4>1 DEF EntriesRunOut
    <3>2. CASE w = walletOf[t]
      <4>1. cache'[w] = [listed |-> task[t].answer, left |-> CacheTtl - task[t].since]
        BY <1>0, <1>3, <1>w, <3>2 DEF Fill, TypeInv, TypeOK
      <4>2. task[t].answer /\ cache'[w].left = CacheTtl - task[t].since
        BY <2>4, <4>1
      <4>3. unlistedFor[w] <= task[t].since
        BY <1>0, <1>3, <2>4, <3>2, <4>2 DEF AnswersArePrompt, Fill
      <4>4. unlistedFor[w] \in Int /\ task[t].since \in Int /\ CacheTtl \in Int
        BY <1>0, TaskFields, AuthAssumption DEF TypeInv, TypeOK
      <4> QED BY <4>2, <4>3, <4>4
    <3> QED BY <3>1, <3>2
  <2>5. EntriesRunOut'
    BY <2>2, <2>4 DEF EntriesRunOut
  <2> QED BY <1>0, <2>3, <2>5 DEF CacheInv
<1>4. ASSUME NEW t \in Client, StoreChallenge(t)
      PROVE  CacheInv'
  <2>1. task' = [task EXCEPT ![t].pc = "signed", ![t].held = store'[walletOf[t]].nonce]
    BY <1>4, Zenon DEF StoreChallenge
  <2>2. task'[t].pc = "signed"
    BY <1>0, <2>1 DEF TypeInv, TypeOK, TaskState
  <2>3. KeepsAnswers(t)
    BY <1>0, <2>1, <2>2 DEF KeepsAnswers, TypeInv, TypeOK
  <2> QED BY <1>0, <1>4, <2>3, CacheKept DEF StoreChallenge
<1>5. ASSUME NEW t \in Client, Post(t) \/ PostAgain(t)
      PROVE  CacheInv'
  <2>1. KeepsAnswers(t)
    <3>1. Verify(t)
      BY <1>5 DEF Post, PostAgain
    <3> QED BY <1>0, <3>1, LookupKeeps, DoneKeeps DEF Verify, Refused
  <2> QED BY <1>0, <1>5, <2>1, CacheKept DEF Post, PostAgain
<1>6. ASSUME NEW t \in Client, Drop(t) \/ Abandon(t)
      PROVE  CacheInv'
  <2>1. KeepsAnswers(t)
    BY <1>0, <1>6, DoneKeeps DEF Drop, Abandon
  <2> QED BY <1>0, <1>6, <2>1, CacheKept DEF Drop, Abandon
<1>7. ASSUME NEW w \in Wallet, SetListed(w)
      PROVE  CacheInv'
  <2>1. /\ UNCHANGED <<walletOf, task, cache>>
        /\ \A v \in Wallet \ {w} : listed'[v] = listed[v] /\ unlistedFor'[v] = unlistedFor[v]
        /\ unlistedFor'[w] = 0
    BY <1>0, <1>7 DEF SetListed, TypeInv, TypeOK
  <2>2. EntriesRunOut'
    <3>1. \A v \in Wallet : cache[v] # None => cache[v].left \in 1 .. CacheTtl
      BY <1>0 DEF TypeInv, TypeOK
    <3> QED BY <1>0, <2>1, <3>1, AuthAssumption DEF EntriesRunOut
  <2>3. AnswersArePrompt'
    <3>1. ASSUME NEW t \in Client, task[t].pc = "fill", task[t].answer,
                 ~listed'[walletOf[t]]
          PROVE  unlistedFor'[walletOf[t]] <= task[t].since
      <4>1. CASE walletOf[t] = w
        <5>1. unlistedFor'[walletOf[t]] = 0
          BY <2>1, <4>1
        <5>2. task[t].since \in 0 .. 1 /\ task' = task
          BY <1>0, <2>1, TaskFields
        <5> QED BY <5>1, <5>2
      <4>2. CASE walletOf[t] # w
        BY <1>0, <1>w, <2>1, <3>1, <4>2 DEF AnswersArePrompt
      <4> QED BY <4>1, <4>2
    <3> QED BY <2>1, <3>1 DEF AnswersArePrompt, Client
  <2> QED BY <1>0, <2>2, <2>3 DEF CacheInv
<1>8. CASE Recover
  BY <1>0, <1>8 DEF Recover, CacheInv, EntriesRunOut, AnswersArePrompt, Client
<1>9. CASE Tick
  <2>1. /\ UNCHANGED <<walletOf, listed>>
        /\ \A w \in Wallet : ~listed[w] => unlistedFor'[w] <= unlistedFor[w] + 1
    <3>1. ASSUME NEW w \in Wallet, ~listed[w]
          PROVE  unlistedFor'[w] <= unlistedFor[w] + 1
      <4>1. unlistedFor'[w] = Min2(unlistedFor[w] + 1, CacheTtl)
        BY <1>9, <3>1 DEF Tick
      <4>2. unlistedFor[w] \in Int /\ CacheTtl \in Int
        BY <1>0, AuthAssumption DEF TypeInv, TypeOK
      <4> QED BY <4>1, <4>2 DEF Min2
    <3> QED BY <1>9, <3>1 DEF Tick
  <2>2. ASSUME NEW w \in Wallet, ~listed[w], cache'[w] # None, cache'[w].listed
        PROVE  unlistedFor'[w] + cache'[w].left <= CacheTtl
    <3>1. cache[w] # None /\ cache'[w] = [cache[w] EXCEPT !.left = @ - 1]
      BY <1>9, <2>2 DEF Tick
    <3>2. cache[w] \in [listed : BOOLEAN, left : 1 .. CacheTtl]
      BY <1>0, <3>1 DEF TypeInv, TypeOK
    <3>3. cache'[w].left = cache[w].left - 1 /\ cache[w].left \in Int
      BY <3>1, <3>2
    <3>4. cache[w].listed
      BY <2>2, <3>1, <3>2
    <3>5. unlistedFor[w] + cache[w].left <= CacheTtl
      BY <1>0, <2>2, <3>1, <3>4 DEF EntriesRunOut
    <3>6. unlistedFor[w] \in Int /\ unlistedFor'[w] \in Int /\ CacheTtl \in Int
      BY <1>0, AuthAssumption DEF TypeInv, TypeOK
    <3> QED BY <2>1, <2>2, <3>3, <3>5, <3>6
  <2>3. ASSUME NEW t \in Client, task'[t].pc = "fill", task'[t].answer, ~listed[walletOf[t]]
        PROVE  unlistedFor'[walletOf[t]] <= task'[t].since
    <3>1. task[t].pc = "fill" /\ task[t].answer /\ task'[t].since = 1 /\ task[t].since = 0
      <4> DEFINE r == [task[t] EXCEPT !.since = 1,
                                      !.left = IF task[t].post THEN @ - 1 ELSE @]
      <4>1. task'[t] = IF Hurries(t) THEN r ELSE task[t]
        BY <1>9 DEF Tick
      <4>2. r.pc = task[t].pc /\ r.since = 1
        BY <1>0 DEF TypeInv, TypeOK, TaskState
      <4>3. r.answer = task[t].answer
        BY <1>0 DEF TypeInv, TypeOK, TaskState
      <4> HIDE DEF r
      <4>4. task[t].pc = "fill"
        BY <2>3, <4>1, <4>2
      <4>5. Hurries(t) /\ task[t].since = 0
        BY <1>9, <4>4 DEF Hurries, Tick
      <4> QED BY <2>3, <4>1, <4>2, <4>3, <4>4, <4>5
    <3>2. unlistedFor[walletOf[t]] <= 0
      BY <1>0, <2>3, <3>1 DEF AnswersArePrompt
    <3>3. unlistedFor'[walletOf[t]] <= unlistedFor[walletOf[t]] + 1
      BY <1>w, <2>1, <2>3
    <3>4. unlistedFor[walletOf[t]] \in Int /\ unlistedFor'[walletOf[t]] \in Int
      BY <1>0, <1>w DEF TypeInv, TypeOK
    <3> QED BY <3>1, <3>2, <3>3, <3>4
  <2>4. EntriesRunOut'
    BY <2>1, <2>2 DEF EntriesRunOut
  <2>5. AnswersArePrompt'
    BY <2>1, <2>3 DEF AnswersArePrompt, Client
  <2> QED BY <1>0, <2>4, <2>5 DEF CacheInv
<1>10. CASE UNCHANGED vars
  BY <1>0, <1>10 DEF vars, CacheInv, EntriesRunOut, AnswersArePrompt, Client
<1> QED
  BY <1>1, <1>2, <1>3, <1>4, <1>5, <1>6, <1>7, <1>8, <1>9, <1>10 DEF Next, Serve

(* Who is let in is on the whitelist, or left it less than CacheTtl ago.    *)
LEMMA AdmittedInTime ==
  ASSUME CacheInv, Next, last' # None
  PROVE  listed[last'.wallet] \/ unlistedFor[last'.wallet] < CacheTtl
<1>0. TypeInv /\ EntriesRunOut /\ AnswersArePrompt
  BY DEF CacheInv
<1>1. ASSUME NEW t \in Client, NEW left, Lookup(t, TRUE, left)
      PROVE  listed[last'.wallet] \/ unlistedFor[last'.wallet] < CacheTtl
  <2>1. /\ cache[walletOf[t]] # None /\ cache[walletOf[t]].listed
        /\ last' = [wallet |-> walletOf[t], nonce |-> task[t].held]
    BY <1>1 DEF Lookup, Passed, Refused
  <2>2. walletOf[t] \in Wallet
    BY <1>0, AuthAssumption DEF TypeInv, TypeOK, Client
  <2>3. /\ cache[walletOf[t]].left \in 1 .. CacheTtl
        /\ unlistedFor[walletOf[t]] \in 0 .. CacheTtl
        /\ CacheTtl \in Nat
    BY <1>0, <2>1, <2>2, AuthAssumption DEF TypeInv, TypeOK
  <2>4. ~listed[walletOf[t]] => unlistedFor[walletOf[t]] + cache[walletOf[t]].left <= CacheTtl
    BY <1>0, <2>1, <2>2 DEF EntriesRunOut
  <2>5. last'.wallet = walletOf[t]
    BY <2>1
  <2> QED BY <2>3, <2>4, <2>5
<1>2. ASSUME NEW t \in Client, Fill(t)
      PROVE  listed[last'.wallet] \/ unlistedFor[last'.wallet] < CacheTtl
  <2>1. /\ task[t].pc = "fill" /\ task[t].answer
        /\ last' = [wallet |-> walletOf[t], nonce |-> task[t].held]
    BY <1>2 DEF Fill, Passed, Refused
  <2>2. ~listed[walletOf[t]] => unlistedFor[walletOf[t]] <= task[t].since
    BY <1>0, <2>1 DEF AnswersArePrompt
  <2>3. task[t].since \in 0 .. 1 /\ unlistedFor[walletOf[t]] \in Int
    BY <1>0, TaskFields, AuthAssumption DEF TypeInv, TypeOK, Client
  <2>4. last'.wallet = walletOf[t]
    BY <2>1
  <2> QED BY <2>2, <2>3, <2>4, AuthAssumption
<1>3. ASSUME NEW t \in Client, Verify(t)
      PROVE  listed[last'.wallet] \/ unlistedFor[last'.wallet] < CacheTtl
  BY <1>1, <1>3 DEF Verify, Refused
<1>4. ASSUME NEW t \in Client, Get(t) \/ ReadChain(t) \/ StoreChallenge(t) \/ Drop(t) \/ Abandon(t)
      PROVE  last' = None
  BY <1>4 DEF Get, Lookup, Passed, Refused, ReadChain, StoreChallenge, Drop, Abandon
<1>5. ASSUME (\E w \in Wallet : SetListed(w)) \/ Recover \/ Tick
      PROVE  last' = None
  BY <1>5 DEF SetListed, Recover, Tick
<1> QED BY <1>2, <1>3, <1>4, <1>5 DEF Next, Serve, Post, PostAgain

(* A wallet that was taken off the updater's whitelist is let in for less   *)
(* than the cache's life after, whatever lookups and answers overlap.       *)
THEOREM RevokedStayOut == Spec => RevokedRefused
<1>1. Init => CacheInv
  <2> SUFFICES ASSUME Init PROVE CacheInv
    OBVIOUS
  <2>1. \A t \in Client : task[t].pc = "idle"
    BY DEF Init, Idle
  <2> QED BY <2>1, InitType DEF Init, CacheInv, EntriesRunOut, AnswersArePrompt
<1>2. CacheInv /\ [Next]_vars => CacheInv'
  BY NextCache
<1>3. CacheInv /\ [Next]_vars
        => [last' # None => LET w == last'.wallet
                            IN  listed[w] \/ unlistedFor[w] < CacheTtl]_vars
  BY AdmittedInTime
<1> QED BY <1>1, <1>2, <1>3, PTL DEF Spec, RevokedRefused
=============================================================================
