---------------------------- MODULE Admission_proofs ----------------------------
(***************************************************************************)
(* ChallengeAuth implements Admission: whatever the requests of a wallet's *)
(* tasks overlap, a challenge lets nobody in but its own wallet, once, and *)
(* not after it has expired.                                               *)
(***************************************************************************)
EXTENDS ChallengeAuth_proofs

StoredBy(w) ==
  [wallet |-> w, nonce |-> store[w].nonce, age |-> WalletTtl - store[w].left]

PostedBy(t) ==
  [wallet |-> walletOf[t], nonce |-> task[t].held, age |-> WalletTtl - task[t].left]

(* No challenge is in two places, the store and a POST that has taken its   *)
(* challenge out of the store among them; and such a POST took it in time.  *)
StoreDistinct ==
  \A v, w \in Wallet :
    store[v] # None /\ store[w] # None /\ store[v].nonce = store[w].nonce => v = w

TakenFromStore ==
  \A t \in Client, w \in Wallet :
    task[t].post /\ store[w] # None => task[t].held # store[w].nonce

PostsDistinct ==
  \A t, u \in Client :
    task[t].post /\ task[u].post /\ task[t].held = task[u].held => t = u

TakenInTime ==
  \A t \in Client : task[t].post => task[t].left >= -task[t].since

OnceInv ==
  TypeInv /\ StoreDistinct /\ TakenFromStore /\ PostsDistinct /\ TakenInTime

(* What Open consists of, in a state and after a step. *)
LEMMA OpenMember ==
  ASSUME NEW c
  PROVE  c \in Open <=>
           \/ \E w \in Wallet : store[w] # None /\ c = StoredBy(w) /\ c.age <= WalletTtl + 1
           \/ \E t \in Client : task[t].post /\ c = PostedBy(t) /\ c.age <= WalletTtl + 1
BY DEF Open, StoredBy, PostedBy

LEMMA OpenMemberNext ==
  ASSUME NEW c
  PROVE  c \in Open' <=>
           \/ \E w \in Wallet :
                store'[w] # None /\ c = StoredBy(w)' /\ c.age <= WalletTtl + 1
           \/ \E t \in Client' :
                task'[t].post /\ c = PostedBy(t)' /\ c.age <= WalletTtl + 1
BY DEF Open, StoredBy, PostedBy

-----------------------------------------------------------------------------
(* A step that puts no challenge anywhere: the store keeps what it keeps    *)
(* as it is, and so does every POST that goes on.                           *)
NothingIssued ==
  /\ \A w \in Wallet : store'[w] # None => store'[w] = store[w]
  /\ \A t \in Client :
       task'[t].post => /\ task[t].post
                        /\ task'[t].held = task[t].held
                        /\ task'[t].left = task[t].left
                        /\ task'[t].since = task[t].since

LEMMA OpenShrinks ==
  ASSUME OnceInv, TypeInv', UNCHANGED walletOf, NothingIssued
  PROVE  Open' \subseteq Open /\ OnceInv'
<1>1. Client' = Client
  BY DEF Client
<1>2. ASSUME NEW c \in Open'
      PROVE  c \in Open
  <2>1. CASE \E w \in Wallet :
               store'[w] # None /\ c = StoredBy(w)' /\ c.age <= WalletTtl + 1
    BY <2>1, OpenMember DEF NothingIssued, StoredBy
  <2>2. CASE \E t \in Client' :
               task'[t].post /\ c = PostedBy(t)' /\ c.age <= WalletTtl + 1
    BY <1>1, <2>2, OpenMember DEF NothingIssued, PostedBy
  <2> QED BY <2>1, <2>2, OpenMemberNext
<1>3. StoreDistinct'
  BY DEF OnceInv, StoreDistinct, NothingIssued
<1>4. TakenFromStore'
  BY <1>1 DEF OnceInv, TakenFromStore, NothingIssued
<1>5. PostsDistinct'
  BY <1>1 DEF OnceInv, PostsDistinct, NothingIssued
<1>6. TakenInTime'
  BY <1>1 DEF OnceInv, TakenInTime, NothingIssued
<1> QED BY <1>2, <1>3, <1>4, <1>5, <1>6 DEF OnceInv

(* Then Admission may have let challenges lapse. *)
LEMMA ShrinkingLapses ==
  ASSUME OnceInv, TypeInv', UNCHANGED walletOf, NothingIssued, last' = None
  PROVE  OnceInv' /\ Promise!Lapse
BY OpenShrinks DEF Promise!Lapse

(* The step that lets somebody in removes the challenge he comes with: from *)
(* the store if a hit lets him in at once, ...                              *)
LEMMA HitAdmits ==
  ASSUME OnceInv, TypeInv', UNCHANGED walletOf, NothingIssued,
         NEW w \in Wallet, store[w] # None, store[w].left >= 0,
         store' = [store EXCEPT ![w] = None],
         \A t \in Client : task[t].post => task'[t] = task[t],
         last' = [wallet |-> w, nonce |-> store[w].nonce]
  PROVE  OnceInv' /\ \E c \in Open : Promise!Admit(c)
<1> DEFINE c == StoredBy(w)
<1>1. Client' = Client /\ Open' \subseteq Open /\ OnceInv'
  BY OpenShrinks DEF Client
<1>2. store \in [Wallet -> [nonce : Nonce, left : -2 .. WalletTtl] \cup {None}]
  BY DEF OnceInv, TypeInv, TypeOK
<1>3. c.age <= WalletTtl + 1 /\ c.wallet = w /\ c.nonce = store[w].nonce
  <2>1. store[w].left \in -2 .. WalletTtl /\ WalletTtl \in Int
    BY <1>2, AuthAssumption
  <2> QED BY <2>1 DEF StoredBy
<1>4. c \in Open
  BY <1>3, OpenMember
<1>5. ASSUME NEW d \in Open, d # c
      PROVE  d \in Open'
  <2>1. CASE \E v \in Wallet : store[v] # None /\ d = StoredBy(v) /\ d.age <= WalletTtl + 1
    <3>1. PICK v \in Wallet : store[v] # None /\ d = StoredBy(v) /\ d.age <= WalletTtl + 1
      BY <2>1
    <3>2. v # w
      BY <1>5, <3>1
    <3>3. store'[v] = store[v]
      BY <1>2, <3>2
    <3>4. StoredBy(v)' = StoredBy(v)
      BY <3>3 DEF StoredBy
    <3> QED BY <3>1, <3>3, <3>4, OpenMemberNext
  <2>2. CASE \E t \in Client : task[t].post /\ d = PostedBy(t) /\ d.age <= WalletTtl + 1
    <3>1. PICK t \in Client : task[t].post /\ d = PostedBy(t) /\ d.age <= WalletTtl + 1
      BY <2>2
    <3>2. task'[t] = task[t]
      BY <3>1
    <3>3. PostedBy(t)' = PostedBy(t)
      BY <3>2 DEF PostedBy
    <3> QED BY <1>1, <3>1, <3>2, <3>3, OpenMemberNext
  <2> QED BY <2>1, <2>2, <1>5, OpenMember
<1>6. c \notin Open'
  <2>1. ASSUME NEW v \in Wallet, store'[v] # None, c = StoredBy(v)'
        PROVE  FALSE
    <3>1. v # w /\ store'[v] = store[v]
      BY <1>2, <2>1
    <3>2. StoredBy(v)'.nonce = store[v].nonce
      BY <3>1 DEF StoredBy
    <3> HIDE DEF c
    <3> QED BY <1>3, <2>1, <3>1, <3>2 DEF OnceInv, StoreDistinct
  <2>2. ASSUME NEW t \in Client, task'[t].post, c = PostedBy(t)'
        PROVE  FALSE
    <3>1. task[t].post /\ PostedBy(t)'.nonce = task[t].held
      BY <2>2 DEF NothingIssued, PostedBy
    <3> HIDE DEF c
    <3> QED BY <1>3, <2>2, <3>1 DEF OnceInv, TakenFromStore
  <2> HIDE DEF c
  <2> QED BY <1>1, <2>1, <2>2, OpenMemberNext
<1>7. Open' = Open \ {c}
  BY <1>1, <1>5, <1>6
<1>8. Promise!Admit(c)
  <2> HIDE DEF c
  <2> QED BY <1>3, <1>7 DEF Promise!Admit
<1> QED BY <1>1, <1>4, <1>8

(* ... and with the POST otherwise. *)
LEMMA FillAdmits ==
  ASSUME OnceInv, TypeInv', UNCHANGED <<walletOf, store>>, NothingIssued,
         NEW t \in Client, task[t].post, ~task'[t].post,
         \A u \in Client \ {t} : task'[u] = task[u],
         last' = [wallet |-> walletOf[t], nonce |-> task[t].held]
  PROVE  OnceInv' /\ \E c \in Open : Promise!Admit(c)
<1> DEFINE c == PostedBy(t)
<1>1. Client' = Client /\ Open' \subseteq Open /\ OnceInv'
  BY OpenShrinks DEF Client
<1>2. c.age <= WalletTtl + 1 /\ c.wallet = walletOf[t] /\ c.nonce = task[t].held
  <2>1. task[t].left >= -task[t].since
    BY DEF OnceInv, TakenInTime
  <2>2. task[t].left \in Int /\ task[t].since \in 0 .. 1 /\ WalletTtl \in Int
    <3>1. TypeInv
      BY DEF OnceInv
    <3>2. task[t].left \in Int /\ task[t].since \in 0 .. 1
      BY <3>1, TaskFields, Zenon
    <3> QED BY <3>2, AuthAssumption
  <2>3. WalletTtl - task[t].left <= WalletTtl + 1
    BY <2>1, <2>2
  <2> QED BY <2>3 DEF PostedBy
<1>3. c \in Open
  BY <1>2, OpenMember
<1>4. ASSUME NEW d \in Open, d # c
      PROVE  d \in Open'
  <2>1. CASE \E v \in Wallet : store[v] # None /\ d = StoredBy(v) /\ d.age <= WalletTtl + 1
    <3>1. PICK v \in Wallet : store[v] # None /\ d = StoredBy(v) /\ d.age <= WalletTtl + 1
      BY <2>1
    <3>2. StoredBy(v)' = StoredBy(v)
      BY DEF StoredBy
    <3> QED BY <3>1, <3>2, OpenMemberNext
  <2>2. CASE \E u \in Client : task[u].post /\ d = PostedBy(u) /\ d.age <= WalletTtl + 1
    <3>1. PICK u \in Client : task[u].post /\ d = PostedBy(u) /\ d.age <= WalletTtl + 1
      BY <2>2
    <3>2. task'[u] = task[u]
      BY <1>4, <3>1
    <3>3. PostedBy(u)' = PostedBy(u)
      BY <3>2 DEF PostedBy
    <3> QED BY <1>1, <3>1, <3>2, <3>3, OpenMemberNext
  <2> QED BY <2>1, <2>2, <1>4, OpenMember
<1>5. c \notin Open'
  <2>1. ASSUME NEW v \in Wallet, store'[v] # None, c = StoredBy(v)'
        PROVE  FALSE
    <3>1. StoredBy(v)'.nonce = store[v].nonce
      BY DEF StoredBy
    <3> HIDE DEF c
    <3> QED BY <1>2, <2>1, <3>1 DEF OnceInv, TakenFromStore
  <2>2. ASSUME NEW u \in Client, task'[u].post, c = PostedBy(u)'
        PROVE  FALSE
    <3>1. u # t /\ task[u].post /\ PostedBy(u)'.nonce = task[u].held
      BY <2>2 DEF NothingIssued, PostedBy
    <3> HIDE DEF c
    <3> QED BY <1>2, <2>2, <3>1 DEF OnceInv, PostsDistinct
  <2> HIDE DEF c
  <2> QED BY <1>1, <2>1, <2>2, OpenMemberNext
<1>6. Open' = Open \ {c}
  BY <1>1, <1>4, <1>5
<1>7. Promise!Admit(c)
  <2> HIDE DEF c
  <2> QED BY <1>2, <1>6 DEF Promise!Admit
<1> QED BY <1>1, <1>3, <1>7

-----------------------------------------------------------------------------
(* A POST whose lookup has to ask the chain takes its challenge along.      *)
LEMMA MissTakesAlong ==
  ASSUME OnceInv, TypeInv', UNCHANGED walletOf, last' = None,
         NEW t \in Client, store[walletOf[t]] # None, store[walletOf[t]].left >= 0,
         ~task[t].post,
         store' = [store EXCEPT ![walletOf[t]] = None],
         task'[t].held = store[walletOf[t]].nonce,
         task'[t].left = store[walletOf[t]].left,
         \A u \in Client \ {t} : task'[u] = task[u]
  PROVE  OnceInv' /\ Promise!Lapse
<1>1. Client' = Client /\ walletOf[t] \in Wallet
  BY AuthAssumption DEF Client, OnceInv, TypeInv, TypeOK
<1>2. store \in [Wallet -> [nonce : Nonce, left : -2 .. WalletTtl] \cup {None}]
  BY DEF OnceInv, TypeInv, TypeOK
<1>3. \A v \in Wallet : store'[v] # None => v # walletOf[t] /\ store'[v] = store[v]
  BY <1>2
<1>4. PostedBy(t)' = StoredBy(walletOf[t])
  BY DEF PostedBy, StoredBy
<1>5. ASSUME NEW c \in Open'
      PROVE  c \in Open
  <2>1. CASE \E v \in Wallet :
               store'[v] # None /\ c = StoredBy(v)' /\ c.age <= WalletTtl + 1
    BY <1>3, <2>1, OpenMember DEF StoredBy
  <2>2. CASE \E u \in Client' :
               task'[u].post /\ c = PostedBy(u)' /\ c.age <= WalletTtl + 1
    <3>1. PICK u \in Client :
                 task'[u].post /\ c = PostedBy(u)' /\ c.age <= WalletTtl + 1
      BY <1>1, <2>2
    <3>2. CASE u = t
      BY <1>1, <1>4, <3>1, <3>2, OpenMember
    <3>3. CASE u # t
      <4>1. task'[u] = task[u]
        BY <3>3
      <4>2. PostedBy(u)' = PostedBy(u)
        BY <4>1 DEF PostedBy
      <4> QED BY <3>1, <4>1, <4>2, OpenMember
    <3> QED BY <3>2, <3>3
  <2> QED BY <2>1, <2>2, OpenMemberNext
<1>6. StoreDistinct'
  BY <1>3 DEF OnceInv, StoreDistinct
<1>7. TakenFromStore'
  BY <1>1, <1>3 DEF OnceInv, StoreDistinct, TakenFromStore
<1>8. PostsDistinct'
  BY <1>1 DEF OnceInv, TakenFromStore, PostsDistinct
<1>9. TakenInTime'
  <2>1. task'[t].left >= 0 /\ task'[t].since \in 0 .. 1 /\ task'[t].left \in Int
    BY <1>1 DEF OnceInv, TypeInv, TypeOK, TaskState
  <2> QED BY <1>1, <2>1 DEF OnceInv, TakenInTime
<1> QED BY <1>5, <1>6, <1>7, <1>8, <1>9 DEF OnceInv, Promise!Lapse

(* A GET gives out the challenge its wallet has, or issues a new one.       *)
LEMMA StoreIssues ==
  ASSUME OnceInv, TypeInv', NEW t \in Client, StoreChallenge(t)
  PROVE  OnceInv' /\ Promise!Next
<1> DEFINE w    == walletOf[t]
           kept == [v \in Wallet |->
                      IF store[v] # None /\ store[v].left + task[t].since > 0
                      THEN store[v] ELSE None]
           new  == [nonce |-> Fresh, left |-> WalletTtl - task[t].since]
<1>1. /\ Client' = Client /\ w \in Wallet /\ last' = None /\ UNCHANGED walletOf
      /\ task[t].pc = "store"
  <2>1. last' = None /\ walletOf' = walletOf /\ task[t].pc = "store"
    BY Zenon DEF StoreChallenge
  <2>2. w \in Wallet
    BY AuthAssumption DEF Client, OnceInv, TypeInv, TypeOK
  <2> QED BY <2>1, <2>2 DEF Client
<1>2. /\ ~task'[t].post /\ ~task[t].post
      /\ \A u \in Client \ {t} : task'[u] = task[u]
  <2>1. task' = [task EXCEPT ![t].pc = "signed", ![t].held = store'[walletOf[t]].nonce]
    BY Zenon DEF StoreChallenge
  <2>2. ~task[t].post
    BY <1>1 DEF OnceInv, TypeInv, TasksInPhase
  <2>3. task'[t].post = task[t].post
    <3>1. task'[t] = [task[t] EXCEPT !.pc = "signed", !.held = store'[walletOf[t]].nonce]
      BY <2>1 DEF OnceInv, TypeInv, TypeOK
    <3> QED BY <3>1, TaskFields DEF OnceInv
  <2> QED BY <2>1, <2>2, <2>3 DEF OnceInv, TypeInv, TypeOK
<1>3. store' = IF kept[w] # None THEN kept ELSE [kept EXCEPT ![w] = new]
  BY DEF StoreChallenge
<1>4. \A v \in Wallet : kept[v] # None => store[v] # None /\ kept[v] = store[v]
  OBVIOUS
<1>5. CASE kept[w] # None
  <2>1. NothingIssued
    BY <1>2, <1>3, <1>4, <1>5 DEF NothingIssued
  <2> QED BY <1>1, <2>1, ShrinkingLapses DEF Promise!Next
<1>6. CASE kept[w] = None
  <2>1. /\ store'[w] = new /\ store'[w] # None
        /\ \A v \in Wallet \ {w} : store'[v] # None => store[v] # None /\ store'[v] = store[v]
    <3>1. store' = [kept EXCEPT ![w] = new]
      BY <1>3, <1>6
    <3>2. store'[w] = new /\ \A v \in Wallet \ {w} : store'[v] = kept[v]
      <4> HIDE DEF new
      <4>1. DOMAIN kept = Wallet
        OBVIOUS
      <4> HIDE DEF kept, w
      <4> QED BY <1>1, <3>1, <4>1
    <3>3. new # None
      <4>1. task[t].since \in 0 .. 1 /\ WalletTtl - task[t].since \in -2 .. WalletTtl
        <5>1. task[t].since \in 0 .. 1
          BY TaskFields DEF OnceInv
        <5> QED BY <5>1, AuthAssumption
      <4>2. Fresh \in Nonce
        BY FreshIsNew DEF OnceInv, TypeInv
      <4> QED BY <4>1, <4>2, AuthAssumption
    <3> QED BY <1>4, <3>2, <3>3
  <2>2. new.nonce = Fresh /\ new.left = WalletTtl - task[t].since
    OBVIOUS
  <2>3. Fresh \in Nonce /\ (\A v \in Wallet : store[v] # None => store[v].nonce # Fresh)
        /\ (\A u \in Client : task[u].held # Fresh)
    BY FreshIsNew DEF OnceInv, TypeInv, Remembered, Nonces
  <2>4. task[t].since \in 0 .. 1 /\ WalletTtl \in Nat
    BY TaskFields, AuthAssumption DEF OnceInv
  <2> HIDE DEF kept, new
  <2> DEFINE c == [wallet |-> w, nonce |-> Fresh, age |-> task[t].since]
  <2>5. StoredBy(w)' = c
    <3>1. WalletTtl - (WalletTtl - task[t].since) = task[t].since
      BY <2>4
    <3>2. StoredBy(w)' = [wallet |-> w, nonce |-> store'[w].nonce,
                          age |-> WalletTtl - store'[w].left]
      BY <1>1 DEF StoredBy
    <3> QED BY <2>1, <2>2, <3>1, <3>2
  <2>6. \A d \in Open : d.nonce # Fresh
    <3>1. ASSUME NEW d \in Open PROVE d.nonce # Fresh
      <4>1. CASE \E v \in Wallet : store[v] # None /\ d = StoredBy(v)
        BY <2>3, <4>1 DEF StoredBy
      <4>2. CASE \E u \in Client : task[u].post /\ d = PostedBy(u)
        BY <2>3, <4>2 DEF PostedBy
      <4> QED BY <4>1, <4>2, OpenMember
    <3> QED BY <3>1
  <2>7. \A d \in Open' : d = c \/ d \in Open
    <3>1. ASSUME NEW d \in Open' PROVE d = c \/ d \in Open
      <4>1. CASE \E v \in Wallet :
                   store'[v] # None /\ d = StoredBy(v)' /\ d.age <= WalletTtl + 1
        <5>1. PICK v \in Wallet :
                     store'[v] # None /\ d = StoredBy(v)' /\ d.age <= WalletTtl + 1
          BY <4>1
        <5>2. CASE v = w
          BY <1>1, <2>5, <5>1, <5>2 DEF StoredBy
        <5>3. CASE v # w
          <6>1. store[v] # None /\ store'[v] = store[v]
            BY <2>1, <5>1, <5>3
          <6>2. StoredBy(v)' = StoredBy(v)
            BY <6>1 DEF StoredBy
          <6> QED BY <5>1, <6>1, <6>2, OpenMember
        <5> QED BY <5>2, <5>3
      <4>2. CASE \E u \in Client' :
                   task'[u].post /\ d = PostedBy(u)' /\ d.age <= WalletTtl + 1
        <5>1. PICK u \in Client :
                     task'[u].post /\ d = PostedBy(u)' /\ d.age <= WalletTtl + 1
          BY <1>1, <4>2
        <5>2. task'[u] = task[u]
          BY <1>2, <5>1
        <5>3. PostedBy(u)' = PostedBy(u)
          BY <1>1, <5>2 DEF PostedBy
        <5> QED BY <5>1, <5>2, <5>3, OpenMember
      <4> QED BY <4>1, <4>2, OpenMemberNext
    <3> QED BY <3>1
  <2>8. c \in Open'
    <3>1. c.age <= WalletTtl + 1
      BY <2>4
    <3> HIDE DEF c
    <3> QED BY <1>1, <2>1, <2>5, <3>1, OpenMemberNext
  <2>9. Promise!Issue(w, Fresh)
    <3>1. task[t].since \in 0 .. 1
      BY <2>4
    <3>2. Open' = (Open' \cap Open) \cup {c} /\ Open' \cap Open \in SUBSET Open
      BY <2>7, <2>8
    <3> QED BY <1>1, <2>6, <3>1, <3>2 DEF Promise!Issue
  <2>10. StoreDistinct'
    <3> HIDE DEF w
    <3> QED BY <2>1, <2>2, <2>3 DEF OnceInv, StoreDistinct
  <2>11. TakenFromStore'
    <3> HIDE DEF w
    <3> QED BY <1>1, <1>2, <2>1, <2>2, <2>3 DEF OnceInv, TakenFromStore
  <2>12. PostsDistinct' /\ TakenInTime'
    BY <1>1, <1>2 DEF OnceInv, PostsDistinct, TakenInTime
  <2> QED BY <1>1, <2>3, <2>9, <2>10, <2>11, <2>12 DEF OnceInv, Promise!Next
<1> QED BY <1>5, <1>6

-----------------------------------------------------------------------------
(* The steps of a task that issue no challenge and take none from the store.*)
LEMMA DoneIssuesNothing ==
  ASSUME TypeInv, NEW t \in Client, task' = [task EXCEPT ![t] = Done(t)],
         \A w \in Wallet : store'[w] # None => store'[w] = store[w]
  PROVE  NothingIssued /\ ~task'[t].post /\ \A u \in Client \ {t} : task'[u] = task[u]
<1>1. ~Done(t).post
  BY DEF Done, Idle
<1>2. ~task'[t].post /\ \A u \in Client \ {t} : task'[u] = task[u]
  BY <1>1 DEF TypeInv, TypeOK
<1> QED BY <1>2 DEF NothingIssued

LEMMA PassedIssuesNothing ==
  ASSUME TypeInv, NEW t \in Client, NEW post \in BOOLEAN, Passed(t, post),
         ~post => ~task[t].post,
         \A w \in Wallet : store'[w] # None => store'[w] = store[w]
  PROVE  NothingIssued /\ ~task'[t].post /\ \A u \in Client \ {t} : task'[u] = task[u]
<1>1. CASE post
  BY <1>1, DoneIssuesNothing DEF Passed
<1>2. CASE ~post
  <2>1. task' = [task EXCEPT ![t].pc = "store", ![t].answer = FALSE]
    BY <1>2 DEF Passed
  <2>2. ~task'[t].post /\ \A u \in Client \ {t} : task'[u] = task[u]
    <3>1. task'[t] = [task[t] EXCEPT !.pc = "store", !.answer = FALSE]
      BY <2>1 DEF TypeInv, TypeOK
    <3>2. task'[t].post = task[t].post
      BY <3>1, TaskFields
    <3> QED BY <1>2, <2>1, <3>2 DEF TypeInv, TypeOK
  <2> QED BY <2>2 DEF NothingIssued
<1> QED BY <1>1, <1>2

LEMMA GetLapses ==
  ASSUME OnceInv, TypeInv', NEW t \in Client, Get(t)
  PROVE  OnceInv' /\ Promise!Lapse
<1>1. TypeInv /\ task[t].pc = "idle" /\ Lookup(t, FALSE, 0) /\ UNCHANGED <<walletOf, store>>
  BY DEF OnceInv, Get
<1>2. ~task[t].post
  BY <1>1 DEF TypeInv, TasksInPhase
<1>3. CASE Passed(t, FALSE)
  <2>1. last' = None
    BY <1>3 DEF Passed
  <2>2. NothingIssued
    BY <1>1, <1>2, <1>3, PassedIssuesNothing
  <2> QED BY <1>1, <2>1, <2>2, ShrinkingLapses
<1>4. CASE Refused(t)
  BY <1>1, <1>4, DoneIssuesNothing, ShrinkingLapses DEF Refused
<1>5. CASE /\ task' = [task EXCEPT ![t].pc = "read", ![t].post = FALSE,
                                   ![t].left = 0, ![t].since = 0]
           /\ last' = None
  <2>1. ~task'[t].post /\ \A u \in Client \ {t} : task'[u] = task[u]
    BY <1>1, <1>5 DEF TypeInv, TypeOK, TaskState
  <2>2. NothingIssued
    BY <1>1, <2>1 DEF NothingIssued
  <2> QED BY <1>1, <1>5, <2>2, ShrinkingLapses
<1> QED BY <1>1, <1>3, <1>4, <1>5 DEF Lookup

LEMMA ReadLapses ==
  ASSUME OnceInv, TypeInv', NEW t \in Client, ReadChain(t)
  PROVE  OnceInv' /\ Promise!Lapse
<1>1. /\ TypeInv /\ UNCHANGED <<walletOf, store>> /\ last' = None
      /\ task' = [task EXCEPT ![t].pc = "fill", ![t].answer = listed[walletOf[t]]]
  BY DEF OnceInv, ReadChain
<1>2. task'[t] = [task[t] EXCEPT !.pc = "fill", !.answer = listed[walletOf[t]]]
  BY <1>1 DEF TypeInv, TypeOK
<1>3. /\ task'[t].held = task[t].held /\ task'[t].left = task[t].left
      /\ task'[t].since = task[t].since
  BY <1>1, <1>2 DEF TypeInv, TypeOK, TaskState
<1>4. task'[t].post = task[t].post
  BY <1>2, <1>1, TaskFields
<1>5. \A u \in Client \ {t} : task'[u] = task[u]
  BY <1>1 DEF TypeInv, TypeOK
<1>6. NothingIssued
  BY <1>1, <1>3, <1>4, <1>5 DEF NothingIssued
<1> QED BY <1>1, <1>6, ShrinkingLapses

LEMMA FillStep ==
  ASSUME OnceInv, TypeInv', NEW t \in Client, Fill(t)
  PROVE  OnceInv' /\ Promise!Next
<1>1. /\ TypeInv /\ UNCHANGED <<walletOf, store>>
      /\ (task[t].answer /\ Passed(t, task[t].post)) \/ Refused(t)
  BY DEF OnceInv, Fill
<1>2. CASE Refused(t)
  BY <1>1, <1>2, DoneIssuesNothing, ShrinkingLapses DEF Refused, Promise!Next
<1>3. CASE Passed(t, task[t].post)
  <2>1. task[t].post \in BOOLEAN
    BY <1>1, TaskFields
  <2>2. NothingIssued /\ ~task'[t].post /\ \A u \in Client \ {t} : task'[u] = task[u]
    BY <1>1, <1>3, <2>1, PassedIssuesNothing
  <2>3. CASE task[t].post
    <3>1. last' = [wallet |-> walletOf[t], nonce |-> task[t].held]
      BY <1>3, <2>3 DEF Passed
    <3> QED BY <1>1, <2>2, <2>3, <3>1, FillAdmits DEF Promise!Next
  <2>4. CASE ~task[t].post
    <3>1. last' = None
      BY <1>3, <2>4 DEF Passed
    <3> QED BY <1>1, <2>2, <3>1, ShrinkingLapses DEF Promise!Next
  <2> QED BY <2>3, <2>4
<1> QED BY <1>1, <1>2, <1>3

LEMMA VerifyStep ==
  ASSUME OnceInv, TypeInv', NEW t \in Client, Verify(t), UNCHANGED walletOf,
         task[t].pc \in {"idle", "signed"}
  PROVE  OnceInv' /\ Promise!Next
<1> DEFINE w    == walletOf[t]
           mine == store[w]
<1>1. TypeInv /\ ~task[t].post /\ w \in Wallet
  BY AuthAssumption DEF OnceInv, TypeInv, TypeOK, TasksInPhase, Client
<1>2. /\ store' = [store EXCEPT ![w] = None]
      /\ \A v \in Wallet : store'[v] # None => store'[v] = store[v]
  BY <1>1 DEF TypeInv, TypeOK, Verify
<1>3. CASE Refused(t)
  BY <1>1, <1>2, <1>3, DoneIssuesNothing, ShrinkingLapses DEF Refused, Promise!Next
<1>4. CASE /\ mine # None /\ mine.left >= 0 /\ mine.nonce = task[t].held
           /\ Lookup(t, TRUE, mine.left)
  <2>1. CASE Passed(t, TRUE)
    <3>1. /\ last' = [wallet |-> w, nonce |-> mine.nonce]
          /\ task' = [task EXCEPT ![t] = Done(t)]
      BY <1>4, <2>1 DEF Passed
    <3>2. NothingIssued /\ \A u \in Client \ {t} : task'[u] = task[u]
      BY <1>1, <1>2, <3>1, DoneIssuesNothing
    <3>3. \A u \in Client : task[u].post => task'[u] = task[u]
      BY <1>1, <3>2
    <3> HIDE DEF w
    <3> QED BY <1>1, <1>2, <1>4, <3>1, <3>2, <3>3, HitAdmits DEF Promise!Next
  <2>2. CASE /\ task' = [task EXCEPT ![t].pc = "read", ![t].post = TRUE,
                                     ![t].left = mine.left, ![t].since = 0]
             /\ last' = None
    <3>1. task'[t] = [task[t] EXCEPT !.pc = "read", !.post = TRUE,
                                     !.left = mine.left, !.since = 0]
      BY <1>1, <2>2 DEF TypeInv, TypeOK
    <3> HIDE DEF mine
    <3>2. task'[t].held = task[t].held /\ task'[t].left = mine.left
      BY <1>1, <3>1 DEF TypeInv, TypeOK, TaskState
    <3>3. \A u \in Client \ {t} : task'[u] = task[u]
      BY <1>1, <2>2 DEF TypeInv, TypeOK
    <3> QED BY <1>1, <1>2, <1>4, <2>2, <3>2, <3>3, MissTakesAlong DEF mine, Promise!Next
  <2> QED BY <1>3, <1>4, <2>1, <2>2 DEF Lookup
<1> QED BY <1>3, <1>4 DEF Verify

(* Time makes every challenge one tick older; what has been forgotten does  *)
(* not come back.                                                           *)
LEMMA TickStep ==
  ASSUME OnceInv, TypeInv', Tick
  PROVE  OnceInv' /\ Promise!TimePasses
<1>1. TypeInv /\ Client' = Client /\ UNCHANGED walletOf /\ last' = None
  BY DEF OnceInv, Tick, Client
<1>2. ASSUME NEW t \in Client
      PROVE  /\ task'[t].post = task[t].post
             /\ task'[t].held = task[t].held
             /\ task[t].post => /\ task'[t].left = task[t].left - 1
                                /\ task[t].since = 0 /\ task'[t].since = 1
  <2> DEFINE r == [task[t] EXCEPT !.since = 1,
                                  !.left = IF task[t].post THEN @ - 1 ELSE @]
  <2>1. task'[t] = IF Hurries(t) THEN r ELSE task[t]
    BY DEF Tick
  <2>2. r.held = task[t].held /\ r.since = 1 /\ (task[t].post => r.left = task[t].left - 1)
    BY <1>1 DEF TypeInv, TypeOK, TaskState
  <2>3. r.post = task[t].post
    BY <1>1, TaskFields
  <2>4. task[t].post => Hurries(t) /\ task[t].since = 0
    BY <1>1 DEF TypeInv, TasksInPhase, Hurries, Tick
  <2> HIDE DEF r
  <2> QED BY <2>1, <2>2, <2>3, <2>4
<1>3. ASSUME NEW w \in Wallet
      PROVE  /\ (store'[w] # None) <=> (store[w] # None)
             /\ store[w] # None => /\ store'[w].nonce = store[w].nonce
                                   /\ store'[w].left = IF store[w].left = -2 THEN -2
                                                       ELSE store[w].left - 1
                                   /\ store[w].left \in -2 .. WalletTtl
  <2>1. store[w] \in [nonce : Nonce, left : -2 .. WalletTtl] \cup {None}
    BY <1>1 DEF TypeInv, TypeOK
  <2>2. store'[w] \in [nonce : Nonce, left : -2 .. WalletTtl] \cup {None}
    BY DEF TypeInv, TypeOK
  <2>3. store'[w] = IF store[w] = None \/ store[w].left = -2 THEN store[w]
                    ELSE [store[w] EXCEPT !.left = @ - 1]
    BY DEF Tick
  <2>4. CASE store[w] = None \/ store[w].left = -2
    BY <2>1, <2>3, <2>4
  <2>5. CASE store[w] # None /\ store[w].left # -2
    <3>1. store'[w].nonce = store[w].nonce /\ store'[w].left = store[w].left - 1
      BY <2>1, <2>3, <2>5
    <3>2. store'[w] # None
      <4>1. store[w].left - 1 \in -2 .. WalletTtl /\ store[w].nonce \in Nonce
        BY <2>1, <2>5, AuthAssumption
      <4>2. store'[w] \in [nonce : Nonce, left : -2 .. WalletTtl]
        BY <2>1, <2>3, <2>5, <4>1
      <4> QED BY <4>2, AuthAssumption
    <3> QED BY <2>1, <2>5, <3>1, <3>2
  <2> QED BY <2>4, <2>5
<1>4. ASSUME NEW d \in Open'
      PROVE  \E c \in Open : d = [c EXCEPT !.age = @ + 1]
  <2>1. CASE \E w \in Wallet :
               store'[w] # None /\ d = StoredBy(w)' /\ d.age <= WalletTtl + 1
    <3>1. PICK w \in Wallet :
                 store'[w] # None /\ d = StoredBy(w)' /\ d.age <= WalletTtl + 1
      BY <2>1
    <3> DEFINE c == StoredBy(w)
    <3>2. /\ d = [wallet |-> w, nonce |-> store'[w].nonce, age |-> WalletTtl - store'[w].left]
          /\ c = [wallet |-> w, nonce |-> store[w].nonce, age |-> WalletTtl - store[w].left]
      BY <3>1 DEF StoredBy
    <3>3. /\ store[w] # None /\ store'[w].nonce = store[w].nonce
          /\ store'[w].left = IF store[w].left = -2 THEN -2 ELSE store[w].left - 1
          /\ store[w].left \in -2 .. WalletTtl
          /\ WalletTtl \in Nat
      BY <1>3, <3>1, AuthAssumption
    <3>4. WalletTtl - store'[w].left <= WalletTtl + 1
      BY <3>1, <3>2
    <3>5. /\ WalletTtl - store'[w].left = (WalletTtl - store[w].left) + 1
          /\ WalletTtl - store[w].left <= WalletTtl + 1
      BY <3>3, <3>4
    <3> HIDE DEF c
    <3>6. d = [c EXCEPT !.age = @ + 1] /\ c.age <= WalletTtl + 1
      BY <3>2, <3>3, <3>5
    <3>7. c \in Open
      BY <3>3, <3>6, OpenMember DEF c
    <3> QED BY <3>6, <3>7
  <2>2. CASE \E t \in Client' :
               task'[t].post /\ d = PostedBy(t)' /\ d.age <= WalletTtl + 1
    <3>1. PICK t \in Client :
                 task'[t].post /\ d = PostedBy(t)' /\ d.age <= WalletTtl + 1
      BY <1>1, <2>2
    <3> DEFINE c == PostedBy(t)
    <3>2. /\ d = [wallet |-> walletOf[t], nonce |-> task'[t].held,
                  age |-> WalletTtl - task'[t].left]
          /\ c = [wallet |-> walletOf[t], nonce |-> task[t].held,
                  age |-> WalletTtl - task[t].left]
      BY <1>1, <3>1 DEF PostedBy
    <3>3. /\ task[t].post /\ task'[t].held = task[t].held
          /\ task'[t].left = task[t].left - 1
      BY <1>2, <3>1
    <3>4. task[t].left \in Int /\ WalletTtl \in Nat
      BY <1>1, AuthAssumption DEF TypeInv, TypeOK, TaskState
    <3>5. WalletTtl - task'[t].left <= WalletTtl + 1
      BY <3>1, <3>2
    <3>6. /\ WalletTtl - task'[t].left = (WalletTtl - task[t].left) + 1
          /\ WalletTtl - task[t].left <= WalletTtl + 1
      BY <3>3, <3>4, <3>5
    <3> HIDE DEF c
    <3>7. d = [c EXCEPT !.age = @ + 1] /\ c.age <= WalletTtl + 1
      BY <3>2, <3>3, <3>6
    <3>8. c \in Open
      BY <3>3, <3>7, OpenMember DEF c
    <3> QED BY <3>7, <3>8
  <2> QED BY <2>1, <2>2, OpenMemberNext
<1>5. StoreDistinct'
  BY <1>3 DEF OnceInv, StoreDistinct
<1>6. TakenFromStore'
  BY <1>1, <1>2, <1>3 DEF OnceInv, TakenFromStore
<1>7. PostsDistinct'
  BY <1>1, <1>2 DEF OnceInv, PostsDistinct
<1>8. TakenInTime'
  <2>1. ASSUME NEW t \in Client, task[t].post
        PROVE  task'[t].left >= -task'[t].since
    <3>1. task[t].left >= -task[t].since /\ task[t].left \in Int
      BY <2>1 DEF OnceInv, TakenInTime, TypeInv, TypeOK, TaskState
    <3> QED BY <1>2, <2>1, <3>1
  <2> QED BY <1>1, <1>2, <2>1 DEF TakenInTime
<1>9. Open' \in SUBSET {[c EXCEPT !.age = @ + 1] : c \in Open}
  BY <1>4
<1> QED BY <1>1, <1>5, <1>6, <1>7, <1>8, <1>9 DEF OnceInv, Promise!TimePasses

-----------------------------------------------------------------------------
LEMMA NextAdmission ==
  ASSUME OnceInv, [Next]_vars
  PROVE  OnceInv' /\ [Promise!Next]_(Promise!vars)
<1>0. TypeInv /\ TypeInv'
  BY NextType DEF OnceInv
<1>1. ASSUME NEW t \in Client, Get(t) \/ ReadChain(t)
      PROVE  OnceInv' /\ Promise!Next
  BY <1>0, <1>1, GetLapses, ReadLapses DEF Promise!Next
<1>2. ASSUME NEW t \in Client, Fill(t) \/ StoreChallenge(t)
      PROVE  OnceInv' /\ Promise!Next
  BY <1>0, <1>2, FillStep, StoreIssues
<1>3. ASSUME NEW t \in Client, Post(t) \/ PostAgain(t)
      PROVE  OnceInv' /\ Promise!Next
  <2>1. Verify(t) /\ UNCHANGED walletOf /\ task[t].pc \in {"idle", "signed"}
    BY <1>3 DEF Post, PostAgain
  <2> QED BY <1>0, <2>1, VerifyStep
<1>4. ASSUME NEW t \in Client, Drop(t) \/ Abandon(t)
      PROVE  OnceInv' /\ Promise!Next
  <2>1. task' = [task EXCEPT ![t] = Done(t)] /\ last' = None /\ UNCHANGED <<walletOf, store>>
    BY <1>4 DEF Drop, Abandon
  <2>2. NothingIssued
    BY <1>0, <2>1, DoneIssuesNothing
  <2> QED BY <1>0, <2>1, <2>2, ShrinkingLapses DEF Promise!Next
<1>5. ASSUME (\E w \in Wallet : SetListed(w)) \/ Recover
      PROVE  OnceInv' /\ Promise!Next
  <2>1. last' = None /\ UNCHANGED <<walletOf, store, task>>
    BY <1>5 DEF SetListed, Recover
  <2>2. NothingIssued
    BY <2>1 DEF NothingIssued
  <2> QED BY <1>0, <2>1, <2>2, ShrinkingLapses DEF Promise!Next
<1>6. CASE Tick
  BY <1>0, <1>6, TickStep DEF Promise!Next
<1>7. CASE UNCHANGED vars
  <2>1. UNCHANGED <<walletOf, store, task, last>>
    BY <1>7 DEF vars
  <2>2. Open' = Open
    BY <2>1 DEF Open, Client
  <2>3. OnceInv'
    BY <1>0, <2>1
    DEF OnceInv, StoreDistinct, TakenFromStore, PostsDistinct, TakenInTime, Client
  <2> QED BY <2>1, <2>2, <2>3 DEF Promise!vars
<1> QED BY <1>1, <1>2, <1>3, <1>4, <1>5, <1>6, <1>7 DEF Next, Serve

(* However requests overlap, are dropped or sent twice, and whatever the    *)
(* whitelist does: an admission is by a challenge issued to its wallet, not *)
(* expired, and not used before.                                            *)
THEOREM AdmitsOnce == Spec => ChallengesAdmitOnce
<1>1. Init => OnceInv /\ Promise!Init
  <2> SUFFICES ASSUME Init PROVE OnceInv /\ Promise!Init
    OBVIOUS
  <2>1. TypeInv
    BY InitType
  <2>2. (\A w \in Wallet : store[w] = None) /\ last = None
    BY DEF Init
  <2>3. \A t \in Client : ~task[t].post
    BY DEF Init, Idle
  <2>4. Open = {}
    BY <2>2, <2>3, OpenMember
  <2>5. OnceInv
    BY <2>1, <2>2, <2>3
    DEF OnceInv, StoreDistinct, TakenFromStore, PostsDistinct, TakenInTime
  <2> QED BY <2>2, <2>4, <2>5 DEF Promise!Init
<1>2. OnceInv /\ [Next]_vars => OnceInv' /\ [Promise!Next]_(Promise!vars)
  BY NextAdmission
<1> QED BY <1>1, <1>2, PTL DEF Spec, ChallengesAdmitOnce, Promise!Spec
=============================================================================
