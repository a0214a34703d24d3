--------------------------- MODULE AccountsProofs ---------------------------
(* Theorems about accounts and wallet links for any number of wallets,        *)
(* accounts, sign-ins and unlinks that run side by side.                      *)
EXTENDS AccountsProperties, FiniteSetTheorems, TLAPS

-----------------------------------------------------------------------------
(* Type correctness.                                                          *)

AttemptsOK == attempt \in [Nonces -> Attempts]

AccountsOK ==
    /\ users \subseteq Users
    /\ email \in [Users -> Wallets \union {None}]
    /\ google \subseteq users
    /\ identities \subseteq users \X Wallets
    /\ link \in [Wallets -> users \union {None}]
    /\ sessions \subseteq users

LEMMA TypeParts ==
    TypeOK <=> /\ AccountsOK
               /\ AttemptsOK
               /\ unlinking \in [Unlinks -> Transactions]
               /\ stops \in Nat
  BY DEF TypeOK, AccountsOK, AttemptsOK

LEMMA TypeOKNext ==
    ASSUME AccountsOK', AttemptsOK', unlinking' \in [Unlinks -> Transactions], stops' \in Nat
    PROVE  TypeOK'
  BY DEF TypeOK, AccountsOK, AttemptsOK

LEMMA AttemptFields ==
    ASSUME AttemptsOK, NEW n \in Nonces
    PROVE  /\ attempt[n] \in Attempts
           /\ attempt[n].step \in Steps
           /\ attempt[n].address \in Wallets \union {None}
           /\ attempt[n].session \in Users \union {None}
           /\ attempt[n].owner \in Users \union {None}
           /\ attempt[n].user \in Users \union {None}
  BY DEF AttemptsOK, Attempts

LEMMA StepKeeps ==
    ASSUME AttemptsOK, NEW n \in Nonces, NEW step \in Steps, Step(n, step)
    PROVE  /\ AttemptsOK'
           /\ \A m \in Nonces : m # n => attempt'[m] = attempt[m]
           /\ attempt'[n].step = step
           /\ attempt'[n].address = attempt[n].address
           /\ attempt'[n].session = attempt[n].session
           /\ attempt'[n].owner = attempt[n].owner
           /\ attempt'[n].user = attempt[n].user
  BY DEF AttemptsOK, Attempts, Step

LEMMA DeleteKeeps ==
    ASSUME AccountsOK, NEW u, Delete(u)
    PROVE  AccountsOK'
  BY DEF AccountsOK, Delete

LEMMA DeleteTakes ==
    ASSUME AccountsOK, NEW u \in Users, Delete(u)
    PROVE  /\ users' = users \ {u}
           /\ google' = google \ {u}
           /\ sessions' = sessions \ {u}
           /\ LinkedTo(u)' = {}
           /\ \A v \in Users \ {u} : LinkedTo(v)' = LinkedTo(v) /\ HasAWayIn(v)' = HasAWayIn(v)
  BY AccountsAssumption DEF AccountsOK, Delete, LinkedTo, HasAWayIn

Others(n) == \A m \in Nonces : m # n => attempt'[m] = attempt[m]

\* The account of u is one that sign-in n was making, stopped or not.
Half(n, u) ==
    /\ attempt[n].user = u
    /\ attempt[n].session = None
    /\ attempt[n].step \in {"claiming", "yielding", "stopped"}

\* What the first statements of a sign-in make of it.
LEMMA ConsumeKeeps ==
    ASSUME TypeOK, NEW n \in Nonces, NEW a \in Wallets, NEW u \in Users \union {None},
           attempt' = [attempt EXCEPT ![n].step = "verified", ![n].address = a, ![n].session = u]
    PROVE  /\ AttemptsOK'
           /\ Others(n)
           /\ attempt'[n].step = "verified"
           /\ attempt'[n].address = a
           /\ attempt'[n].session = u
           /\ attempt'[n].owner = attempt[n].owner
           /\ attempt'[n].user = attempt[n].user
<1> DEFINE q == attempt[n]
           r == [q EXCEPT !.step = "verified", !.address = a, !.session = u]
<1>1. AttemptsOK /\ q \in Attempts
  BY TypeParts, AttemptFields
<1>2. attempt' = [attempt EXCEPT ![n] = r]
  OBVIOUS
<1>3. /\ r \in Attempts
      /\ r.step = "verified" /\ r.address = a /\ r.session = u
      /\ r.owner = q.owner /\ r.user = q.user
  BY <1>1 DEF Attempts, Steps
<1> HIDE DEF r
<1>4. QED
  BY <1>1, <1>2, <1>3 DEF AttemptsOK, Others

LEMMA OwnerOfKeeps ==
    ASSUME TypeOK, AttemptSound, NEW n \in Nonces, OwnerOf(n)
    PROVE  /\ AttemptsOK'
           /\ Others(n)
           /\ attempt[n].step = "verified"
           /\ attempt[n].address \in Wallets
           /\ attempt'[n].step \in {"over", "claiming", "ensuring", "finding"}
           /\ attempt'[n].step = "claiming" => attempt[n].session # None
           /\ attempt'[n].step = "finding" => attempt[n].session = None
           /\ attempt'[n].address = attempt[n].address
           /\ attempt'[n].session = attempt[n].session
           /\ attempt'[n].owner = link[attempt[n].address]
           /\ attempt'[n].user = attempt[n].session
<1> DEFINE q == attempt[n]
           owner == link[q.address]
           step == CASE q.session # None /\ owner \notin {None, q.session} -> "over"
                     [] q.session # None /\ owner = None      -> "claiming"
                     [] q.session # None /\ owner = q.session -> "ensuring"
                     [] q.session = None -> "finding"
           r == [q EXCEPT !.owner = owner, !.user = q.session, !.step = step]
<1>1. AttemptsOK /\ q \in Attempts /\ q.session \in Users \union {None}
  BY TypeParts, AttemptFields
<1>2. attempt' = [attempt EXCEPT ![n] = r]
  BY DEF OwnerOf
<1>3. /\ step \in {"over", "claiming", "ensuring", "finding"}
      /\ step = "claiming" => q.session # None
      /\ step = "finding" => q.session = None
  OBVIOUS
<1>4. q.step = "verified" /\ q.address \in Wallets
  BY DEF OwnerOf, AttemptSound, Over
<1>5. owner \in Users \union {None}
  BY <1>4, TypeParts DEF AccountsOK
<1> HIDE DEF owner, step
<1>6. /\ r \in Attempts
      /\ r.step = step /\ r.owner = owner /\ r.user = q.session
      /\ r.address = q.address /\ r.session = q.session
  BY <1>1, <1>3, <1>5 DEF Attempts, Steps
<1> HIDE DEF r
<1>7. QED
  BY <1>1, <1>2, <1>3, <1>4, <1>6 DEF AttemptsOK, Others, owner

LEMMA FindUserKeeps ==
    ASSUME TypeOK, NEW n \in Nonces, FindUser(n)
    PROVE  /\ AttemptsOK'
           /\ Others(n)
           /\ attempt[n].step \in {"finding", "deferring"}
           /\ attempt'[n].step \in {"over", "ensuring", "making"}
           /\ attempt'[n].address = attempt[n].address
           /\ attempt'[n].session = attempt[n].session
           /\ attempt'[n].owner = attempt[n].owner
           /\ attempt'[n].user \in {attempt[n].owner, None}
<1> DEFINE q == attempt[n]
           user == IF q.owner \in users THEN q.owner ELSE None
           step == CASE q.owner \in users -> "ensuring"
                     [] q.owner \notin users /\ q.step = "finding" -> "making"
                     [] q.owner \notin users /\ q.step = "deferring" -> "over"
           r == [q EXCEPT !.user = user, !.step = step]
<1>1. AttemptsOK /\ q \in Attempts /\ q.owner \in Users \union {None}
  BY TypeParts, AttemptFields
<1>2. attempt' = [attempt EXCEPT ![n] = r] /\ q.step \in {"finding", "deferring"}
  BY DEF FindUser
<1>3. step \in {"over", "ensuring", "making"} /\ user \in {q.owner, None}
  BY <1>2
<1> HIDE DEF user, step
<1>4. /\ r \in Attempts
      /\ r.step = step /\ r.owner = q.owner /\ r.user = user
      /\ r.address = q.address /\ r.session = q.session
  BY <1>1, <1>3 DEF Attempts, Steps
<1> HIDE DEF r
<1>5. QED
  BY <1>1, <1>2, <1>3, <1>4 DEF AttemptsOK, Others

LEMMA CreateUserKeeps ==
    ASSUME TypeOK, NEW n \in Nonces, NEW u \in Users,
           attempt' = [attempt EXCEPT ![n].user = u, ![n].step = "claiming"]
    PROVE  /\ AttemptsOK'
           /\ Others(n)
           /\ attempt'[n].step = "claiming"
           /\ attempt'[n].address = attempt[n].address
           /\ attempt'[n].session = attempt[n].session
           /\ attempt'[n].owner = attempt[n].owner
           /\ attempt'[n].user = u
<1> DEFINE q == attempt[n]
           r == [q EXCEPT !.user = u, !.step = "claiming"]
<1>1. AttemptsOK /\ q \in Attempts
  BY TypeParts, AttemptFields
<1>2. attempt' = [attempt EXCEPT ![n] = r]
  OBVIOUS
<1>3. /\ r \in Attempts
      /\ r.step = "claiming" /\ r.user = u
      /\ r.owner = q.owner /\ r.address = q.address /\ r.session = q.session
  BY <1>1 DEF Attempts, Steps
<1> HIDE DEF r
<1>4. QED
  BY <1>1, <1>2, <1>3 DEF AttemptsOK, Others

LEMMA RereadKeeps ==
    ASSUME TypeOK, NEW n \in Nonces, NEW owner \in Users \union {None},
           attempt' = [attempt EXCEPT ![n].owner = owner, ![n].step = "deferring"]
    PROVE  /\ AttemptsOK'
           /\ Others(n)
           /\ attempt'[n].step = "deferring"
           /\ attempt'[n].address = attempt[n].address
           /\ attempt'[n].session = attempt[n].session
           /\ attempt'[n].owner = owner
           /\ attempt'[n].user = attempt[n].user
<1> DEFINE q == attempt[n]
           r == [q EXCEPT !.owner = owner, !.step = "deferring"]
<1>1. AttemptsOK /\ q \in Attempts
  BY TypeParts, AttemptFields
<1>2. attempt' = [attempt EXCEPT ![n] = r]
  OBVIOUS
<1>3. /\ r \in Attempts
      /\ r.step = "deferring" /\ r.owner = owner
      /\ r.user = q.user /\ r.address = q.address /\ r.session = q.session
  BY <1>1 DEF Attempts, Steps
<1> HIDE DEF r
<1>4. QED
  BY <1>1, <1>2, <1>3 DEF AttemptsOK, Others

-----------------------------------------------------------------------------
(* The steps that change nothing but one sign-in.                             *)

Sound(n) ==
    /\ attempt[n].step \notin Over \union {"issued"} => attempt[n].address \in Wallets
    /\ attempt[n].step \in {"finding", "making", "yielding", "rereading", "deferring"}
          => attempt[n].session = None

LEMMA AttemptSoundNext ==
    ASSUME AttemptSound, NEW n \in Nonces, Others(n), Sound(n)'
    PROVE  AttemptSound'
  BY DEF AttemptSound, Others, Sound

LEMMA MadeSoundNext ==
    ASSUME TypeOK, AttemptsOK', NEW n \in Nonces, Others(n),
           \A u \in Users \union {None} : Making(n, u)' =>
              /\ u \in Users \ (google' \union sessions')
              /\ LinkedTo(u)' = {}
              /\ \A t \in Unlinks : unlinking'[t].user # u
              /\ \A m \in Nonces \ {n} :
                    u \notin {attempt[m].user, attempt[m].session, attempt[m].owner},
           \A m \in Nonces \ {n}, u \in Users \union {None} : Making(m, u) =>
              /\ u \in Users \ (google' \union sessions')
              /\ LinkedTo(u)' = {}
              /\ \A t \in Unlinks : unlinking'[t].user # u
              /\ u \notin {attempt'[n].user, attempt'[n].session, attempt'[n].owner}
              /\ \A k \in Nonces \ {n, m} :
                    u \notin {attempt[k].user, attempt[k].session, attempt[k].owner}
    PROVE  MadeSound'
  BY DEF MadeSound, Making, Others

LEMMA LockSoundNext ==
    ASSUME LockSound, UNCHANGED unlinking,
           \A t \in Unlinks : unlinking[t].step = "locked" =>
              /\ unlinking[t].user \in users'
              /\ \A a \in unlinking[t].linked : link[a] = unlinking[t].user
                    => link'[a] = unlinking[t].user
    PROVE  LockSound'
  BY DEF LockSound, LinkedTo

LEMMA WaysInNext ==
    ASSUME WaysIn, NEW n \in Nonces, Others(n),
           \A u \in users' : u \in users /\ HasAWayIn(u) => HasAWayIn(u)',
           \A u \in users' : u \notin users => HasAWayIn(u)' \/ Half(n, u)',
           \A u \in users' : Half(n, u) => HasAWayIn(u)' \/ Half(n, u)'
    PROVE  WaysIn'
<1> SUFFICES ASSUME NEW u \in users'
             PROVE  \/ HasAWayIn(u)'
                    \/ \E m \in Nonces : Half(m, u)'
  BY DEF WaysIn, Half
<1>1. CASE u \notin users \/ HasAWayIn(u)
  BY <1>1
<1>2. CASE u \in users /\ ~ HasAWayIn(u)
  <2>1. PICK m \in Nonces : Half(m, u)
    BY <1>2 DEF WaysIn, Half
  <2>2. CASE m # n
    BY <2>1, <2>2 DEF Half, Others
  <2>3. QED
    BY <2>1, <2>2
<1>3. QED
  BY <1>1, <1>2

LEMMA OnlyTheAttempt ==
    ASSUME AccountsInv, NEW n \in Nonces, AttemptsOK', Others(n), Sound(n)',
           UNCHANGED <<users, email, google, link, sessions, unlinking>>,
           AccountsOK', stops' \in Nat,
           \A u : Making(n, u)' => Making(n, u),
           \A u \in users : Half(n, u) => Half(n, u)',
           \A m \in Nonces \ {n}, u \in Users \union {None} : Making(m, u) =>
              u \notin {attempt'[n].user, attempt'[n].session, attempt'[n].owner}
    PROVE  AccountsInv'
<1> USE DEF AccountsInv
<1>1. TypeOK'
  BY TypeParts DEF TypeOK, AccountsOK, AttemptsOK
<1>2. AttemptSound'
  BY AttemptSoundNext
<1>3. LinkedTo(None)' = LinkedTo(None) /\ \A u : LinkedTo(u)' = LinkedTo(u) /\ HasAWayIn(u)' = HasAWayIn(u)
  BY DEF LinkedTo, HasAWayIn
<1>4. MadeSound'
  <2>1. \A u \in Users \union {None} : Making(n, u)' =>
              /\ u \in Users \ (google' \union sessions')
              /\ LinkedTo(u)' = {}
              /\ \A t \in Unlinks : unlinking'[t].user # u
              /\ \A m \in Nonces \ {n} :
                    u \notin {attempt[m].user, attempt[m].session, attempt[m].owner}
    BY <1>3 DEF MadeSound
  <2>2. \A m \in Nonces \ {n}, u \in Users \union {None} : Making(m, u) =>
              /\ u \in Users \ (google' \union sessions')
              /\ LinkedTo(u)' = {}
              /\ \A t \in Unlinks : unlinking'[t].user # u
              /\ u \notin {attempt'[n].user, attempt'[n].session, attempt'[n].owner}
              /\ \A k \in Nonces \ {n, m} :
                    u \notin {attempt[k].user, attempt[k].session, attempt[k].owner}
    BY <1>3 DEF MadeSound
  <2>3. QED
    BY <2>1, <2>2, MadeSoundNext
<1>5. LockSound'
  BY LockSoundNext DEF LockSound
<1>6. WaysIn'
  BY <1>3, WaysInNext
<1>7. QED
  BY <1>1, <1>2, <1>4, <1>5, <1>6

LEMMA OnlyTheStep ==
    ASSUME AccountsInv, NEW n \in Nonces, NEW step \in Steps, Step(n, step),
           UNCHANGED <<users, email, google, link, sessions, unlinking>>,
           AccountsOK', stops' \in Nat,
           step \notin Over \union {"issued"} => attempt[n].address \in Wallets,
           step \in {"making", "yielding", "rereading", "deferring", "finding"}
              => attempt[n].session = None,
           step # "claiming",
           step = "yielding" => attempt[n].step = "claiming",
           attempt[n].step \in {"claiming", "yielding", "stopped"} /\ attempt[n].user \in users
              => attempt[n].session # None \/ step \in {"yielding", "stopped"}
    PROVE  AccountsInv'
<1>1. AttemptsOK
  BY TypeParts DEF AccountsInv
<1>2. /\ AttemptsOK'
      /\ Others(n)
      /\ attempt'[n].step = step
      /\ attempt'[n].address = attempt[n].address
      /\ attempt'[n].session = attempt[n].session
      /\ attempt'[n].owner = attempt[n].owner
      /\ attempt'[n].user = attempt[n].user
  BY <1>1, StepKeeps DEF Others
<1>3. Sound(n)'
  BY <1>2 DEF Sound
<1>4. \A u : Making(n, u)' => Making(n, u)
  BY <1>2 DEF Making
<1>5. \A u \in users : Half(n, u) => Half(n, u)'
  BY <1>2 DEF Half
<1>6. \A m \in Nonces \ {n}, u \in Users \union {None} : Making(m, u) =>
          u \notin {attempt'[n].user, attempt'[n].session, attempt'[n].owner}
  BY <1>2 DEF AccountsInv, MadeSound
<1>7. QED
  BY <1>2, <1>3, <1>4, <1>5, <1>6, OnlyTheAttempt

-----------------------------------------------------------------------------
(* One lemma for every statement of a sign-in.                                *)

LEMMA IssueKeepsInv ==
    ASSUME AccountsInv, NEW n \in Nonces, Issue(n)
    PROVE  AccountsInv'
<1>1. AccountsOK'
  BY TypeParts DEF AccountsInv, AccountsOK, Issue
<1>2. stops' \in Nat
  BY TypeParts DEF AccountsInv, Issue
<1>3. "issued" \in Steps
  BY DEF Steps
<1>4. QED
  BY <1>1, <1>2, <1>3, OnlyTheStep DEF Issue, Over

LEMMA ConsumeKeepsInv ==
    ASSUME AccountsInv, NEW n \in Nonces, NEW a \in Wallets, NEW u \in Users \union {None},
           Consume(n, a, u)
    PROVE  AccountsInv'
<1>1. AccountsOK'
  BY TypeParts DEF AccountsInv, AccountsOK, Consume
<1>2. stops' \in Nat
  BY TypeParts DEF AccountsInv, Consume
<1>3. CASE Step(n, "over")
  <2>1. "over" \in Steps
    BY DEF Steps
  <2>2. QED
    BY <1>1, <1>2, <1>3, <2>1, OnlyTheStep DEF Consume, Over
<1>4. CASE attempt' = [attempt EXCEPT ![n].step = "verified", ![n].address = a, ![n].session = u]
  <2>1. /\ AttemptsOK'
        /\ Others(n)
        /\ attempt'[n].step = "verified"
        /\ attempt'[n].address = a
        /\ attempt'[n].session = u
        /\ attempt'[n].owner = attempt[n].owner
        /\ attempt'[n].user = attempt[n].user
    BY <1>4, ConsumeKeeps DEF AccountsInv
  <2>2. Sound(n)' /\ (\A v : ~ Making(n, v)') /\ (\A v : ~ Half(n, v))
    BY <2>1 DEF Sound, Making, Half, Consume
  <2>3. \A m \in Nonces \ {n}, v \in Users \union {None} : Making(m, v) =>
            v \notin {attempt'[n].user, attempt'[n].session, attempt'[n].owner}
    BY <2>1, AccountsAssumption DEF AccountsInv, MadeSound, Consume
  <2>4. QED
    BY <1>1, <1>2, <2>1, <2>2, <2>3, OnlyTheAttempt DEF Consume
<1>5. QED
  BY <1>3, <1>4 DEF Consume

LEMMA OwnerOfKeepsInv ==
    ASSUME AccountsInv, NEW n \in Nonces, OwnerOf(n)
    PROVE  AccountsInv'
<1>1. AccountsOK'
  BY TypeParts DEF AccountsInv, AccountsOK, OwnerOf
<1>2. stops' \in Nat
  BY TypeParts DEF AccountsInv, OwnerOf
<1>3. /\ AttemptsOK'
      /\ Others(n)
      /\ attempt[n].step = "verified"
      /\ attempt[n].address \in Wallets
      /\ attempt'[n].step \in {"over", "claiming", "ensuring", "finding"}
      /\ attempt'[n].step = "claiming" => attempt[n].session # None
      /\ attempt'[n].step = "finding" => attempt[n].session = None
      /\ attempt'[n].address = attempt[n].address
      /\ attempt'[n].session = attempt[n].session
      /\ attempt'[n].owner = link[attempt[n].address]
      /\ attempt'[n].user = attempt[n].session
  BY OwnerOfKeeps DEF AccountsInv
<1>4. Sound(n)' /\ (\A v : ~ Making(n, v)') /\ (\A v : ~ Half(n, v))
  BY <1>3 DEF Sound, Making, Half
<1>5. \A m \in Nonces \ {n}, v \in Users \union {None} : Making(m, v) =>
          v \notin {attempt'[n].user, attempt'[n].session, attempt'[n].owner}
  BY <1>3 DEF AccountsInv, MadeSound, LinkedTo
<1>6. QED
  BY <1>1, <1>2, <1>3, <1>4, <1>5, OnlyTheAttempt DEF OwnerOf

LEMMA FindUserKeepsInv ==
    ASSUME AccountsInv, NEW n \in Nonces, FindUser(n)
    PROVE  AccountsInv'
<1>1. AccountsOK'
  BY TypeParts DEF AccountsInv, AccountsOK, FindUser
<1>2. stops' \in Nat
  BY TypeParts DEF AccountsInv, FindUser
<1>3. /\ AttemptsOK'
      /\ Others(n)
      /\ attempt[n].step \in {"finding", "deferring"}
      /\ attempt'[n].step \in {"over", "ensuring", "making"}
      /\ attempt'[n].address = attempt[n].address
      /\ attempt'[n].session = attempt[n].session
      /\ attempt'[n].owner = attempt[n].owner
      /\ attempt'[n].user \in {attempt[n].owner, None}
  BY FindUserKeeps DEF AccountsInv
<1>4. Sound(n)
  BY DEF AccountsInv, AttemptSound, Sound
<1>5. Sound(n)' /\ (\A v : ~ Making(n, v)') /\ (\A v : ~ Half(n, v))
  BY <1>3, <1>4 DEF Sound, Making, Half, Over
<1>6. \A m \in Nonces \ {n}, v \in Users \union {None} : Making(m, v) =>
          v \notin {attempt'[n].user, attempt'[n].session, attempt'[n].owner}
  BY <1>3, AccountsAssumption DEF AccountsInv, MadeSound
<1>7. QED
  BY <1>1, <1>2, <1>3, <1>5, <1>6, OnlyTheAttempt DEF FindUser

LEMMA CreateUserKeepsInv ==
    ASSUME AccountsInv, NEW n \in Nonces, NEW u \in Users, CreateUser(n, u)
    PROVE  AccountsInv'
<1>1. attempt[n].step = "making" /\ Sound(n) /\ Unheard(u)
  BY DEF CreateUser, AccountsInv, AttemptSound, Sound
<1>2. attempt[n].address \in Wallets /\ attempt[n].session = None
  BY <1>1 DEF Sound, Over
<1>3. CASE Step(n, "over") /\ UNCHANGED <<users, email>>
  <2>1. "over" \in Steps
    BY DEF Steps
  <2>2. AccountsOK' /\ stops' \in Nat
    BY <1>3, TypeParts DEF AccountsInv, AccountsOK, CreateUser
  <2>3. QED
    BY <1>1, <1>3, <2>1, <2>2, OnlyTheStep DEF CreateUser, Over
<1>4. CASE /\ users' = users \union {u}
           /\ email' = [email EXCEPT ![u] = attempt[n].address]
           /\ attempt' = [attempt EXCEPT ![n].user = u, ![n].step = "claiming"]
  <2> USE DEF AccountsInv
  <2>1. UNCHANGED <<google, identities, link, sessions, unlinking, stops>>
    BY DEF CreateUser
  <2>2. AccountsOK' /\ stops' \in Nat
    BY <1>2, <1>4, <2>1, TypeParts DEF AccountsOK
  <2>3. /\ AttemptsOK'
        /\ Others(n)
        /\ attempt'[n].step = "claiming"
        /\ attempt'[n].address = attempt[n].address
        /\ attempt'[n].session = attempt[n].session
        /\ attempt'[n].owner = attempt[n].owner
        /\ attempt'[n].user = u
    BY <1>4, CreateUserKeeps
  <2>4. TypeOK'
    BY <2>1, <2>2, <2>3, TypeParts, TypeOKNext
  <2>5. AttemptSound'
    BY <1>2, <2>3, AttemptSoundNext DEF Sound
  <2>6. \A v : LinkedTo(v)' = LinkedTo(v) /\ HasAWayIn(v)' = HasAWayIn(v)
    BY <2>1 DEF LinkedTo, HasAWayIn
  <2>7. /\ u \in Users \ (google \union sessions)
        /\ LinkedTo(u) = {}
        /\ \A t \in Unlinks : unlinking[t].user # u
        /\ \A m \in Nonces : u \notin {attempt[m].user, attempt[m].session, attempt[m].owner}
    BY <1>1, AccountsAssumption, TypeParts DEF Unheard, LinkedTo, AccountsOK
  <2>8. MadeSound'
    <3>1. \A v \in Users \union {None} : Making(n, v)' =>
              /\ v \in Users \ (google' \union sessions')
              /\ LinkedTo(v)' = {}
              /\ \A t \in Unlinks : unlinking'[t].user # v
              /\ \A m \in Nonces \ {n} :
                    v \notin {attempt[m].user, attempt[m].session, attempt[m].owner}
      BY <2>1, <2>3, <2>6, <2>7 DEF Making
    <3>2. \A m \in Nonces \ {n}, v \in Users \union {None} : Making(m, v) =>
              /\ v \in Users \ (google' \union sessions')
              /\ LinkedTo(v)' = {}
              /\ \A t \in Unlinks : unlinking'[t].user # v
              /\ v \notin {attempt'[n].user, attempt'[n].session, attempt'[n].owner}
              /\ \A k \in Nonces \ {n, m} :
                    v \notin {attempt[k].user, attempt[k].session, attempt[k].owner}
      BY <2>1, <2>3, <2>6, <2>7 DEF MadeSound, Making
    <3>3. QED
      BY <2>3, <3>1, <3>2, MadeSoundNext
  <2>9. LockSound'
    BY <1>4, <2>1, LockSoundNext DEF LockSound
  <2>10. WaysIn'
    <3>1. Half(n, u)'
      BY <1>2, <2>3 DEF Half
    <3>2. \A v : ~ Half(n, v)
      BY <1>1 DEF Half
    <3>3. QED
      BY <1>4, <2>3, <2>6, <3>1, <3>2, WaysInNext
  <2>11. QED
    BY <2>4, <2>5, <2>8, <2>9, <2>10
<1>5. QED
  BY <1>3, <1>4 DEF CreateUser

LEMMA ClaimKeepsInv ==
    ASSUME AccountsInv, NEW n \in Nonces, Claim(n)
    PROVE  AccountsInv'
<1> DEFINE q == attempt[n]
<1>1. q.step = "claiming" /\ q.address \in Wallets
  BY DEF Claim, AccountsInv, AttemptSound, Over
<1>2. /\ UNCHANGED <<users, email, google, identities, sessions, unlinking, stops>>
      /\ stops' \in Nat
  BY TypeParts DEF Claim, AccountsInv
<1>3. {"over", "ensuring", "yielding"} \subseteq Steps
  BY DEF Steps
<1>4. CASE q.user \notin users \/ ~ Unclaimed(q.address)
  <2>1. UNCHANGED link
    BY <1>4 DEF Claim
  <2>2. AccountsOK'
    BY <1>2, <2>1, TypeParts DEF AccountsInv, AccountsOK
  <2>3. CASE q.user \in users /\ q.session = None
    <3>1. Step(n, "yielding")
      BY <1>4, <2>3 DEF Claim
    <3>2. QED
      BY <1>1, <1>2, <1>3, <2>1, <2>2, <2>3, <3>1, OnlyTheStep
  <2>4. CASE q.user \in users /\ q.session # None
    <3>1. Step(n, "over")
      BY <1>4, <2>4 DEF Claim
    <3>2. QED
      BY <1>1, <1>2, <1>3, <2>1, <2>2, <2>4, <3>1, OnlyTheStep DEF Over
  <2>5. CASE q.user \notin users
    <3>1. Step(n, "over")
      BY <2>5 DEF Claim
    <3>2. QED
      BY <1>1, <1>2, <1>3, <2>1, <2>2, <2>5, <3>1, OnlyTheStep DEF Over
  <2>6. QED
    BY <2>3, <2>4, <2>5
<1>5. CASE q.user \in users /\ Unclaimed(q.address)
  <2> USE DEF AccountsInv
  <2>1. /\ link' = [link EXCEPT ![q.address] = q.user]
        /\ Step(n, "ensuring")
        /\ link[q.address] = None
    BY <1>5 DEF Claim, Unclaimed
  <2>2. AccountsOK'
    BY <1>1, <1>2, <1>5, <2>1, TypeParts DEF AccountsOK
  <2>3. /\ AttemptsOK'
        /\ Others(n)
        /\ attempt'[n].step = "ensuring"
        /\ attempt'[n].address = q.address
        /\ attempt'[n].session = q.session
        /\ attempt'[n].owner = q.owner
        /\ attempt'[n].user = q.user
    BY <1>3, <2>1, StepKeeps, TypeParts DEF Others
  <2>4. TypeOK'
    BY <1>2, <2>2, <2>3, TypeParts, TypeOKNext
  <2>5. AttemptSound'
    BY <1>1, <2>3, AttemptSoundNext DEF Sound
  <2>6. /\ \A u : u # q.user /\ u # None => LinkedTo(u)' = LinkedTo(u)
        /\ \A a \in Wallets : link[a] # None => link'[a] = link[a]
        /\ link'[q.address] = q.user
    BY <1>1, <2>1, TypeParts DEF LinkedTo, AccountsOK
  <2>7. MadeSound'
    <3>1. \A u : ~ Making(n, u)'
      BY <2>3 DEF Making
    <3>2. \A m \in Nonces \ {n}, v \in Users \union {None} : Making(m, v) =>
              /\ v \in Users \ (google' \union sessions')
              /\ LinkedTo(v)' = {}
              /\ \A t \in Unlinks : unlinking'[t].user # v
              /\ v \notin {attempt'[n].user, attempt'[n].session, attempt'[n].owner}
              /\ \A k \in Nonces \ {n, m} :
                    v \notin {attempt[k].user, attempt[k].session, attempt[k].owner}
      BY <1>2, <2>3, <2>6, AccountsAssumption DEF MadeSound
    <3>3. QED
      BY <2>3, <3>1, <3>2, MadeSoundNext
  <2>8. LockSound'
    <3>1. \A t \in Unlinks : unlinking[t].step = "locked" =>
              /\ unlinking[t].user \in users'
              /\ \A a \in unlinking[t].linked : link[a] = unlinking[t].user
                    => link'[a] = unlinking[t].user
      BY <1>2, <2>6, AccountsAssumption, TypeParts DEF LockSound, Transactions, AccountsOK, LinkedTo
    <3>2. QED
      BY <1>2, <3>1, LockSoundNext
  <2>9. WaysIn'
    <3>1. \A u \in users : HasAWayIn(u) => HasAWayIn(u)'
      BY <1>2, <2>6, AccountsAssumption, TypeParts DEF HasAWayIn, LinkedTo, AccountsOK
    <3>2. \A u : u = q.user => HasAWayIn(u)'
      BY <1>1, <2>6 DEF HasAWayIn, LinkedTo
    <3>3. \A u : Half(n, u) => u = q.user
      BY DEF Half
    <3>4. QED
      BY <1>2, <2>3, <3>1, <3>2, <3>3, WaysInNext
  <2>10. QED
    BY <2>4, <2>5, <2>7, <2>8, <2>9
<1>6. QED
  BY <1>4, <1>5

LEMMA YieldKeepsInv ==
    ASSUME AccountsInv, NEW n \in Nonces, Yield(n)
    PROVE  AccountsInv'
<1> DEFINE q == attempt[n]
<1> USE DEF AccountsInv
<1>1. q.step \in {"yielding", "rereading"} /\ q.address \in Wallets /\ q.session = None
  BY DEF Yield, AttemptSound, Over
<1>2. CASE /\ q.step = "yielding" /\ DeleteMade(q.user)
           /\ Step(n, "rereading") /\ UNCHANGED <<unlinking, stops>>
  <2> DEFINE u == q.user
  <2>1. Making(n, u) /\ u \in Users
    BY <1>1, <1>2, TypeParts, AttemptFields DEF Making, MadeSound
  <2>2. /\ LinkedTo(u) = {}
        /\ \A t \in Unlinks : unlinking[t].user # u
        /\ \A m \in Nonces \ {n} :
              u \notin {attempt[m].user, attempt[m].session, attempt[m].owner}
    BY <2>1 DEF MadeSound
  <2>3. AccountsOK'
    BY <1>2, DeleteKeeps, TypeParts DEF DeleteMade
  <2>4. /\ AttemptsOK'
        /\ Others(n)
        /\ attempt'[n].step = "rereading"
        /\ attempt'[n].address = q.address
        /\ attempt'[n].session = q.session
        /\ attempt'[n].owner = q.owner
        /\ attempt'[n].user = q.user
    BY <1>2, StepKeeps, TypeParts DEF Others, Steps
  <2>5. TypeOK'
    BY <1>2, <2>3, <2>4, TypeParts, TypeOKNext
  <2>6. AttemptSound'
    BY <1>1, <2>4, AttemptSoundNext DEF Sound
  <2>7. /\ users' = users \ {u}
        /\ google' = google \ {u}
        /\ sessions' = sessions \ {u}
        /\ \A v \in Users \ {u} : LinkedTo(v)' = LinkedTo(v) /\ HasAWayIn(v)' = HasAWayIn(v)
    BY <1>2, <2>1, DeleteTakes, TypeParts DEF DeleteMade
  <2>8. MadeSound'
    <3>1. \A v : ~ Making(n, v)'
      BY <2>4 DEF Making
    <3>2. \A m \in Nonces \ {n}, v \in Users \union {None} : Making(m, v) => v # u
      BY <2>2 DEF Making
    <3>3. \A m \in Nonces \ {n}, v \in Users \union {None} : Making(m, v) =>
              /\ v \in Users \ (google' \union sessions')
              /\ LinkedTo(v)' = {}
              /\ \A t \in Unlinks : unlinking'[t].user # v
              /\ v \notin {attempt'[n].user, attempt'[n].session, attempt'[n].owner}
              /\ \A k \in Nonces \ {n, m} :
                    v \notin {attempt[k].user, attempt[k].session, attempt[k].owner}
      BY <1>2, <2>4, <2>7, <3>2 DEF MadeSound
    <3>4. QED
      BY <2>4, <3>1, <3>3, MadeSoundNext
  <2>9. LockSound'
    <3>1. \A t \in Unlinks : unlinking[t].step = "locked" =>
              unlinking[t].user \in users \ {u} /\ unlinking[t].user \in Users
      BY <2>2, TypeParts DEF LockSound, AccountsOK
    <3>2. \A t \in Unlinks : unlinking[t].step = "locked" =>
              /\ unlinking[t].user \in users'
              /\ LinkedTo(unlinking[t].user)' = LinkedTo(unlinking[t].user)
      BY <1>2, <2>7, <3>1
    <3>3. QED
      BY <1>2, <3>2 DEF LockSound
  <2>10. WaysIn'
    <3>1. \A v \in users' : v \in Users \ {u} /\ v \in users /\ ~ Half(n, v)
      BY <2>7, TypeParts DEF AccountsOK, Half
    <3>2. QED
      BY <2>4, <2>7, <3>1, WaysInNext
  <2>11. QED
    BY <2>5, <2>6, <2>8, <2>9, <2>10
<1>3. CASE /\ q.step = "rereading"
           /\ attempt' = [attempt EXCEPT ![n].owner = link[q.address], ![n].step = "deferring"]
           /\ UNCHANGED <<users, email, google, identities, link, sessions, unlinking, stops>>
  <2>1. link[q.address] \in Users \union {None}
    BY <1>1, TypeParts DEF AccountsOK
  <2>2. /\ AttemptsOK'
        /\ Others(n)
        /\ attempt'[n].step = "deferring"
        /\ attempt'[n].address = q.address
        /\ attempt'[n].session = q.session
        /\ attempt'[n].owner = link[q.address]
        /\ attempt'[n].user = q.user
    BY <1>3, <2>1, RereadKeeps
  <2>3. AccountsOK' /\ stops' \in Nat
    BY <1>3, TypeParts DEF AccountsOK
  <2>4. Sound(n)' /\ (\A v : ~ Making(n, v)') /\ (\A v : ~ Half(n, v))
    BY <1>1, <1>3, <2>2 DEF Sound, Making, Half
  <2>5. \A m \in Nonces \ {n}, v \in Users \union {None} : Making(m, v) =>
            v \notin {attempt'[n].user, attempt'[n].session, attempt'[n].owner}
    BY <1>1, <2>2 DEF MadeSound, LinkedTo
  <2>6. QED
    BY <1>3, <2>2, <2>3, <2>4, <2>5, OnlyTheAttempt
<1>4. QED
  BY <1>2, <1>3 DEF Yield

LEMMA EnsureKeepsInv ==
    ASSUME AccountsInv, NEW n \in Nonces, Ensure(n)
    PROVE  AccountsInv'
<1> DEFINE q == attempt[n]
<1>1. /\ q.step \in {"ensuring", "writing"} /\ q.address \in Wallets
      /\ q.user \in Users \union {None}
  BY TypeParts, AttemptFields DEF Ensure, AccountsInv, AttemptSound, Over
<1>2. /\ UNCHANGED <<users, email, google, link, sessions, unlinking, stops>>
      /\ stops' \in Nat
  BY TypeParts DEF Ensure, AccountsInv
<1>3. AccountsOK'
  BY <1>1, <1>2, TypeParts DEF Ensure, AccountsInv, AccountsOK
<1>4. PICK step \in {"entering", "writing", "over"} : Step(n, step)
  BY DEF Ensure
<1>5. step \in Steps
  BY DEF Steps
<1>6. QED
  BY <1>1, <1>2, <1>3, <1>4, <1>5, OnlyTheStep

LEMMA StopKeepsInv ==
    ASSUME AccountsInv, NEW n \in Nonces, Stop(n)
    PROVE  AccountsInv'
<1>1. AccountsOK' /\ stops' \in Nat
  BY TypeParts DEF AccountsInv, AccountsOK, Stop
<1>2. "stopped" \in Steps
  BY DEF Steps
<1>3. QED
  BY <1>1, <1>2, OnlyTheStep DEF Stop, Over

LEMMA EnterKeepsInv ==
    ASSUME AccountsInv, NEW n \in Nonces, Enter(n)
    PROVE  AccountsInv'
<1> DEFINE q == attempt[n]
<1> USE DEF AccountsInv
<1>1. /\ q.step = "entering" /\ Step(n, "over")
      /\ UNCHANGED <<users, email, google, identities, link, unlinking, stops>>
      /\ sessions \subseteq sessions' /\ sessions' \subseteq sessions \union {q.user}
      /\ AccountsOK' /\ stops' \in Nat
  BY TypeParts DEF Enter, AccountsOK
<1>2. /\ AttemptsOK'
      /\ Others(n)
      /\ attempt'[n].step = "over"
      /\ attempt'[n].session = q.session
      /\ attempt'[n].owner = q.owner
      /\ attempt'[n].user = q.user
  BY <1>1, StepKeeps, TypeParts DEF Others, Steps
<1>3. TypeOK'
  BY <1>1, <1>2, TypeParts, TypeOKNext
<1>4. AttemptSound'
  BY <1>2, AttemptSoundNext DEF Sound, Over
<1>5. \A v : LinkedTo(v)' = LinkedTo(v) /\ HasAWayIn(v)' = HasAWayIn(v)
  BY <1>1 DEF LinkedTo, HasAWayIn
<1>6. MadeSound'
  <2>1. \A v : ~ Making(n, v)'
    BY <1>2 DEF Making
  <2>2. \A m \in Nonces \ {n}, v \in Users \union {None} : Making(m, v) =>
            /\ v \in Users \ (google' \union sessions')
            /\ LinkedTo(v)' = {}
            /\ \A t \in Unlinks : unlinking'[t].user # v
            /\ v \notin {attempt'[n].user, attempt'[n].session, attempt'[n].owner}
            /\ \A k \in Nonces \ {n, m} :
                  v \notin {attempt[k].user, attempt[k].session, attempt[k].owner}
    BY <1>1, <1>2, <1>5 DEF MadeSound
  <2>3. QED
    BY <1>2, <2>1, <2>2, MadeSoundNext
<1>7. LockSound'
  BY <1>1, LockSoundNext DEF LockSound
<1>8. WaysIn'
  <2>1. \A v : ~ Half(n, v)
    BY <1>1 DEF Half
  <2>2. QED
    BY <1>1, <1>2, <1>5, <2>1, WaysInNext
<1>9. QED
  BY <1>3, <1>4, <1>6, <1>7, <1>8

-----------------------------------------------------------------------------
(* Unlinking, Google sign-ins and accounts deleted by their holders.          *)

LEMMA MoreThanOne ==
    ASSUME NEW S, IsFiniteSet(S), ~ (Cardinality(S) < 2), NEW a
    PROVE  S \ {a} # {}
<1> SUFFICES ASSUME S \ {a} = {}
             PROVE  FALSE
  OBVIOUS
<1>1. S = {} \/ S = {a}
  OBVIOUS
<1>2. Cardinality({}) = 0 /\ Cardinality({a}) = 1
  BY FS_EmptySet, FS_Singleton
<1>3. QED
  BY <1>1, <1>2

LEMMA LockKeepsInv ==
    ASSUME AccountsInv, NEW t \in Unlinks, NEW u \in Users, NEW a \in Wallets, Lock(t, u, a)
    PROVE  AccountsInv'
<1> DEFINE x == [step |-> IF a \in LinkedTo(u) THEN "locked" ELSE "over",
                 user |-> u, address |-> a, linked |-> LinkedTo(u)]
<1> USE DEF AccountsInv
<1>1. /\ unlinking' = [unlinking EXCEPT ![t] = x]
      /\ UNCHANGED <<users, email, google, identities, link, sessions, attempt, stops>>
      /\ u \in sessions /\ MayLock(u)
  BY DEF Lock
<1>2. x \in Transactions /\ x.user = u /\ x.linked = LinkedTo(u)
  BY DEF Transactions, LinkedTo
<1> HIDE DEF x
<1>3. /\ unlinking' \in [Unlinks -> Transactions]
      /\ unlinking'[t] = x
      /\ \A s \in Unlinks \ {t} : unlinking'[s] = unlinking[s]
  BY <1>1, <1>2, TypeParts
<1>4. TypeOK'
  BY <1>1, <1>3, TypeParts, TypeOKNext DEF AccountsOK, AttemptsOK
<1>5. \A v : LinkedTo(v)' = LinkedTo(v) /\ HasAWayIn(v)' = HasAWayIn(v)
  BY <1>1 DEF LinkedTo, HasAWayIn
<1>6. AttemptSound'
  BY <1>1 DEF AttemptSound
<1>7. MadeSound'
  <2>1. \A n \in Nonces, v \in Users \union {None} : Making(n, v) =>
            v # u /\ \A s \in Unlinks : unlinking'[s].user # v
    BY <1>1, <1>2, <1>3 DEF MadeSound
  <2>2. \A n, v : Making(n, v)' = Making(n, v)
    BY <1>1 DEF Making
  <2>3. QED
    BY <1>1, <1>5, <2>1, <2>2 DEF MadeSound
<1>8. LockSound'
  <2>1. \A s \in Unlinks \ {t} : unlinking[s].step = "locked" => unlinking[s].user # u
    BY <1>1 DEF MayLock, Locked
  <2>2. u \in users
    BY <1>1, TypeParts DEF AccountsOK
  <2>3. QED
    BY <1>1, <1>2, <1>3, <1>5, <2>1, <2>2 DEF LockSound
<1>9. WaysIn'
  BY <1>1, <1>5 DEF WaysIn
<1>10. QED
  BY <1>4, <1>6, <1>7, <1>8, <1>9

\* An unlink takes one wallet of one account, which keeps another or Google.
LEMMA CommitTakes ==
    ASSUME AccountsInv, NEW t \in Unlinks, Commit(t)
    PROVE  /\ unlinking[t].step = "locked"
           /\ unlinking[t].user \in Users
           /\ \A v \in Users : LinkedTo(v)' \subseteq LinkedTo(v)
           /\ \A v \in Users \ {unlinking[t].user} : LinkedTo(v)' = LinkedTo(v)
           /\ \A v \in Users : HasAWayIn(v) => HasAWayIn(v)'
<1> DEFINE x == unlinking[t]
<1> USE DEF AccountsInv
<1>1. /\ x.step = "locked" /\ x.user \in users /\ x.user \in Users
      /\ x.linked \subseteq LinkedTo(x.user)
      /\ UNCHANGED google
  BY TypeParts DEF Commit, LockSound, AccountsOK
<1>2. CASE UNCHANGED link
  BY <1>1, <1>2 DEF LinkedTo, HasAWayIn
<1>3. CASE /\ ~ LastMethod(t)
           /\ link' = [link EXCEPT ![x.address] = IF @ = x.user THEN None ELSE @]
  <2>1. \A b \in Wallets : link'[b] = IF b = x.address /\ link[b] = x.user THEN None ELSE link[b]
    BY <1>3, TypeParts DEF AccountsOK
  <2>2. /\ \A v \in Users : LinkedTo(v)' \subseteq LinkedTo(v)
        /\ \A v \in Users \ {x.user} : LinkedTo(v)' = LinkedTo(v)
        /\ x.linked \ {x.address} \subseteq LinkedTo(x.user) \ {x.address}
        /\ \A b \in LinkedTo(x.user) \ {x.address} : b \in Wallets /\ link'[b] = x.user
    BY <1>1, <2>1, AccountsAssumption DEF LinkedTo
  <2>3. x.user \in google \/ x.linked \ {x.address} # {}
    <3>1. IsFiniteSet(x.linked)
      BY <1>1, FS_Subset, AccountsAssumption DEF LinkedTo
    <3>2. QED
      BY <1>3, <3>1, MoreThanOne DEF LastMethod
  <2>4. \A v : v = x.user => HasAWayIn(v)'
    BY <1>1, <2>2, <2>3 DEF HasAWayIn, LinkedTo
  <2>5. QED
    BY <1>1, <2>2, <2>4 DEF HasAWayIn
<1>4. QED
  BY <1>1, <1>2, <1>3 DEF Commit

LEMMA CommitKeepsInv ==
    ASSUME AccountsInv, NEW t \in Unlinks, Commit(t)
    PROVE  AccountsInv'
<1> DEFINE x == unlinking[t]
           y == [x EXCEPT !.step = "over"]
<1> USE DEF AccountsInv
<1>1. /\ x.step = "locked"
      /\ x.user \in Users
      /\ \A v \in Users : LinkedTo(v)' \subseteq LinkedTo(v)
      /\ \A v \in Users \ {x.user} : LinkedTo(v)' = LinkedTo(v)
      /\ \A v \in Users : HasAWayIn(v) => HasAWayIn(v)'
  BY CommitTakes
<1>2. /\ unlinking' = [unlinking EXCEPT ![t] = y]
      /\ UNCHANGED <<users, email, google, sessions, attempt, stops>>
  BY DEF Commit
<1>3. y \in Transactions /\ y.step = "over" /\ y.user = x.user
  BY TypeParts DEF Transactions
<1> HIDE DEF y
<1>4. /\ unlinking' \in [Unlinks -> Transactions]
      /\ unlinking'[t] = y
      /\ \A s \in Unlinks \ {t} : unlinking'[s] = unlinking[s]
  BY <1>2, <1>3, TypeParts
<1>5. AccountsOK'
  <2>1. identities' \subseteq identities
    BY DEF Commit
  <2>2. link' \in [Wallets -> users \union {None}]
    BY TypeParts DEF Commit, AccountsOK
  <2>3. QED
    BY <1>2, <2>1, <2>2, TypeParts DEF AccountsOK
<1>6. TypeOK'
  BY <1>2, <1>4, <1>5, TypeParts, TypeOKNext DEF AttemptsOK
<1>7. AttemptSound'
  BY <1>2 DEF AttemptSound
<1>8. \A s \in Unlinks : unlinking'[s].user = unlinking[s].user
  BY <1>3, <1>4
<1>9. MadeSound'
  <2>1. \A n, v : Making(n, v)' = Making(n, v)
    BY <1>2 DEF Making
  <2>2. QED
    BY <1>1, <1>2, <1>8, <2>1 DEF MadeSound
<1>10. LockSound'
  <2>1. \A s \in Unlinks : unlinking'[s].step = "locked" =>
            /\ s # t /\ unlinking'[s] = unlinking[s] /\ unlinking[s].user \in users
            /\ unlinking[s].user \in Users \ {x.user}
    BY <1>1, <1>3, <1>4, TypeParts DEF LockSound, AccountsOK
  <2>2. \A s \in Unlinks : unlinking'[s].step = "locked" =>
            LinkedTo(unlinking[s].user)' = LinkedTo(unlinking[s].user)
    BY <1>1, <1>8, <2>1
  <2>3. QED
    BY <1>2, <2>1, <2>2 DEF LockSound
<1>11. WaysIn'
  BY <1>1, <1>2, TypeParts DEF WaysIn, AccountsOK
<1>12. QED
  BY <1>6, <1>7, <1>9, <1>10, <1>11

LEMMA GoogleKeepsInv ==
    ASSUME AccountsInv, NEW u \in Users, SignInWithGoogle(u)
    PROVE  AccountsInv'
<1> USE DEF AccountsInv
<1>1. /\ UNCHANGED <<email, identities, link, attempt, unlinking, stops>>
      /\ users \subseteq users' /\ users' \subseteq users \union {u}
      /\ google \subseteq google' /\ google' \subseteq google \union {u}
      /\ sessions' = sessions \union {u}
      /\ u \in google'
      /\ u \in google \/ Unheard(u)
  BY DEF SignInWithGoogle
<1>2. u \in users' /\ google' \subseteq users'
  BY TypeParts DEF SignInWithGoogle, AccountsOK
<1>3. AccountsOK'
  BY <1>1, <1>2, TypeParts DEF AccountsOK
<1>4. TypeOK'
  BY <1>1, <1>3, TypeParts, TypeOKNext DEF AttemptsOK
<1>5. AttemptSound'
  BY <1>1 DEF AttemptSound
<1>6. \A v : LinkedTo(v)' = LinkedTo(v)
  BY <1>1 DEF LinkedTo
<1>7. MadeSound'
  <2>1. \A n \in Nonces, v \in Users \union {None} : Making(n, v) => v # u
    BY <1>1 DEF MadeSound, Making, Unheard
  <2>2. \A n, v : Making(n, v)' = Making(n, v)
    BY <1>1 DEF Making
  <2>3. QED
    BY <1>1, <1>6, <2>1, <2>2 DEF MadeSound
<1>8. LockSound'
  BY <1>1, <1>6 DEF LockSound
<1>9. WaysIn'
  BY <1>1, <1>6 DEF WaysIn, HasAWayIn
<1>10. QED
  BY <1>4, <1>5, <1>7, <1>8, <1>9

LEMMA DeleteAccountKeepsInv ==
    ASSUME AccountsInv, NEW u \in Users, DeleteAccount(u)
    PROVE  AccountsInv'
<1> USE DEF AccountsInv
<1>1. /\ UNCHANGED <<attempt, unlinking, stops>>
      /\ u \in sessions
      /\ \A t \in Unlinks : unlinking[t].step = "locked" => unlinking[t].user # u
      /\ Delete(u)
  BY DEF DeleteAccount, Locked
<1>2. AccountsOK'
  BY <1>1, DeleteKeeps, TypeParts
<1>3. TypeOK'
  BY <1>1, <1>2, TypeParts, TypeOKNext DEF AttemptsOK
<1>4. AttemptSound'
  BY <1>1 DEF AttemptSound
<1>5. /\ users' = users \ {u}
      /\ google' = google \ {u}
      /\ sessions' = sessions \ {u}
      /\ \A v \in Users \ {u} : LinkedTo(v)' = LinkedTo(v) /\ HasAWayIn(v)' = HasAWayIn(v)
  BY <1>1, DeleteTakes, TypeParts
<1>6. MadeSound'
  <2>1. \A n \in Nonces, v \in Users \union {None} : Making(n, v) => v \in Users \ {u}
    BY <1>1 DEF MadeSound
  <2>2. \A n, v : Making(n, v)' = Making(n, v)
    BY <1>1 DEF Making
  <2>3. QED
    BY <1>1, <1>5, <2>1, <2>2 DEF MadeSound
<1>7. LockSound'
  <2>1. \A t \in Unlinks : unlinking[t].step = "locked" =>
            unlinking[t].user \in users \ {u} /\ unlinking[t].user \in Users \ {u}
    BY <1>1, TypeParts DEF LockSound, AccountsOK
  <2>2. \A t \in Unlinks : unlinking[t].step = "locked" =>
            LinkedTo(unlinking[t].user)' = LinkedTo(unlinking[t].user)
    BY <1>1, <1>5, <2>1
  <2>3. QED
    BY <1>1, <1>5, <2>1, <2>2 DEF LockSound
<1>8. WaysIn'
  BY <1>1, <1>5, TypeParts DEF WaysIn, AccountsOK
<1>9. QED
  BY <1>3, <1>4, <1>6, <1>7, <1>8

-----------------------------------------------------------------------------
(* The theorems.                                                              *)

LEMMA InitInv == Init => AccountsInv
<1> SUFFICES ASSUME Init
             PROVE  AccountsInv
  OBVIOUS
<1>1. NoAttempt \in Attempts /\ NoAttempt.step = "none"
  BY DEF NoAttempt, Attempts, Steps
<1>2. NoUnlink \in Transactions /\ NoUnlink.step = "none"
  BY DEF NoUnlink, Transactions
<1> HIDE DEF NoAttempt, NoUnlink
<1>3. TypeOK
  BY <1>1, <1>2 DEF Init, TypeOK
<1>4. AttemptSound /\ MadeSound
  BY <1>1 DEF Init, AttemptSound, MadeSound, Making, Over
<1>5. LockSound /\ WaysIn
  BY <1>2 DEF Init, LockSound, WaysIn
<1>6. QED
  BY <1>3, <1>4, <1>5 DEF AccountsInv

LEMMA NextInv ==
    ASSUME AccountsInv, [Next]_vars
    PROVE  AccountsInv'
<1>1. CASE UNCHANGED vars
  BY <1>1 DEF vars, AccountsInv, TypeOK, AttemptSound, MadeSound, Making, LockSound, WaysIn,
              HasAWayIn, LinkedTo
<1>2. ASSUME NEW n \in Nonces,
             \/ Issue(n)
             \/ \E a \in Wallets, u \in Users \union {None} : Consume(n, a, u)
             \/ OwnerOf(n) \/ FindUser(n)
             \/ \E u \in Users : CreateUser(n, u)
             \/ Claim(n) \/ Yield(n) \/ Ensure(n) \/ Enter(n) \/ Stop(n)
      PROVE  AccountsInv'
  BY <1>2, IssueKeepsInv, ConsumeKeepsInv, OwnerOfKeepsInv, FindUserKeepsInv,
     CreateUserKeepsInv, ClaimKeepsInv, YieldKeepsInv, EnsureKeepsInv, EnterKeepsInv,
     StopKeepsInv
<1>3. ASSUME NEW t \in Unlinks,
             (\E u \in Users, a \in Wallets : Lock(t, u, a)) \/ Commit(t)
      PROVE  AccountsInv'
  BY <1>3, LockKeepsInv, CommitKeepsInv
<1>4. ASSUME NEW u \in Users, SignInWithGoogle(u) \/ DeleteAccount(u)
      PROVE  AccountsInv'
  BY <1>4, GoogleKeepsInv, DeleteAccountKeepsInv
<1>5. QED
  BY <1>1, <1>2, <1>3, <1>4 DEF Next

LEMMA AccountsInvariant == Spec => []AccountsInv
<1>1. AccountsInv /\ [Next]_vars => AccountsInv'
  BY NextInv
<1>2. QED
  BY InitInv, <1>1, PTL DEF Spec

\* Whatever requests interleave and wherever one stops, an identity, a link and
\* a session are of an account that is there.
THEOREM AccountsTypeCorrect == Spec => []TypeOK
<1>1. AccountsInv => TypeOK
  BY DEF AccountsInv
<1>2. QED
  BY AccountsInvariant, <1>1, PTL

\* An account without a way in is being made, or the service stopped while it
\* was: a sign-in that loses the race for its wallet takes its account with it.
THEOREM NobodyIsStranded == Spec => []NoneIsStranded
<1>1. AccountsInv => NoneIsStranded
  BY DEF AccountsInv, WaysIn, NoneIsStranded
<1>2. QED
  BY AccountsInvariant, <1>1, PTL

\* No wallet unlink, claim, sign-in or deletion takes the last way into an
\* account that stays: unlinks take turns, and a claim never moves a wallet that
\* is somebody's.  (A Google identity is never unlinked in this model.)
THEOREM AWayInIsKept == Spec => KeepsAWayIn
<1> DEFINE Kept == \A u \in users \intersect users' : HasAWayIn(u) => HasAWayIn(u)'
<1>1. ASSUME AccountsInv, Next
      PROVE  Kept
  <2> USE <1>1 DEF AccountsInv
  <2>1. ASSUME UNCHANGED <<google, link>>
        PROVE  Kept
    BY <2>1 DEF HasAWayIn, LinkedTo
  <2>2. ASSUME NEW n \in Nonces, Claim(n)
        PROVE  Kept
    <3>1. UNCHANGED google
      BY <2>2 DEF Claim
    <3>2. \A a \in Wallets : link[a] # None => link'[a] = link[a]
      BY <2>2, TypeParts DEF Claim, Unclaimed, AccountsOK
    <3>3. QED
      BY <3>1, <3>2, AccountsAssumption, TypeParts DEF HasAWayIn, LinkedTo, AccountsOK
  <2>3. ASSUME NEW u, Delete(u)
        PROVE  Kept
    BY <2>3, AccountsAssumption, TypeParts DEF Delete, HasAWayIn, LinkedTo, AccountsOK
  <2>4. ASSUME NEW n \in Nonces, Yield(n)
        PROVE  Kept
    BY <2>1, <2>3, <2>4 DEF Yield, DeleteMade
  <2>5. ASSUME NEW t \in Unlinks, Commit(t)
        PROVE  Kept
    BY <2>5, CommitTakes, TypeParts DEF AccountsOK
  <2>6. ASSUME NEW u \in Users, SignInWithGoogle(u)
        PROVE  Kept
    BY <2>6 DEF SignInWithGoogle, HasAWayIn, LinkedTo
  <2>7. ASSUME NEW n \in Nonces,
               \/ Issue(n)
               \/ \E a \in Wallets, u \in Users \union {None} : Consume(n, a, u)
               \/ OwnerOf(n) \/ FindUser(n)
               \/ \E u \in Users : CreateUser(n, u)
               \/ Ensure(n) \/ Enter(n) \/ Stop(n)
        PROVE  Kept
    BY <2>1, <2>7 DEF Issue, Consume, OwnerOf, FindUser, CreateUser, Ensure, Enter, Stop
  <2>8. ASSUME NEW t \in Unlinks, NEW u \in Users, NEW a \in Wallets, Lock(t, u, a)
        PROVE  Kept
    BY <2>1, <2>8 DEF Lock
  <2>9. ASSUME NEW u \in Users, DeleteAccount(u)
        PROVE  Kept
    BY <2>3, <2>9 DEF DeleteAccount
  <2>10. QED
    BY <2>2, <2>4, <2>5, <2>6, <2>7, <2>8, <2>9 DEF Next
<1>2. AccountsInv /\ [Next]_vars => [Kept]_vars
  BY <1>1
<1>3. QED
  BY AccountsInvariant, <1>2, PTL DEF Spec, KeepsAWayIn
=============================================================================
