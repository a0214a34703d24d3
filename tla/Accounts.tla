------------------------------ MODULE Accounts ------------------------------
(* Signing in with a wallet, linking one to an open account and unlinking it  *)
(* (server/auth/src/solana-sign-in.mjs and account-routes.mjs).  Each request *)
(* is a run of separate statements against one database: requests interleave  *)
(* between any two of them, and the service may stop there.                   *)
EXTENDS Integers, FiniteSets

CONSTANTS
    Wallets,            \* addresses
    Users,              \* the ids accounts may be given
    Nonces,             \* bound: one sign-in attempt each
    Unlinks,            \* bound: unlink transactions
    MaxStops, MaxGoogle \* bounds

None == "none"
ASSUME AccountsAssumption ==
    /\ None \notin Users /\ None \notin Wallets
    /\ IsFiniteSet(Wallets)
    /\ {MaxStops, MaxGoogle} \subseteq Nat

VARIABLES
    users,              \* the rows of "user"
    email,              \* per user: the wallet its address is made of, if any
    google,             \* the users with a Google identity
    identities,         \* the solana rows of "account": <<user, wallet>>
    link,               \* seametry_wallet_link: per wallet, the account it is of
    sessions,           \* the users some browser is signed in as
    attempt,            \* per nonce: the sign-in that was given it
    unlinking,          \* per transaction of unlink, where it stands
    stops

vars == <<users, email, google, identities, link, sessions, attempt, unlinking, stops>>

NoAttempt == [step |-> "none", address |-> None, session |-> None, owner |-> None, user |-> None]
NoUnlink  == [step |-> "none", user |-> None, address |-> None, linked |-> {}]

LinkedTo(u) == {a \in Wallets : link[a] = u}

Over == {"none", "over", "stopped"}

Step(n, step) == attempt' = [attempt EXCEPT ![n].step = step]

-----------------------------------------------------------------------------
(* solanaNonce and solanaVerify.                                              *)

Issue(n) ==
    /\ attempt[n].step = "none"
    /\ Step(n, "issued")
    /\ UNCHANGED <<users, email, google, identities, link, sessions, unlinking, stops>>

\* consumeVerificationValue: whatever follows, the nonce is spent.  It may have
\* expired, or the signature not be the wallet's.  A session may be open.
Consume(n, a, u) ==
    /\ attempt[n].step = "issued"
    /\ u \in sessions \union {None}
    /\ \/ Step(n, "over")
       \/ attempt' = [attempt EXCEPT ![n].step = "verified", ![n].address = a, ![n].session = u]
    /\ UNCHANGED <<users, email, google, identities, link, sessions, unlinking, stops>>

\* A wallet of another account is refused to a session; one that is nobody's is
\* claimed; signed out, its owner is looked up.
OwnerOf(n) ==
    LET q     == attempt[n]
        owner == link[q.address]
    IN  /\ q.step = "verified"
        /\ attempt' = [attempt EXCEPT ![n].owner = owner, ![n].user = q.session,
             ![n].step =
                CASE q.session # None /\ owner \notin {None, q.session} -> "over"
                  [] q.session # None /\ owner = None      -> "claiming"
                  [] q.session # None /\ owner = q.session -> "ensuring"
                  [] q.session = None -> "finding"]
        /\ UNCHANGED <<users, email, google, identities, link, sessions, unlinking, stops>>

\* findUserById, before an account is made and again when the claim is lost.
FindUser(n) ==
    LET q == attempt[n]
    IN  /\ q.step \in {"finding", "deferring"}
        /\ attempt' = [attempt EXCEPT
             ![n].user = IF q.owner \in users THEN q.owner ELSE None,
             ![n].step = CASE q.owner \in users -> "ensuring"
                           [] q.owner \notin users /\ q.step = "finding" -> "making"
                           [] q.owner \notin users /\ q.step = "deferring" -> "over"]
        /\ UNCHANGED <<users, email, google, identities, link, sessions, unlinking, stops>>

\* Ids are random: one that was ever handed out is not handed out again.
Unheard(u) ==
    /\ u \notin users
    /\ \A n \in Nonces : u \notin {attempt[n].user, attempt[n].session, attempt[n].owner}
    /\ \A t \in Unlinks : unlinking[t].user # u

\* createUser: the table holds one account of an email, and walletEmail makes
\* the same one of a wallet every time.
CreateUser(n, u) ==
    LET q == attempt[n]
    IN  /\ q.step = "making"
        /\ Unheard(u)
        /\ IF \E v \in users : email[v] = q.address
           THEN Step(n, "over") /\ UNCHANGED <<users, email>>
           ELSE /\ users' = users \union {u}
                /\ email' = [email EXCEPT ![u] = q.address]
                /\ attempt' = [attempt EXCEPT ![n].user = u, ![n].step = "claiming"]
        /\ UNCHANGED <<google, identities, link, sessions, unlinking, stops>>

\* Slip: the last claim of a wallet stands.
LastClaimStands(a) == TRUE

\* INSERT ... ON CONFLICT DO NOTHING: the first claim of a wallet stands.
Unclaimed(a) == link[a] = None

\* A claim is refused for an account that is gone.
Claim(n) ==
    LET q == attempt[n]
    IN  /\ q.step = "claiming"
        /\ IF q.user \notin users
           THEN Step(n, "over") /\ UNCHANGED link
           ELSE IF Unclaimed(q.address)
           THEN /\ link' = [link EXCEPT ![q.address] = q.user]
                /\ Step(n, "ensuring")
           ELSE /\ Step(n, IF q.session = None THEN "yielding" ELSE "over")
                /\ UNCHANGED link
        /\ UNCHANGED <<users, email, google, identities, sessions, unlinking, stops>>

\* Slip: the links of an account outlive it.
DeleteButLinks(u) ==
    /\ users' = users \ {u}
    /\ email' = [email EXCEPT ![u] = None]
    /\ google' = google \ {u}
    /\ identities' = {i \in identities : i[1] # u}
    /\ sessions' = sessions \ {u}
    /\ UNCHANGED link

\* An account goes with its identities, sessions and links.
Delete(u) ==
    /\ users' = users \ {u}
    /\ email' = [email EXCEPT ![u] = None]
    /\ google' = google \ {u}
    /\ identities' = {i \in identities : i[1] # u}
    /\ link' = [a \in Wallets |-> IF link[a] = u THEN None ELSE link[a]]
    /\ sessions' = sessions \ {u}

\* Slip: the account made in vain is left behind.
Keep(u) == UNCHANGED <<users, email, google, identities, link, sessions>>

DeleteMade(u) == Delete(u)

\* The wallet was claimed meanwhile: the account just made is deleted, and the
\* owner looked up once more.
Yield(n) ==
    LET q == attempt[n]
    IN  \/ /\ q.step = "yielding"
           /\ DeleteMade(q.user)
           /\ Step(n, "rereading")
           /\ UNCHANGED <<unlinking, stops>>
        \/ /\ q.step = "rereading"
           /\ attempt' = [attempt EXCEPT ![n].owner = link[q.address], ![n].step = "deferring"]
           /\ UNCHANGED <<users, email, google, identities, link, sessions, unlinking, stops>>

\* ensureWalletAccount: one row per wallet, looked for and then written.
Ensure(n) ==
    LET q == attempt[n]
    IN  /\ \/ /\ q.step = "ensuring"
              /\ Step(n, IF \E i \in identities : i[2] = q.address THEN "entering" ELSE "writing")
              /\ UNCHANGED identities
           \/ /\ q.step = "writing"
              /\ IF q.user \in users
                 THEN /\ identities' = identities \union {<<q.user, q.address>>}
                      /\ Step(n, "entering")
                 ELSE Step(n, "over") /\ UNCHANGED identities
        /\ UNCHANGED <<users, email, google, link, sessions, unlinking, stops>>

\* A link keeps the session it has; a sign-in opens one for the account found.
Enter(n) ==
    LET q == attempt[n]
    IN  /\ q.step = "entering"
        /\ Step(n, "over")
        /\ sessions' = IF q.session = None /\ q.user \in users
                       THEN sessions \union {q.user} ELSE sessions
        /\ UNCHANGED <<users, email, google, identities, link, unlinking, stops>>

-----------------------------------------------------------------------------
(* unlink: a transaction that locks the account's links first.                *)

Locked(u) == \E t \in Unlinks : unlinking[t].step = "locked" /\ unlinking[t].user = u

\* Slip: the rows are read without waiting.
Unlocked(u) == TRUE

\* FOR UPDATE waits for whoever holds the account's rows, and reads them then.
MayLock(u) == ~ Locked(u)

Lock(t, u, a) ==
    /\ unlinking[t].step = "none"
    /\ u \in sessions
    /\ MayLock(u)
    /\ unlinking' = [unlinking EXCEPT ![t] =
          [step |-> IF a \in LinkedTo(u) THEN "locked" ELSE "over",
           user |-> u, address |-> a, linked |-> LinkedTo(u)]]
    /\ UNCHANGED <<users, email, google, identities, link, sessions, attempt, stops>>

\* The last wallet of an account that has no other way in stays.
LastMethod(t) ==
    Cardinality(unlinking[t].linked) < 2 /\ unlinking[t].user \notin google

Commit(t) ==
    LET x == unlinking[t]
    IN  /\ x.step = "locked"
        /\ unlinking' = [unlinking EXCEPT ![t].step = "over"]
        /\ IF LastMethod(t) THEN UNCHANGED <<link, identities>>
           ELSE /\ link' = [link EXCEPT ![x.address] = IF @ = x.user THEN None ELSE @]
                /\ identities' = identities \ {<<x.user, x.address>>}
        /\ UNCHANGED <<users, email, google, sessions, attempt, stops>>

-----------------------------------------------------------------------------
(* Around them: Google sign-ins, an account deleted by its holder, stops.     *)

SignInWithGoogle(u) ==
    /\ \/ u \in google /\ u \notin sessions /\ UNCHANGED <<users, google>>
       \/ /\ Unheard(u)
          /\ Cardinality(google) < MaxGoogle
          /\ users' = users \union {u}
          /\ google' = google \union {u}
    /\ sessions' = sessions \union {u}
    /\ UNCHANGED <<email, identities, link, attempt, unlinking, stops>>

DeleteAccount(u) ==
    /\ u \in sessions
    /\ ~ Locked(u)
    /\ Delete(u)
    /\ UNCHANGED <<attempt, unlinking, stops>>

\* The service stops, or a statement fails, between two statements.
Stop(n) ==
    /\ stops < MaxStops
    /\ attempt[n].step \notin Over
    /\ stops' = stops + 1
    /\ Step(n, "stopped")
    /\ UNCHANGED <<users, email, google, identities, link, sessions, unlinking>>

Init ==
    /\ users = {} /\ google = {} /\ identities = {} /\ sessions = {}
    /\ email = [u \in Users |-> None]
    /\ link = [a \in Wallets |-> None]
    /\ attempt = [n \in Nonces |-> NoAttempt]
    /\ unlinking = [t \in Unlinks |-> NoUnlink]
    /\ stops = 0

Next ==
    \/ \E n \in Nonces :
          \/ Issue(n)
          \/ \E a \in Wallets, u \in Users \union {None} : Consume(n, a, u)
          \/ OwnerOf(n)
          \/ FindUser(n)
          \/ \E u \in Users : CreateUser(n, u)
          \/ Claim(n)
          \/ Yield(n)
          \/ Ensure(n)
          \/ Enter(n)
          \/ Stop(n)
    \/ \E t \in Unlinks :
          \/ \E u \in Users, a \in Wallets : Lock(t, u, a)
          \/ Commit(t)
    \/ \E u \in Users : SignInWithGoogle(u) \/ DeleteAccount(u)

Spec == Init /\ [][Next]_vars

=============================================================================
