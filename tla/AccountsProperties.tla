------------------------- MODULE AccountsProperties -------------------------
(* What the holder of an account, or of a wallet, is promised, whatever       *)
(* requests run side by side and wherever one stops.                          *)
EXTENDS Accounts

Steps == {"none", "issued", "verified", "finding", "making", "claiming", "yielding",
          "rereading", "deferring", "ensuring", "writing", "entering", "over", "stopped"}

Attempts == [step: Steps, address: Wallets \union {None}, session: Users \union {None},
             owner: Users \union {None}, user: Users \union {None}]

Transactions == [step: {"none", "locked", "over"}, user: Users \union {None},
                 address: Wallets \union {None}, linked: SUBSET Wallets]

\* Every variable holds what the code can put in it: an identity, a link or a
\* session is of an account that is there.
TypeOK ==
    /\ users \subseteq Users
    /\ email \in [Users -> Wallets \union {None}]
    /\ google \subseteq users
    /\ identities \subseteq users \X Wallets
    /\ link \in [Wallets -> users \union {None}]
    /\ sessions \subseteq users
    /\ attempt \in [Nonces -> Attempts]
    /\ unlinking \in [Unlinks -> Transactions]
    /\ stops \in Nat

HasAWayIn(u) == u \in google \/ LinkedTo(u) # {}

\* "An account keeps at least one way to sign in" (account-routes.mjs, l. 54),
\* whichever wallets are unlinked at once, claimed or signed in with meanwhile,
\* and whichever accounts are deleted.  About these alone: that Better Auth can
\* unlink a Google identity by itself is outside the model.
KeepsAWayIn ==
    [][\A u \in users \intersect users' : HasAWayIn(u) => HasAWayIn(u)']_vars

\* An account nobody can enter is one a sign-in is still making, unless the
\* service stopped then: what a lost race made does not stay.
NoneIsStranded ==
    \A u \in users :
        \/ HasAWayIn(u)
        \/ \E n \in Nonces :
              attempt[n].user = u /\ attempt[n].step \in {"claiming", "yielding", "stopped"}

\* "Signed out, a wallet nobody owns gets a new wallet-only account"
\* (solana-sign-in.mjs, l. 64): no account stands in the way of the one that
\* createUser makes for it.
WalletsOfNobodyMaySignIn ==
    \A a \in Wallets :
        /\ link[a] = None
        /\ \A n \in Nonces : attempt[n].step \notin Over => attempt[n].address # a
        => \A u \in users : email[u] # a

-----------------------------------------------------------------------------
(* Why these hold, step after step.                                           *)

Making(n, u) ==
    /\ attempt[n].user = u
    /\ attempt[n].session = None
    /\ attempt[n].step \in {"claiming", "yielding"}

\* A sign-in under way is of a wallet; it makes an account only signed out.
AttemptSound ==
    \A n \in Nonces :
        /\ attempt[n].step \notin Over \union {"issued"} => attempt[n].address \in Wallets
        /\ attempt[n].step \in {"finding", "making", "yielding", "rereading", "deferring"}
              => attempt[n].session = None

\* An account being made is known to the sign-in that makes it and nobody else.
MadeSound ==
    \A n \in Nonces, u \in Users \union {None} : Making(n, u) =>
        /\ u \in Users \ (google \union sessions)
        /\ LinkedTo(u) = {}
        /\ \A t \in Unlinks : unlinking[t].user # u
        /\ \A m \in Nonces \ {n} :
              u \notin {attempt[m].user, attempt[m].session, attempt[m].owner}

\* What an unlink counted under its lock is still linked, and the lock is its own.
LockSound ==
    \A t \in Unlinks : unlinking[t].step = "locked" =>
        /\ unlinking[t].user \in users
        /\ unlinking[t].linked \subseteq LinkedTo(unlinking[t].user)
        /\ \A s \in Unlinks \ {t} :
              unlinking[s].step = "locked" => unlinking[s].user # unlinking[t].user

\* A way in is missing only to an account being made, or left half made.
WaysIn ==
    \A u \in users : \/ HasAWayIn(u)
                     \/ \E n \in Nonces : /\ attempt[n].user = u
                                          /\ attempt[n].session = None
                                          /\ attempt[n].step \in {"claiming", "yielding", "stopped"}

AccountsInv == TypeOK /\ AttemptSound /\ MadeSound /\ LockSound /\ WaysIn
=============================================================================
