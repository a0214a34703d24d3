---- MODULE MCAccounts ----
(* Instances of the account service for TLC. *)
EXTENDS AccountsProperties, TLC

CONSTANTS a1, a2, u1, u2, u3, n1, n2, n3, x1, x2

Symmetry == Permutations(Wallets) \union Permutations(Users)
              \union Permutations(Nonces) \union Permutations(Unlinks)
====
