------------------------------- MODULE MCHall -------------------------------
EXTENDS HallProperties, TLC

CONSTANTS w1, w2

Symmetry == Permutations({w1, w2})
=============================================================================
