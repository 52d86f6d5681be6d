---------------------------- MODULE MCAtprotoOAuth ----------------------------
EXTENDS AtprotoOAuth, TLC

Symmetry == Permutations(Users) \cup Permutations(Calls)
===============================================================================
