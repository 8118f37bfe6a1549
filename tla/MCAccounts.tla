------------------------------ MODULE MCAccounts ------------------------------
EXTENDS Accounts, TLC

CONSTANTS root, ada, left, right

Symmetry == Permutations(Users) \cup Permutations(Pages)
=============================================================================
