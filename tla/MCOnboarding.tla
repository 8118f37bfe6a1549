----------------------------- MODULE MCOnboarding -----------------------------
EXTENDS Onboarding, TLC

CONSTANTS k1, k2

Symmetry == Permutations(Keys)
=============================================================================
