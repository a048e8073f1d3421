---------------------------- MODULE MCSignedRequest ----------------------------
EXTENDS SignedRequest, TLC

Symmetry == Permutations(Genuine)
===============================================================================
