------------------------------ MODULE MCClubDesk ------------------------------
EXTENDS ClubDesk, TLC

Symmetry ==
    Permutations(Names) \cup Permutations(ClubKeys) \cup Permutations(Pairs \ {Own})
===============================================================================
