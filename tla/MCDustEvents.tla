---------------------------- MODULE MCDustEvents ----------------------------
EXTENDS DustEvents, TLC

CONSTANTS d1, d2

const_Drafts == {d1, d2}

\* Drafts are only compared with each other.
DraftSymmetry == Permutations(const_Drafts)
=============================================================================
