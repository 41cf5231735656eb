-------------------------- MODULE MCDustSettlement --------------------------
(* An instance of DustSettlement for TLC.                                   *)
EXTENDS DustSettlement, TLC

CONSTANTS c1, c2, d1, d2, f1, f2

MCCallers == {c1, c2}
MCDrafts == {d1, d2}
MCFingerprints == {f1, f2}
Symmetry == Permutations(MCCallers) \cup Permutations(MCDrafts) \cup Permutations(MCFingerprints)
=============================================================================
