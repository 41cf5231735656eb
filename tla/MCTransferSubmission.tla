------------------------ MODULE MCTransferSubmission ------------------------
(***************************************************************************)
(* Small instances of TransferSubmission.                                  *)
(***************************************************************************)
EXTENDS TransferSubmission, TLC

Symmetry == Permutations(Drafts) \cup Permutations(Attempts)
                \cup Permutations(Planners) \cup Permutations(Reconcilers)

=============================================================================
