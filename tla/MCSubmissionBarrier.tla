------------------------- MODULE MCSubmissionBarrier -------------------------
(* Small instance of SubmissionBarrier: two drafts, one ordinary record.   *)
EXTENDS SubmissionBarrier

CONSTANTS d1, d2, idle
=============================================================================
