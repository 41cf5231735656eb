-------------------------- MODULE MCWalletApproval --------------------------
(***************************************************************************)
(* Two services, one caller inside request, two capability objects and two *)
(* intents (one whose preview has a deadline inside the fixed window, one  *)
(* without a preview), a clock with four readings that jumps both ways,    *)
(* and a generation counter that exhausts at the second invalidation.      *)
(***************************************************************************)
EXTENDS WalletApproval

MCPreviewExpiry == [i \in PreviewIntents |-> 2]
=============================================================================
