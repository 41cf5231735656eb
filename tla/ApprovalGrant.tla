---------------------------- MODULE ApprovalGrant ----------------------------
(***************************************************************************)
(* What the approval authority promises its callers, with no clock, no     *)
(* generation counter and no prompt: a grant is issued for one intent, can *)
(* serve one protected operation for exactly that intent, and is useless   *)
(* once revoked.                                                           *)
(***************************************************************************)
EXTENDS Sequences

CONSTANTS Grants,    \* identities of grants
          Intents,   \* operations a grant can be for
          NoIntent   \* the intent of a grant not issued yet

VARIABLES phase,     \* grant -> "unissued", "live", "spent" or "revoked"
          purpose,   \* grant -> the intent it was issued for
          served     \* grant -> the operations it has authorised, oldest first

gvars == <<phase, purpose, served>>

Init ==
    /\ phase = [g \in Grants |-> "unissued"]
    /\ purpose = [g \in Grants |-> NoIntent]
    /\ served = [g \in Grants |-> <<>>]

Issue(g, intent) ==
    /\ phase[g] = "unissued"
    /\ phase' = [phase EXCEPT ![g] = "live"]
    /\ purpose' = [purpose EXCEPT ![g] = intent]
    /\ UNCHANGED served

Spend(g) ==
    /\ phase[g] = "live"
    /\ phase' = [phase EXCEPT ![g] = "spent"]
    /\ served' = [served EXCEPT ![g] = Append(@, purpose[g])]
    /\ UNCHANGED purpose

\* One revocation takes a whole set of live grants with it.
Revoke(gs) ==
    /\ \A g \in gs : phase[g] = "live"
    /\ phase' = [g \in Grants |-> IF g \in gs THEN "revoked" ELSE phase[g]]
    /\ UNCHANGED <<purpose, served>>

Next ==
    \/ \E g \in Grants, i \in Intents : Issue(g, i)
    \/ \E g \in Grants : Spend(g)
    \/ \E gs \in SUBSET Grants : Revoke(gs)

Spec == Init /\ [][Next]_gvars

=============================================================================
