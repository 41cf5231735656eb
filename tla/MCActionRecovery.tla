-------------------------- MODULE MCActionRecovery --------------------------
(* ActionRecovery on two realms, a submitted transaction and two arrivals  *)
(* on the same account, one of them already past its first checkpoint.     *)
EXTENDS ActionRecovery, TLC

CONSTANTS A, B, x

Realms == {A, B}
Names == {x}
NoJitter == [id \in Realms |-> 0]
Started == [kind : {"Submitted"}, name : Names, from : {0}]
             \cup [kind : {"Incoming"}, name : Names, from : {0, 1}]
Symmetry == Permutations(Realms)
=============================================================================
