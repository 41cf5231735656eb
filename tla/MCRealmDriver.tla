--------------------------- MODULE MCRealmDriver ---------------------------
(* RealmDriver on two realms: two realm workers, of which one may lag      *)
(* behind the other, and one retry worker.  Every waiting time is one      *)
(* unit: what is due together may happen in either order.                  *)
EXTENDS RealmDriver

CONSTANTS A, B, w1, w2, r1

Realms == {A, B}
NoJitter == [id \in Realms |-> 0]
Nothing == {}
=============================================================================
