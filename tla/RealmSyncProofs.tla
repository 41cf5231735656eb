-------------------------- MODULE RealmSyncProofs --------------------------
(***************************************************************************)
(* The safety of RealmSync for any number of calls and realms.             *)
(*                                                                         *)
(* First the pure coordinator: what each transition does to the revision   *)
(* and to the leases of any coordinator state.  Then the inductive         *)
(* invariant, which relates the leases of the coordinators to the guards   *)
(* of the calls, the guards to the authority the calls were admitted       *)
(* under, and the calls to the two gates; the steps of a call that hand    *)
(* out and end no lease, or invalidate all of them; the steps that change  *)
(* the coordinator of a realm; and the theorems.                           *)
(***************************************************************************)
EXTENDS RealmSync, TLAPS

-----------------------------------------------------------------------------
(***************************************************************************)
(* The coordinator                                                         *)
(***************************************************************************)
\* A retained trigger and the state before the leases exist only with leases,
\* only known realms have leases, and Updating is restored to nothing.
CoordFacts(s) ==
    /\ (s.leasedFrom = None) <=> (s.leases = {})
    /\ s.pending # None => s.leases # {}
    /\ s.leases # {} => s.known
    /\ \A f \in s.leases : s.leasedFrom[f] # "Updating"
    /\ "Updating" \notin PortFacets =>
           \A f \in Families : s.facets[f] = "Updating" => f \in s.leases

\* The families whose lease the effects end.
Ended(s, effects) == {e.kind : e \in {x \in effects : Accepts(s, x)}}

\* The effects that stand for all the leases of s.
Out(s) == {[revision |-> s.revision, kind |-> f] : f \in s.leases}

\* Dropping every guard ends every lease.
LEMMA OutEnded == \A s : Ended(s, Out(s)) = s.leases
<1> TAKE s
<1>1. ASSUME NEW e \in Out(s)
      PROVE  e.kind \in s.leases /\ Accepts(s, e)
  <2>1. PICK f \in s.leases : e = [revision |-> s.revision, kind |-> f]
    BY DEF Out
  <2> QED
    BY <2>1 DEF Accepts
<1>2. ASSUME NEW f \in s.leases
      PROVE  \E e \in Out(s) : e.kind = f
  <2>1. [revision |-> s.revision, kind |-> f] \in Out(s)
    BY DEF Out
  <2> QED
    BY <2>1
<1> QED
  BY <1>1, <1>2 DEF Ended

\* A coordinator whose fields are all rewritten.
LEMMA RewrittenType ==
    ASSUME NEW s \in Coordinator, NEW n \in Nat, NEW facets \in Facets,
           NEW leases \in SUBSET Families, NEW from \in Facets \cup {None}
    PROVE  [s EXCEPT !.revision = n, !.facets = facets, !.leases = leases,
                     !.leasedFrom = from, !.pending = None] \in Coordinator
BY Zenon DEF Coordinator

\* What reconcile returns: with leases out nothing moves; otherwise it hands
\* out the leases it takes, under a new revision.
LEMMA ReconcileFacts ==
    ASSUME NEW s \in Coordinator, NEW trigger \in AllTriggers,
           CoordFacts(s), s.known
    PROVE  LET n == Reconcile(s, trigger)
           IN /\ n.state \in Coordinator
              /\ CoordFacts(n.state)
              /\ n.state.known
              /\ \/ /\ n.state.revision = s.revision
                    /\ n.state.leases = s.leases
                    /\ n.effects = {}
                 \/ /\ s.leases = {}
                    /\ n.state.revision = s.revision + 1
                    /\ n.state.leases # {}
                    /\ n.state.pending = None
                    /\ n.effects = Out(n.state)
<1> DEFINE kinds == {f \in Families : Planned(trigger, s.facets[f])}
<1> DEFINE n == Reconcile(s, trigger)
<1>1. CASE s.leases # {}
  <2> DEFINE kept == IF /\ s.pending # None
                        /\ Priority(s.pending) >= Priority(trigger)
                     THEN s.pending ELSE trigger
  <2>1. kept \in AllTriggers
    BY DEF Coordinator
  <2>2. n = [state |-> [s EXCEPT !.pending = kept], effects |-> {}]
    BY <1>1 DEF Reconcile, Transition
  <2> HIDE DEF kept
  <2> DEFINE w == [s EXCEPT !.pending = kept]
  <2>3. /\ w \in Coordinator
        /\ w.leases = s.leases /\ w.revision = s.revision
        /\ w.facets = s.facets /\ w.leasedFrom = s.leasedFrom
        /\ w.known = s.known
    BY Zenon, <2>1 DEF Coordinator
  <2> HIDE DEF w
  <2>4. CoordFacts(w)
    BY <1>1, <2>3 DEF CoordFacts
  <2>5. n.state = w /\ n.effects = {}
    BY <2>2 DEF w
  <2> QED
    BY Zenon, <2>3, <2>4, <2>5
<1>2. CASE s.leases = {} /\ kinds = {}
  <2>1. n = [state |-> s, effects |-> {}]
    BY <1>2 DEF Reconcile, Transition
  <2> QED
    BY <2>1
<1>3. CASE s.leases = {} /\ kinds # {}
  <2> DEFINE facets == [f \in Families |->
                 IF f \in kinds THEN "Updating" ELSE s.facets[f]]
  <2> DEFINE t == [s EXCEPT !.revision = s.revision + 1, !.facets = facets,
                            !.leases = kinds, !.leasedFrom = s.facets,
                            !.pending = None]
  <2>1. n = [state |-> t,
             effects |-> {[revision |-> s.revision + 1, kind |-> f]
                            : f \in kinds}]
    BY <1>3 DEF Reconcile, Transition
  <2>2. \A f \in kinds : s.facets[f] # "Updating"
    BY Zenon DEF Planned, AllTriggers
  <2>3. s.facets \in Facets /\ facets \in Facets
    BY DEF Coordinator, Facets, Facet
  <2>6. s.facets # None /\ kinds \in SUBSET Families
    BY <2>3, ConstantsAssumption
  <2>7. \A f \in Families : facets[f] = "Updating" =>
            f \in kinds \/ s.facets[f] = "Updating"
    OBVIOUS
  <2> HIDE DEF kinds, facets
  <2>4. /\ t.revision = s.revision + 1 /\ t.facets = facets
        /\ t.leases = kinds /\ t.leasedFrom = s.facets /\ t.pending = None
        /\ t.known
    BY DEF Coordinator
  <2>5. t \in Coordinator
    <3>1. s.revision + 1 \in Nat
      BY DEF Coordinator
    <3> QED
      BY Zenon, <2>3, <2>6, <3>1, RewrittenType
  <2> HIDE DEF t
  <2>8. CoordFacts(t)
    BY <1>3, <2>2, <2>4, <2>6, <2>7 DEF CoordFacts
  <2>9. n.effects = Out(t) /\ n.state = t
    BY <2>1, <2>4 DEF Out
  <2> QED
    BY <1>3, <2>4, <2>5, <2>8, <2>9
<1> QED
  BY <1>1, <1>2, <1>3

\* What complete_effect and expire_effect return: the leases of the accepted
\* effects end; only when none is left can a retained trigger take new ones.
LEMMA ReleaseFacts ==
    ASSUME NEW s \in Coordinator, NEW effects \in SUBSET Effect,
           NEW facet \in Facet, CoordFacts(s), s.known,
           facet = "Updating" => "Updating" \in PortFacets
    PROVE  LET n == Release(s, effects, facet)
           IN /\ n.state \in Coordinator
              /\ CoordFacts(n.state)
              /\ n.state.known
              /\ \/ /\ n.state.revision = s.revision
                    /\ n.state.leases = s.leases \ Ended(s, effects)
                    /\ n.effects = {}
                 \/ /\ s.leases = Ended(s, effects)
                    /\ n.state.revision = s.revision + 1
                    /\ n.state.leases # {}
                    /\ n.state.pending = None
                    /\ n.effects = Out(n.state)
<1> DEFINE ended == {e.kind : e \in {x \in effects : Accepts(s, x)}}
<1> DEFINE facets == [f \in Families |->
               IF f \in ended THEN facet ELSE s.facets[f]]
<1> DEFINE left == [s EXCEPT !.facets = facets, !.leases = s.leases \ ended]
<1> DEFINE n == Release(s, effects, facet)
<1>1. ended = Ended(s, effects) /\ ended \subseteq s.leases
  BY DEF Ended, Accepts
<1>2. facets \in Facets
  BY SMTT(60) DEF Coordinator, Facets
<1>3. /\ left \in Coordinator
      /\ left.facets = facets /\ left.leases = s.leases \ ended
      /\ left.revision = s.revision /\ left.leasedFrom = s.leasedFrom
      /\ left.pending = s.pending /\ left.known
  BY ZenonT(60), <1>2 DEF Coordinator
<1>4. "Updating" \notin PortFacets =>
          \A f \in Families : facets[f] = "Updating" => f \in left.leases
  BY Zenon, <1>3 DEF CoordFacts, Coordinator
<1>5. n = IF ended = {} THEN Transition(s, {})
          ELSE IF left.leases # {} THEN Transition(left, {})
          ELSE IF s.pending = None
          THEN Transition([left EXCEPT !.leasedFrom = None], {})
          ELSE Reconcile([left EXCEPT !.leasedFrom = None,
                                      !.pending = None], s.pending)
  BY DEF Release
<1> HIDE DEF n, left, facets, ended
<1>6. CASE ended = {}
  <2>1. n.state = s /\ n.effects = {}
    BY <1>5, <1>6 DEF Transition
  <2> QED
    BY <1>1, <1>6, <2>1 DEF n
<1>7. CASE ended # {} /\ left.leases # {}
  <2>1. n.state = left /\ n.effects = {}
    BY <1>5, <1>7 DEF Transition
  <2>2. CoordFacts(left)
    BY <1>1, <1>3, <1>4, <1>7 DEF CoordFacts
  <2> QED
    BY <1>1, <1>3, <2>1, <2>2 DEF n
<1>8. CASE ended # {} /\ left.leases = {} /\ s.pending = None
  <2> DEFINE t == [left EXCEPT !.leasedFrom = None]
  <2>1. n.state = t /\ n.effects = {}
    BY <1>5, <1>8 DEF Transition
  <2>2. /\ t \in Coordinator
        /\ t.facets = facets /\ t.leases = {} /\ t.leasedFrom = None
        /\ t.revision = s.revision /\ t.pending = None /\ t.known
    BY <1>3, <1>8 DEF Coordinator
  <2>3. CoordFacts(t)
    BY <1>4, <1>8, <2>2 DEF CoordFacts
  <2> QED
    BY <1>1, <1>3, <1>8, <2>1, <2>2, <2>3 DEF n
<1>9. CASE ended # {} /\ left.leases = {} /\ s.pending # None
  <2> DEFINE t == [left EXCEPT !.leasedFrom = None, !.pending = None]
  <2>1. n = Reconcile(t, s.pending)
    BY <1>5, <1>9
  <2>2. /\ t \in Coordinator
        /\ t.facets = facets /\ t.leases = {} /\ t.leasedFrom = None
        /\ t.revision = s.revision /\ t.pending = None /\ t.known
    BY Zenon, <1>3, <1>9 DEF Coordinator
  <2>3. CoordFacts(t)
    BY <1>4, <1>9, <2>2 DEF CoordFacts
  <2>4. s.pending \in AllTriggers
    BY <1>9 DEF Coordinator
  <2> HIDE DEF t
  <2>5. /\ n.state \in Coordinator
        /\ CoordFacts(n.state)
        /\ n.state.known
        /\ \/ /\ n.state.revision = t.revision
              /\ n.state.leases = t.leases
              /\ n.effects = {}
           \/ /\ t.leases = {}
              /\ n.state.revision = t.revision + 1
              /\ n.state.leases # {}
              /\ n.state.pending = None
              /\ n.effects = Out(n.state)
    BY <2>1, <2>2, <2>3, <2>4, ReconcileFacts
  <2>6. s.leases = ended
    BY <1>1, <1>3, <1>9
  <2> QED
    BY <1>1, <2>2, <2>5, <2>6 DEF n
<1> QED
  BY <1>6, <1>7, <1>8, <1>9

\* Dropping a guard ends its leases and takes none.
LEMMA AbandonedFacts ==
    ASSUME NEW s \in Coordinator, NEW effects \in SUBSET Effect,
           CoordFacts(s), s.known
    PROVE  LET t == Abandoned(s, effects)
           IN /\ t \in Coordinator
              /\ CoordFacts(t)
              /\ t.known
              /\ t.leases = s.leases \ Ended(s, effects)
              /\ \/ t.revision = s.revision
                 \/ t.leases = {} /\ t.revision = s.revision + 1
<1> DEFINE m == Release(s, effects, "Stale")
<1> DEFINE n == Release(m.state, m.effects, "Stale")
<1>1. Abandoned(s, effects) = n.state
  BY DEF Abandoned
<1>2. /\ m.state \in Coordinator
      /\ CoordFacts(m.state)
      /\ m.state.known
      /\ \/ /\ m.state.revision = s.revision
            /\ m.state.leases = s.leases \ Ended(s, effects)
            /\ m.effects = {}
         \/ /\ s.leases = Ended(s, effects)
            /\ m.state.revision = s.revision + 1
            /\ m.state.leases # {}
            /\ m.state.pending = None
            /\ m.effects = Out(m.state)
  BY ReleaseFacts DEF Facet
<1> HIDE DEF m
<1>3. m.effects \in SUBSET Effect
  BY <1>2 DEF Out, Effect, Coordinator
<1>4. CASE m.effects = {}
  <2>1. n = Transition(m.state, {})
    BY <1>4 DEF Release
  <2>2. n.state = m.state
    BY <2>1 DEF Transition
  <2>3. m.state.leases # {} => Out(m.state) # {}
    BY Zenon DEF Out
  <2> QED
    BY <1>1, <1>2, <1>4, <2>2, <2>3
<1>5. CASE m.effects # {}
  <2>1. /\ s.leases = Ended(s, effects)
        /\ m.state.revision = s.revision + 1
        /\ m.state.leases # {}
        /\ m.state.pending = None
        /\ m.effects = Out(m.state)
    BY <1>2, <1>5
  <2>2. Ended(m.state, m.effects) = m.state.leases
    BY <2>1, OutEnded
  <2>3. /\ n.state \in Coordinator
        /\ CoordFacts(n.state)
        /\ n.state.known
        /\ \/ /\ n.state.revision = m.state.revision
              /\ n.state.leases = m.state.leases \ m.state.leases
              /\ n.effects = {}
           \/ n.state.leases # {} /\ n.effects = Out(n.state)
    BY <1>2, <1>3, <2>2, ReleaseFacts DEF Facet
  <2>4. n.effects = {}
    BY <2>1, <2>2, Zenon DEF Release, Transition, Ended
  <2>5. n.state.leases # {} => Out(n.state) # {}
    BY Zenon DEF Out
  <2> QED
    BY <1>1, <2>1, <2>3, <2>4, <2>5
<1> QED
  BY <1>4, <1>5

\* Cancelling takes every lease back.
LEMMA CancelFacts ==
    ASSUME NEW s \in Coordinator, CoordFacts(s)
    PROVE  LET t == Cancel(s)
           IN /\ t \in Coordinator
              /\ CoordFacts(t)
              /\ t.known = s.known
              /\ t.leases = {}
              /\ t.revision = IF s.leases = {} THEN s.revision
                              ELSE s.revision + 1
<1>1. CASE s.leases = {}
  BY <1>1 DEF Cancel
<1>2. CASE s.leases # {}
  <2> DEFINE facets == [f \in Families |->
                 IF f \in s.leases THEN s.leasedFrom[f] ELSE s.facets[f]]
  <2> DEFINE t == [s EXCEPT !.revision = s.revision + 1, !.facets = facets,
                            !.leases = {}, !.leasedFrom = None,
                            !.pending = None]
  <2>1. Cancel(s) = t
    BY <1>2 DEF Cancel
  <2>2. s.leasedFrom \in Facets /\ s.facets \in Facets
    BY <1>2 DEF CoordFacts, Coordinator
  <2>3. facets \in Facets
    BY <2>2 DEF Facets
  <2>5. "Updating" \notin PortFacets =>
            \A f \in Families : facets[f] # "Updating"
    BY DEF CoordFacts
  <2> HIDE DEF facets
  <2>4. /\ t \in Coordinator /\ t.facets = facets /\ t.leases = {}
        /\ t.leasedFrom = None /\ t.pending = None /\ t.known = s.known
        /\ t.revision = s.revision + 1
    <3>1. s.revision + 1 \in Nat
      BY DEF Coordinator
    <3>2. t \in Coordinator
      BY Zenon, <2>3, <3>1, RewrittenType
    <3> QED
      BY <3>2 DEF Coordinator
  <2> HIDE DEF t
  <2>6. CoordFacts(t)
    BY <2>4, <2>5 DEF CoordFacts
  <2> QED
    BY <1>2, <2>1, <2>4, <2>6
<1> QED
  BY <1>1, <1>2


\* Observing the ports changes no lease.
LEMMA ObserveFacts ==
    ASSUME NEW s \in Coordinator, NEW view \in [Families -> PortFacets],
           CoordFacts(s)
    PROVE  LET t == Observe(s, view)
           IN /\ t \in Coordinator
              /\ CoordFacts(t)
              /\ t.known
              /\ t.leases = s.leases
              /\ t.revision = s.revision
<1> DEFINE facets == [f \in Families |->
               IF f \in s.leases THEN s.facets[f] ELSE view[f]]
<1> DEFINE t == [s EXCEPT !.known = TRUE, !.facets = facets]
<1>1. Observe(s, view) = t
  BY DEF Observe
<1>2. facets \in Facets
  BY ConstantsAssumption DEF Facets, Coordinator
<1>3. "Updating" \notin PortFacets =>
          \A f \in Families : facets[f] = "Updating" => f \in s.leases
  BY DEF CoordFacts
<1> HIDE DEF facets
<1>4. t \in Coordinator
  BY <1>2, Zenon DEF Coordinator
<1>5. /\ t.known /\ t.facets = facets /\ t.leases = s.leases
      /\ t.leasedFrom = s.leasedFrom /\ t.pending = s.pending
      /\ t.revision = s.revision
  BY DEF Coordinator
<1> HIDE DEF t
<1>6. CoordFacts(t)
  BY <1>3, <1>5 DEF CoordFacts
<1> QED
  BY <1>1, <1>4, <1>5, <1>6

-----------------------------------------------------------------------------
(***************************************************************************)
(* The inductive invariant                                                 *)
(***************************************************************************)
\* Where a call holds the selection gate, and where the operation gate.
SelHeld == {"pin", "unpin", "observe", "admit", "cancel", "cancelling",
            "publish"}
OpHeld == {"unpin", "starting", "cancelling"}

\* Where a call can have a guard.
Running == {"run", "starting", "syncing", "complete"}

\* What the place of a call says about the rest of its record.
CallFacts(k) ==
    /\ k.pc # "idle" => k.realm \in Realms /\ k.kind # "none"
    /\ k.kind = "reconcile" => k.trigger \in AllTriggers
    /\ k.pc \in {"observe", "admit"} => k.kind = "reconcile"
    /\ k.guard # {} => k.pc \in Running
    /\ k.pc \in {"starting", "syncing", "complete"} => k.current \in k.guard
    /\ k.pc = "starting" => k.current.kind # "account"
    /\ k.pc = "complete" => k.result \in PortFacets

CallInv == \A c \in Calls : CallFacts(call[c])

\* The gates are held by the calls that are inside them.
GateInv ==
    \A c \in Calls : /\ selGate = c <=> call[c].pc \in SelHeld
                     /\ opGate = c <=> call[c].pc \in OpHeld

\* The holder of the selection gate works for the wallet's network, and once
\* it has pinned it so does the registry.
SelInv ==
    /\ selGate = None => selection \in {None, network}
    /\ \A c \in Calls :
          /\ call[c].pc \in SelHeld => call[c].realm = network
          /\ call[c].pc \in SelHeld \ {"pin"} => selection = network

\* Only the selected realm has leases, and it has published.
CoordInv ==
    \A r \in Realms :
        /\ CoordFacts(coord[r])
        /\ coord[r].leases # {} => r = selection /\ projection[r] # None

\* A guard is no newer than the coordinator and the authority it is fenced by.
GuardInv ==
    \A c \in Calls : \A e \in call[c].guard :
        /\ e.revision <= coord[call[c].realm].revision
        /\ coord[call[c].realm].known
        /\ call[c].token.authority <= observed[call[c].realm].authority

\* No effect is in two guards.
UniqueInv ==
    \A c, d \in Calls : \A e \in call[c].guard \cap call[d].guard :
        call[c].realm = call[d].realm => c = d

\* Every lease is in a guard.
HeldInv ==
    \A r \in Realms : \A f \in coord[r].leases :
        \E c \in Calls :
            /\ call[c].realm = r
            /\ [revision |-> coord[r].revision, kind |-> f] \in call[c].guard

LeaseInv == CoordInv /\ GuardInv /\ UniqueInv /\ HeldInv /\ FencesAgree

\* An observation between its token and its publication is the newest, a lease
\* checked under the operation gate stays valid, and nothing is published
\* under an authority still to come.
TokenInv ==
    \A c \in Calls : call[c].pc = "admit" =>
        call[c].token = observed[call[c].realm]

StartInv ==
    \A c \in Calls : call[c].pc = "starting" =>
        Accepts(coord[call[c].realm], call[c].current)

ProjInv ==
    \A r \in Realms : projection[r] # None =>
        projection[r].authority <= observed[r].authority

IInv == /\ TypeOK /\ CallInv /\ GateInv /\ SelInv /\ LeaseInv /\ TokenInv
        /\ StartInv /\ ProjInv /\ RetiredWorkersStopped

-----------------------------------------------------------------------------
(***************************************************************************)
(* Frames                                                                  *)
(***************************************************************************)
\* Every step of a call rewrites the record of that call alone.
Moved(c, k) ==
    /\ call' \in [Calls -> Call]
    /\ call'[c] = k
    /\ \A d \in Calls : d # c => call'[d] = call[d]

\* A call's move, field by field.
LEMMA MoveMoved ==
    ASSUME call \in [Calls -> Call], NEW c \in Calls, NEW k \in Call,
           Move(c, k)
    PROVE  Moved(c, k)
BY DEF Move, Moved

\* The guard of k is that of j, except perhaps for one effect that has lost
\* its lease; without a guard the rest does not matter.
SameGuard(j, k) ==
    \/ j.guard = {} /\ k.guard = {}
    \/ /\ k.realm = j.realm
       /\ k.token = j.token
       /\ \/ k.guard = j.guard
          \/ \E e : ~Accepts(coord[j.realm], e) /\ k.guard = j.guard \ {e}

\* A step that leaves the coordinators and the authorities alone and that
\* drops no lease keeps the leases fenced and held.
LEMMA QuietLease ==
    ASSUME TypeOK, TypeOK', LeaseInv, CallInv,
           NEW c \in Calls, NEW k, Moved(c, k), SameGuard(call[c], k),
           UNCHANGED coord,
           \A r \in Realms : coord[r].leases # {} => selection' = selection,
           \A r \in Realms : observed'[r].authority = observed[r].authority,
           \A r \in Realms : projection[r] # None => projection'[r] # None
    PROVE  LeaseInv'
<1>1. \A d \in Calls : call'[d].guard \subseteq call[d].guard
  BY DEF Moved, SameGuard
<1>2. \A d \in Calls : call'[d].guard # {} =>
          call'[d].realm = call[d].realm /\ call'[d].token = call[d].token
  BY DEF Moved, SameGuard
<1>3. \A d \in Calls : call'[d].guard # {} => call[d].realm \in Realms
  BY <1>1 DEF CallInv, CallFacts, Running
<1>4. CoordInv'
  BY DEF LeaseInv, CoordInv, CoordFacts
<1>5. GuardInv'
  BY <1>1, <1>2, <1>3 DEF LeaseInv, GuardInv
<1>6. UniqueInv'
  BY <1>1, <1>2 DEF LeaseInv, UniqueInv
<1>7. HeldInv'
  <2> SUFFICES ASSUME NEW r \in Realms, NEW f \in coord[r].leases
               PROVE  \E d \in Calls :
                        /\ call'[d].realm = r
                        /\ [revision |-> coord[r].revision, kind |-> f]
                               \in call'[d].guard
    BY DEF HeldInv
  <2> DEFINE x == [revision |-> coord[r].revision, kind |-> f]
  <2>1. PICK d \in Calls : call[d].realm = r /\ x \in call[d].guard
    BY DEF LeaseInv, HeldInv
  <2>2. Accepts(coord[r], x)
    BY DEF Accepts
  <2> HIDE DEF x
  <2>3. x \in call'[d].guard
    BY <2>1, <2>2 DEF Moved, SameGuard
  <2> QED
    BY <1>2, <2>1, <2>3 DEF x
<1>8. FencesAgree'
  BY <1>1, <1>2, <1>3 DEF LeaseInv, FencesAgree, Accepts
<1> QED
  BY <1>4, <1>5, <1>6, <1>7, <1>8 DEF LeaseInv

\* The gates and the places of the calls, for a step of c.
LEMMA ControlMove ==
    ASSUME IInv, NEW c \in Calls, NEW k, Moved(c, k), CallFacts(k),
           selGate' = c <=> k.pc \in SelHeld,
           opGate' = c <=> k.pc \in OpHeld,
           selGate' \in {selGate, None, c},
           selGate' = selGate \/ selGate \in {None, c},
           opGate' \in {opGate, None, c},
           opGate' = opGate \/ opGate \in {None, c}
    PROVE  CallInv' /\ GateInv'
<1>1. CallInv'
  BY DEF IInv, CallInv, Moved
<1>2. \A d \in Calls : d # c => /\ selGate' = d <=> selGate = d
                                /\ opGate' = d <=> opGate = d
  BY ConstantsAssumption
<1>3. GateInv'
  BY <1>2 DEF IInv, GateInv, Moved
<1> QED
  BY <1>1, <1>3

\* A move that leaves network and selection alone.
LEMMA SelMove ==
    ASSUME IInv, NEW c \in Calls, NEW k, Moved(c, k),
           UNCHANGED <<network, selection>>,
           k.pc \in SelHeld => k.realm = network,
           k.pc \in SelHeld \ {"pin"} => selection = network,
           selGate' = None => selGate = None \/ selection = network
    PROVE  SelInv'
BY DEF IInv, SelInv, Moved

\* A move that starts no worker of a retired realm.
LEMMA RetiredKept ==
    ASSUME IInv, NEW c \in Calls, NEW k, Moved(c, k), UNCHANGED selection,
           call[c].pc # "unpin",
           \A r \in Realms : worker'[r] # {} => worker[r] # {} \/ r = selection
    PROVE  RetiredWorkersStopped'
BY DEF IInv, RetiredWorkersStopped, Moved

\* A step of c that changes neither the registry nor a fence.
LEMMA Quiet ==
    ASSUME IInv, NEW c \in Calls, NEW k \in Call, Move(c, k), CallFacts(k),
           SameGuard(call[c], k),
           UNCHANGED <<selection, coord, observed, projection>>,
           network' \in Realms,
           worker' \in [Realms -> SUBSET (Families \ {"account"})],
           selGate' = c <=> k.pc \in SelHeld,
           opGate' = c <=> k.pc \in OpHeld,
           selGate' \in {selGate, None, c},
           selGate' = selGate \/ selGate \in {None, c},
           opGate' \in {opGate, None, c},
           opGate' = opGate \/ opGate \in {None, c},
           k.pc # "admit",
           k.pc = "starting" => Accepts(coord[k.realm], k.current),
           SelInv', RetiredWorkersStopped'
    PROVE  IInv'
<1>1. Moved(c, k)
  BY MoveMoved DEF IInv, TypeOK
<1>2. TypeOK'
  BY <1>1 DEF IInv, TypeOK, Moved
<1>3. CallInv' /\ GateInv'
  BY <1>1, ControlMove
<1>4. LeaseInv'
  BY <1>1, <1>2, QuietLease DEF IInv
<1>5. TokenInv'
  BY <1>1 DEF IInv, TokenInv, Moved
<1>6. StartInv'
  BY <1>1 DEF IInv, StartInv, Moved
<1>7. ProjInv'
  BY ZenonT(60) DEF IInv, ProjInv
<1> QED
  BY <1>2, <1>3, <1>4, <1>5, <1>6, <1>7 DEF IInv

-----------------------------------------------------------------------------
(***************************************************************************)
(* Entering, and the steps that do not touch the registry                  *)
(***************************************************************************)
LEMMA EnterStep ==
    ASSUME IInv, NEW c \in Calls, Enter(c)
    PROVE  IInv'
<1>0. call \in [Calls -> Call] /\ network \in Realms
  BY ZenonT(60) DEF IInv, TypeOK
<1> DEFINE Entered(k, r) ==
        /\ k.kind # "none" /\ k.pc = "pin" /\ k.realm = r /\ k.guard = {}
        /\ k.kind = "reconcile" => k.trigger \in AllTriggers
<1>1. \E k \in Call, r \in Realms :
        /\ Entered(k, r)
        /\ Move(c, k)
        /\ call[c].pc = "idle"
        /\ selGate = None
        /\ selGate' = c
        /\ network' = r
        /\ UNCHANGED <<selection, coord, observed, projection, worker,
                       opGate>>
  <2>1. ASSUME NEW t \in Triggers, ReconcileCall(c, t)
        PROVE  <1>1!:
    <3> DEFINE k == [FreshCall EXCEPT !.kind = "reconcile", !.pc = "pin",
                                      !.trigger = t, !.realm = network]
    <3>1. k \in Call /\ Entered(k, network)
      BY Zenon, <1>0, ConstantsAssumption DEF FreshCall, Call, Observation
    <3>2. Move(c, k)
      BY <2>1 DEF ReconcileCall
    <3> HIDE DEF k, Entered
    <3> QED
      BY <1>0, <2>1, <3>1, <3>2 DEF ReconcileCall
  <2>2. CASE CancelCall(c)
    <3> DEFINE k == [FreshCall EXCEPT !.kind = "cancel", !.pc = "pin",
                                      !.realm = network]
    <3>1. k \in Call /\ Entered(k, network)
      BY Zenon, <1>0 DEF FreshCall, Call, Observation
    <3>2. Move(c, k)
      BY <2>2 DEF CancelCall
    <3> HIDE DEF k, Entered
    <3> QED
      BY <1>0, <2>2, <3>1, <3>2 DEF CancelCall
  <2>3. ASSUME NEW r \in Realms, SelectCall(c, r)
        PROVE  <1>1!:
    <3> DEFINE k == [FreshCall EXCEPT !.kind = "select", !.pc = "pin",
                                      !.realm = r]
    <3>1. k \in Call /\ Entered(k, r)
      BY Zenon DEF FreshCall, Call, Observation
    <3>2. Move(c, k)
      BY <2>3 DEF SelectCall
    <3> HIDE DEF k, Entered
    <3> QED
      BY <2>3, <3>1, <3>2 DEF SelectCall
  <2> QED
    BY <2>1, <2>2, <2>3 DEF Enter
<1>2. PICK k \in Call, r \in Realms : <1>1!(k, r)
  BY <1>1
<1>3. /\ k.pc = "pin" /\ k.realm = r /\ k.guard = {} /\ Entered(k, r)
  BY <1>2
<1>4. CallFacts(k)
  BY <1>3 DEF CallFacts
<1>5. Move(c, k)
  BY <1>2
<1>6. Moved(c, k)
  BY <1>0, <1>5, MoveMoved
<1>7. SameGuard(call[c], k)
  BY Zenon, <1>2, <1>3 DEF SameGuard, IInv, CallInv, CallFacts, Running
<1>8. SelInv'
  <2>1. \A d \in Calls : d # c => call'[d].pc \notin SelHeld
    BY <1>2, <1>6, ConstantsAssumption DEF IInv, GateInv, Moved
  <2> QED
    BY <1>2, <1>3, <1>6, <2>1, ConstantsAssumption DEF SelInv, Moved
<1>9. RetiredWorkersStopped'
  BY Zenon, <1>2, <1>6, RetiredKept
<1>10. opGate # c
  BY <1>2 DEF IInv, GateInv, OpHeld
<1> QED
  BY <1>0, <1>2, <1>3, <1>4, <1>5, <1>7, <1>8, <1>9, <1>10, Quiet
  DEF SelHeld, OpHeld, IInv, TypeOK

\* The workers of the previous realm are stopped.
LEMMA UnpinStep ==
    ASSUME IInv, NEW c \in Calls, Unpin(c)
    PROVE  IInv'
<1> DEFINE q == IF call[c].kind = "select" THEN "done"
                ELSE IF call[c].kind = "cancel" THEN "cancel" ELSE "observe"
<1> DEFINE k == [call[c] EXCEPT !.pc = q]
<1>1. call \in [Calls -> Call] /\ call[c] \in Call /\ network \in Realms
  BY DEF IInv, TypeOK
<1>2. /\ call[c].pc = "unpin" /\ opGate = c /\ selGate = c
      /\ selection = network /\ call[c].realm = network
  BY DEF Unpin, IInv, GateInv, SelInv, SelHeld, OpHeld
<1>3. Move(c, k)
  BY DEF Unpin, Move
<1>4. q \in {"done", "cancel", "observe"}
      /\ (q = "observe" => call[c].kind \notin {"select", "cancel"})
  OBVIOUS
<1>5. selGate' = IF q = "done" THEN None ELSE c
  BY <1>2 DEF Unpin
<1> HIDE DEF q
<1>6. k \in Call
  BY <1>1, <1>4 DEF Call
<1>7. k.pc = q /\ k.kind = call[c].kind /\ k.realm = call[c].realm
      /\ k.guard = call[c].guard /\ k.trigger = call[c].trigger
  BY <1>1 DEF Call
<1>8. call[c].guard = {} /\ call[c].kind # "none"
  BY <1>2 DEF IInv, CallInv, CallFacts, Running
<1>9. k.kind \in {"reconcile", "cancel", "select"}
  BY <1>1, <1>7, <1>8 DEF Call
<1> HIDE DEF k
<1>10. CallFacts(k)
  BY <1>1, <1>2, <1>4, <1>7, <1>8, <1>9 DEF CallFacts, IInv, CallInv
<1>11. Moved(c, k)
  BY <1>1, <1>3, <1>6, MoveMoved
<1>12. SelInv'
  BY <1>2, <1>4, <1>5, <1>7, <1>11, SelMove DEF SelHeld, Unpin
<1>13. worker' \in [Realms -> SUBSET (Families \ {"account"})]
  BY DEF Unpin, IInv, TypeOK
<1>14. RetiredWorkersStopped'
  <2> SUFFICES ASSUME NEW r \in Realms, worker'[r] # {}
               PROVE  r = selection
    BY DEF RetiredWorkersStopped, Unpin
  <2>1. worker[r] # {} /\ r # call[c].retired
    BY DEF Unpin
  <2>2. ASSUME NEW d \in Calls, call[d].pc = "unpin", call[d].retired = r
        PROVE  FALSE
    BY <1>2, <2>1, <2>2 DEF IInv, GateInv, OpHeld
  <2> QED
    BY <2>1, <2>2 DEF IInv, RetiredWorkersStopped
<1>15. SameGuard(call[c], k)
  BY Zenon, <1>7, <1>8 DEF SameGuard
<1> QED
  BY <1>1, <1>2, <1>3, <1>4, <1>5, <1>6, <1>7, <1>10, <1>12, <1>13, <1>14,
     <1>15, ConstantsAssumption, Quiet
  DEF Unpin, SelHeld, OpHeld

\* The steps inside the loop of reconcile before the effect has ended.
LEMMA LoopStep ==
    ASSUME IInv, NEW c \in Calls, NEW k \in Call, Move(c, k), CallFacts(k),
           SameGuard(call[c], k),
           UNCHANGED <<network, selection, coord, observed, projection,
                       selGate>>,
           call[c].pc \in Running, k.pc \in Running \cup {"done"},
           k.pc = "starting" => Accepts(coord[k.realm], k.current),
           worker' \in [Realms -> SUBSET (Families \ {"account"})],
           opGate' = c <=> k.pc \in OpHeld,
           opGate' \in {opGate, None, c},
           opGate' = opGate \/ opGate \in {None, c},
           RetiredWorkersStopped'
    PROVE  IInv'
<1>1. Moved(c, k)
  BY Zenon, MoveMoved DEF IInv, TypeOK
<1>2. SelInv'
  BY Zenon, <1>1, SelMove DEF SelHeld, Running
<1>3. selGate # c
  BY Zenon DEF IInv, GateInv, SelHeld, Running
<1> QED
  BY Zenon, <1>2, <1>3, Quiet DEF SelHeld, Running, IInv, TypeOK

\* Beginning an effect, or discarding it when its lease is gone.
LEMMA EffectStep ==
    ASSUME IInv, NEW c \in Calls, NEW e \in call[c].guard,
           EnterAccount(c, e) \/ EnterPrivate(c, e)
    PROVE  IInv'
<1>1. call \in [Calls -> Call] /\ call[c] \in Call /\ e \in Effect
  BY DEF IInv, TypeOK, Call
<1>2. call[c].pc = "run" /\ opGate # c
  BY DEF EnterAccount, EnterPrivate, IInv, GateInv, OpHeld
<1>3. CallFacts(call[c])
  BY ZenonT(60) DEF IInv, CallInv
<1>4. CASE Accepts(coord[call[c].realm], e)
  <2> DEFINE q == IF e.kind = "account" THEN "syncing" ELSE "starting"
  <2> DEFINE k == [call[c] EXCEPT !.pc = q, !.current = e]
  <2>1. Move(c, k)
    BY Zenon, <1>4 DEF EnterAccount, EnterPrivate
  <2>2. k \in Call
    BY ZenonT(60), <1>1 DEF Call
  <2>3. /\ k.pc = q /\ k.current = e /\ k.guard = call[c].guard
        /\ k.realm = call[c].realm /\ k.token = call[c].token
        /\ k.kind = call[c].kind /\ k.trigger = call[c].trigger
    BY <1>1 DEF Call
  <2>4. opGate' = IF q = "starting" THEN c ELSE opGate
    BY <1>4 DEF EnterAccount, EnterPrivate
  <2>5. q = "starting" => opGate = None /\ e.kind # "account"
    BY DEF EnterAccount, EnterPrivate
  <2>6. q \in {"starting", "syncing"}
    OBVIOUS
  <2>7. UNCHANGED <<network, selection, coord, observed, projection, worker,
                    selGate>>
    BY DEF EnterAccount, EnterPrivate
  <2> HIDE DEF k, q
  <2>8. CallFacts(k)
    BY <1>2, <1>3, <2>3, <2>5, <2>6 DEF CallFacts, Running
  <2>9. SameGuard(call[c], k)
    BY <2>3 DEF SameGuard
  <2>10. RetiredWorkersStopped'
    BY <1>1, <1>2, <2>1, <2>2, <2>7, MoveMoved, RetiredKept
  <2> QED
    BY <1>2, <1>4, <2>1, <2>2, <2>3, <2>4, <2>5, <2>6, <2>7, <2>8, <2>9,
       <2>10, LoopStep
    DEF Running, OpHeld, IInv, TypeOK
<1>5. CASE ~Accepts(coord[call[c].realm], e)
  <2> DEFINE left == call[c].guard \ {e}
  <2> DEFINE k == [call[c] EXCEPT !.guard = left, !.pc = Onward(left)]
  <2>1. Move(c, k)
    BY <1>5 DEF EnterAccount, EnterPrivate
  <2>2. k \in Call
    BY ZenonT(60), <1>1 DEF Call, Onward
  <2>3. /\ k.pc = Onward(left) /\ k.guard = left
        /\ k.realm = call[c].realm /\ k.token = call[c].token
        /\ k.kind = call[c].kind /\ k.trigger = call[c].trigger
    BY <1>1 DEF Call
  <2>4. UNCHANGED <<network, selection, coord, observed, projection, worker,
                    selGate, opGate>>
    BY <1>5 DEF EnterAccount, EnterPrivate
  <2>5. Onward(left) \in {"run", "done"} /\ (Onward(left) = "done" => left = {})
    BY DEF Onward
  <2> HIDE DEF k
  <2>6. CallFacts(k)
    BY <1>2, <1>3, <2>3, <2>5 DEF CallFacts, Running
  <2>7. SameGuard(call[c], k)
    BY <1>5, <2>3 DEF SameGuard
  <2>8. RetiredWorkersStopped'
    BY <1>1, <1>2, <2>1, <2>2, <2>4, MoveMoved, RetiredKept
  <2> HIDE DEF left
  <2> QED
    BY Zenon, <1>2, <2>1, <2>2, <2>3, <2>4, <2>5, <2>6, <2>7, <2>8, LoopStep
    DEF Running, OpHeld, IInv, TypeOK
<1> QED
  BY <1>4, <1>5

\* The effect ends with a facet state.
LEMMA AnswerStep ==
    ASSUME IInv, NEW c \in Calls, NEW facet \in PortFacets,
           SyncAccount(c, facet) \/ StartWorker(c, facet)
    PROVE  IInv'
<1> DEFINE k == [call[c] EXCEPT !.pc = "complete", !.result = facet]
<1>1. call \in [Calls -> Call] /\ call[c] \in Call
  BY DEF IInv, TypeOK
<1>2. call[c].pc \in {"syncing", "starting"}
  BY DEF SyncAccount, StartWorker
<1>3. CallFacts(call[c])
  BY DEF IInv, CallInv
<1>4. call[c].current \in Effect /\ call[c].realm \in Realms
  BY <1>1, <1>2, <1>3 DEF CallFacts, Call
<1>5. Move(c, k)
  BY DEF SyncAccount, StartWorker
<1>6. k \in Call
  BY Zenon, <1>1, ConstantsAssumption DEF Call
<1>7. /\ k.pc = "complete" /\ k.result = facet /\ k.guard = call[c].guard
      /\ k.realm = call[c].realm /\ k.token = call[c].token
      /\ k.kind = call[c].kind /\ k.trigger = call[c].trigger
      /\ k.current = call[c].current
  BY <1>1 DEF Call
<1>8. UNCHANGED <<network, selection, coord, observed, projection, selGate>>
  BY DEF SyncAccount, StartWorker
<1>9. opGate' = IF call[c].pc = "starting" THEN None ELSE opGate
  BY DEF SyncAccount, StartWorker
<1>10. opGate = c <=> call[c].pc = "starting"
  BY <1>2 DEF IInv, GateInv, OpHeld
<1> HIDE DEF k
<1>11. CallFacts(k)
  BY <1>2, <1>3, <1>7 DEF CallFacts, Running
<1>12. SameGuard(call[c], k)
  BY <1>7 DEF SameGuard
<1>13. Moved(c, k)
  BY <1>1, <1>5, <1>6, MoveMoved
<1>14. worker' \in [Realms -> SUBSET (Families \ {"account"})]
       /\ RetiredWorkersStopped'
  <2>1. CASE worker' = worker
    BY <1>2, <1>8, <1>13, <2>1, RetiredKept DEF IInv, TypeOK
  <2>2. CASE worker' # worker
    <3>1. /\ call[c].pc = "starting"
          /\ worker' = [worker EXCEPT ![call[c].realm] =
                            @ \cup {call[c].current.kind}]
      BY Zenon, <2>2 DEF SyncAccount, StartWorker
    <3>2. call[c].current.kind \in Families \ {"account"}
      BY <1>3, <1>4, <3>1 DEF CallFacts, Effect
    <3>3. call[c].realm = selection
      BY <1>4, <3>1 DEF IInv, StartInv, Accepts, LeaseInv, CoordInv
    <3>4. worker' \in [Realms -> SUBSET (Families \ {"account"})]
      BY <1>4, <3>1, <3>2 DEF IInv, TypeOK
    <3>5. \A r \in Realms : r # selection => worker'[r] = worker[r]
      BY <1>4, <3>1, <3>3 DEF IInv, TypeOK
    <3>6. RetiredWorkersStopped'
      BY ZenonT(60), <1>2, <1>8, <1>13, <3>1, <3>5, RetiredKept
    <3> QED
      BY <3>4, <3>6
  <2> QED
    BY <2>1, <2>2
<1> QED
  BY <1>2, <1>5, <1>6, <1>7, <1>8, <1>9, <1>10, <1>11, <1>12, <1>14,
     ConstantsAssumption, LoopStep
  DEF Running, OpHeld

\* cancel: the workers are stopped, and the return without a publication.
LEMMA CancelQuietStep ==
    ASSUME IInv, NEW c \in Calls, CancelWorkers(c) \/ CancelFails(c)
    PROVE  IInv'
<1> DEFINE q == IF call[c].pc = "cancelling" THEN "publish" ELSE "done"
<1> DEFINE k == [call[c] EXCEPT !.pc = q]
<1>1. call \in [Calls -> Call] /\ call[c] \in Call
  BY DEF IInv, TypeOK
<1>2. /\ call[c].pc \in {"cancelling", "publish"}
      /\ selGate = c /\ selection = network /\ call[c].realm = network
      /\ network \in Realms
  BY DEF CancelWorkers, CancelFails, IInv, GateInv, SelInv, SelHeld, TypeOK
<1>3. CallFacts(call[c])
  BY DEF IInv, CallInv
<1>4. Move(c, k)
  BY DEF CancelWorkers, CancelFails
<1>5. k \in Call
  BY <1>1 DEF Call
<1>6. /\ k.pc = q /\ k.guard = call[c].guard /\ k.realm = call[c].realm
      /\ k.kind = call[c].kind /\ k.trigger = call[c].trigger
      /\ q \in {"publish", "done"}
  BY <1>1 DEF Call
<1>7. UNCHANGED <<network, selection, coord, observed, projection>>
  BY DEF CancelWorkers, CancelFails
<1>8. /\ opGate' = IF q = "publish" THEN None ELSE opGate
      /\ selGate' = IF q = "publish" THEN selGate ELSE None
  BY DEF CancelWorkers, CancelFails
<1>9. opGate = c <=> q = "publish"
  BY <1>2 DEF IInv, GateInv, OpHeld
<1>10. worker' \in [Realms -> SUBSET (Families \ {"account"})]
       /\ \A r \in Realms : worker'[r] # {} => worker[r] # {}
  BY Zenon, <1>2 DEF CancelWorkers, CancelFails, IInv, TypeOK
<1> HIDE DEF k, q
<1>11. CallFacts(k)
  BY Zenon, <1>2, <1>3, <1>6 DEF CallFacts, Running
<1>12. SameGuard(call[c], k)
  BY <1>2, <1>3, <1>6 DEF SameGuard, CallFacts, Running
<1>13. Moved(c, k)
  BY <1>1, <1>4, <1>5, MoveMoved
<1>14. SelInv'
  BY Zenon, <1>2, <1>6, <1>7, <1>13, SelMove DEF SelHeld
<1>15. RetiredWorkersStopped'
  BY <1>2, <1>7, <1>10, <1>13, RetiredKept
<1> QED
  BY <1>2, <1>4, <1>5, <1>6, <1>7, <1>8, <1>9, <1>10, <1>11, <1>12, <1>14,
     <1>15, ConstantsAssumption, Quiet
  DEF SelHeld, OpHeld

\* A private worker ends by itself.
LEMMA WorkerEndsStep ==
    ASSUME IInv, NEW r \in Realms, NEW f \in Families, WorkerEnds(r, f)
    PROVE  IInv'
<1>1. TypeOK'
  BY DEF WorkerEnds, IInv, TypeOK
<1>2. UNCHANGED <<network, selection, coord, observed, projection, selGate,
                  opGate, call>>
  BY DEF WorkerEnds
<1>3. RetiredWorkersStopped'
  <2>1. \A x \in Realms : worker'[x] # {} => worker[x] # {}
    BY DEF WorkerEnds, IInv, TypeOK
  <2> QED
    BY <1>2, <2>1 DEF IInv, RetiredWorkersStopped
<1>4. CallInv' /\ GateInv' /\ SelInv'
  BY ZenonT(60), <1>2 DEF IInv, CallInv, GateInv, SelInv
<1>5. LeaseInv'
  <2>1. CoordInv'
    BY Zenon, <1>2 DEF IInv, LeaseInv, CoordInv, CoordFacts
  <2>2. GuardInv'
    BY Zenon, <1>2 DEF IInv, LeaseInv, GuardInv, Accepts
  <2>3. UniqueInv'
    BY Zenon, <1>2 DEF IInv, LeaseInv, UniqueInv
  <2>4. HeldInv'
    BY Zenon, <1>2 DEF IInv, LeaseInv, HeldInv
  <2>5. FencesAgree'
    BY ZenonT(60), <1>2 DEF IInv, LeaseInv, FencesAgree, Accepts
  <2> QED
    BY Zenon, <2>1, <2>2, <2>3, <2>4, <2>5 DEF LeaseInv
<1>6. TokenInv' /\ StartInv' /\ ProjInv'
  BY <1>2 DEF IInv, TokenInv, StartInv, ProjInv, Accepts
<1> QED
  BY <1>1, <1>3, <1>4, <1>5, <1>6 DEF IInv

-----------------------------------------------------------------------------
(***************************************************************************)
(* The steps that observe, publish and invalidate                          *)
(***************************************************************************)
LEMMA ObservationFacts ==
    ASSUME NEW o \in Observation
    PROVE  /\ NewObservation(o) \in Observation
           /\ NewObservation(o).authority = o.authority
           /\ NewAuthority(o) \in Observation
           /\ NewAuthority(o).authority = o.authority + 1
BY DEF NewObservation, NewAuthority, Observation

\* Facts about the order on the natural numbers.
LEMMA NatOrder ==
    /\ \A m \in Nat : m <= m
    /\ \A l, m, n \in Nat : l <= m /\ m <= n => l <= n
    /\ \A m, n \in Nat : ~(m <= n /\ m > n)
    /\ \A m, n \in Nat : m = n + 1 => n <= m
BY SMT

\* The order on the natural numbers is transitive.
LEMMA NatTransitive ==
    ASSUME NEW l \in Nat, NEW m \in Nat, NEW n \in Nat, l <= m, m <= n
    PROVE  l <= n
BY SMT

\* Authorities are counted.
LEMMA ObservedAuthority ==
    ASSUME NEW o \in Observation
    PROVE  o.authority \in Nat
BY Zenon DEF Observation

\* A publication carries the authority of its observation.
LEMMA PublishedFacts ==
    ASSUME NEW p \in Projection \cup {None}, NEW o \in Observation,
           NEW view \in Facets, NEW b \in BOOLEAN
    PROVE  /\ Published(p, o, view, b) \in Projection
           /\ Published(p, o, view, b).authority = o.authority
<1> DEFINE n == IF p = None THEN 1
                ELSE IF p.view # view \/ p.reconciling # b
                THEN p.revision + 1 ELSE p.revision
<1>1. Published(p, o, view, b) = [revision |-> n, authority |-> o.authority,
                                  reconciling |-> b, view |-> view]
  BY DEF Published
<1>2. n \in Nat /\ o.authority \in Nat
  BY DEF Projection, Observation
<1> DEFINE a == o.authority
<1> HIDE DEF n, a
<1>3. [revision |-> n, authority |-> a, reconciling |-> b, view |-> view]
          \in Projection
  BY <1>2, Zenon DEF Projection, a
<1>4. [revision |-> n, authority |-> a, reconciling |-> b,
       view |-> view].authority = a
  OBVIOUS
<1> QED
  BY <1>1, <1>3, <1>4 DEF a

\* Republishing changes the revision only.
LEMMA BumpedFacts ==
    ASSUME NEW p \in Projection \cup {None}
    PROVE  /\ Bumped(p) \in Projection \cup {None}
           /\ (Bumped(p) = None) <=> (p = None)
           /\ p # None => Bumped(p).authority = p.authority
<1>1. CASE p = None
  BY <1>1 DEF Bumped
<1>2. CASE p # None
  <2>1. p \in Projection /\ p.revision + 1 \in Nat
    BY <1>2 DEF Projection
  <2> DEFINE n == p.revision + 1
  <2>2. Bumped(p) = [p EXCEPT !.revision = n]
    BY <1>2 DEF Bumped
  <2> HIDE DEF n
  <2>3. [p EXCEPT !.revision = n] \in Projection
    BY <2>1, Zenon DEF n, Projection
  <2>4. [p EXCEPT !.revision = n].authority = p.authority
    BY <2>1 DEF Projection
  <2> QED
    BY <1>2, <2>2, <2>3, <2>4, ConstantsAssumption
<1> QED
  BY <1>1, <1>2

\* A step under the selection gate that draws a new observation.
HoldsSelection(c, k) ==
    /\ call[c].guard = {} /\ k.guard = {} /\ k.realm = call[c].realm
    /\ selGate = c /\ selGate' = IF k.pc = "admit" THEN c ELSE None
    /\ call[c].pc \in SelHeld \ {"pin", "unpin", "cancelling"}
    /\ k.pc \in {"admit", "done"}
    /\ UNCHANGED <<network, selection, coord, worker, opGate>>

Observes(k, r) ==
    /\ k.pc = "admit" => k.realm = r /\ k.token = observed'[r]
    /\ observed' = [observed EXCEPT ![r] = NewObservation(@)]
    /\ projection' \in [Realms -> Projection \cup {None}]
    /\ \A x \in Realms : projection[x] # None => projection'[x] # None
    /\ \A x \in Realms : projection'[x] # None =>
           projection'[x].authority <= observed'[x].authority

\* A step that begins or publishes an observation.
LEMMA ObservingStep ==
    ASSUME IInv, NEW c \in Calls, NEW k \in Call, Move(c, k), CallFacts(k),
           HoldsSelection(c, k), NEW r \in Realms, Observes(k, r)
    PROVE  IInv'
<1>1. Moved(c, k)
  BY Zenon, MoveMoved DEF IInv, TypeOK
<1>2. /\ observed' \in [Realms -> Observation]
      /\ \A x \in Realms : observed'[x].authority = observed[x].authority
  <2>1. observed \in [Realms -> Observation]
    BY Zenon DEF IInv, TypeOK
  <2>2. observed' = [observed EXCEPT ![r] = NewObservation(@)]
    BY Zenon DEF Observes
  <2> QED
    BY SMT, <2>1, <2>2, ObservationFacts
<1>3. TypeOK'
  BY Zenon, <1>1, <1>2, ConstantsAssumption
  DEF IInv, TypeOK, Moved, HoldsSelection, Observes
<1>4. call[c].realm = network /\ selection = network
  BY Zenon DEF IInv, SelInv, HoldsSelection
<1>5. opGate # c
  BY SMT DEF IInv, GateInv, SelHeld, OpHeld, HoldsSelection
<1>6. CallInv' /\ GateInv'
  <2>1. /\ "admit" \in SelHeld /\ "done" \notin SelHeld
        /\ "admit" \notin OpHeld /\ "done" \notin OpHeld /\ "admit" # "done"
    BY SMT DEF SelHeld, OpHeld
  <2> QED
    BY Zenon, <1>1, <1>5, <2>1, ConstantsAssumption, ControlMove
    DEF HoldsSelection
<1>7. SelInv'
  BY Zenon, <1>1, <1>4, SelMove DEF HoldsSelection
<1>8. LeaseInv'
  BY Zenon, <1>1, <1>2, <1>3, QuietLease
  DEF IInv, SameGuard, HoldsSelection, Observes
<1>9. TokenInv'
  <2>1. \A d \in Calls : d # c => call'[d].pc # "admit"
    BY Zenon, <1>1 DEF IInv, GateInv, SelHeld, Moved, HoldsSelection
  <2> QED
    BY Zenon, <1>1, <2>1 DEF TokenInv, Moved, Observes
<1>10. StartInv'
  BY Zenon, <1>1 DEF IInv, StartInv, Moved, HoldsSelection
<1>11. ProjInv'
  BY Zenon DEF ProjInv, Observes
<1>12. RetiredWorkersStopped'
  BY Zenon, <1>1, RetiredKept DEF HoldsSelection
<1> QED
  BY Zenon, <1>3, <1>6, <1>7, <1>8, <1>9, <1>10, <1>11, <1>12 DEF IInv

\* A call takes the token of its observation.
LEMMA BeginObservationStep ==
    ASSUME IInv, NEW c \in Calls, BeginObservation(c)
    PROVE  IInv'
<1> DEFINE r == call[c].realm
<1> DEFINE k == [call[c] EXCEPT !.pc = "admit",
                                !.token = NewObservation(observed[r])]
<1>1. call \in [Calls -> Call] /\ call[c] \in Call
  BY DEF IInv, TypeOK
<1>2. CallFacts(call[c]) /\ call[c].pc = "observe" /\ selGate = c
  BY DEF IInv, CallInv, GateInv, SelHeld, BeginObservation
<1>3. r \in Realms
  BY <1>2 DEF CallFacts
<1>4. observed[r] \in Observation /\ NewObservation(observed[r]) \in Observation
  BY <1>3, ObservationFacts DEF IInv, TypeOK
<1>5. k \in Call
  BY ZenonT(60), <1>1, <1>4 DEF Call
<1>6. /\ k.pc = "admit" /\ k.realm = r /\ k.guard = call[c].guard
      /\ k.token = NewObservation(observed[r])
      /\ k.kind = call[c].kind /\ k.trigger = call[c].trigger
  BY <1>1 DEF Call
<1>7. /\ Move(c, k)
      /\ observed' = [observed EXCEPT ![r] = NewObservation(@)]
      /\ UNCHANGED <<network, selection, coord, projection, worker, selGate,
                     opGate>>
  BY DEF BeginObservation
<1>8. observed'[r] = NewObservation(observed[r])
  BY <1>3, <1>7 DEF IInv, TypeOK
<1> HIDE DEF k
<1>9. CallFacts(k) /\ call[c].guard = {}
  BY <1>2, <1>6 DEF CallFacts, Running
<1>10. \A x \in Realms : observed'[x].authority = observed[x].authority
  BY <1>3, <1>7, ObservationFacts DEF IInv, TypeOK
<1>11. \A x \in Realms : projection'[x] # None =>
           projection'[x].authority <= observed'[x].authority
  BY <1>7, <1>10 DEF IInv, ProjInv
<1> HIDE DEF r
<1> QED
  <2>1. HoldsSelection(c, k)
    BY Zenon, <1>2, <1>6, <1>7, <1>9 DEF HoldsSelection, SelHeld, r
  <2>2. Observes(k, r)
    BY Zenon, <1>6, <1>7, <1>8, <1>11 DEF Observes, IInv, TypeOK
  <2> QED
    BY Zenon, <1>3, <1>5, <1>7, <1>9, <2>1, <2>2, ObservingStep

\* A cancel publishes.
LEMMA PublishCancelledStep ==
    ASSUME IInv, NEW c \in Calls, NEW view \in [Families -> PortFacets],
           PublishCancelled(c, view)
    PROVE  IInv'
<1> DEFINE r == call[c].realm
<1> DEFINE k == [call[c] EXCEPT !.pc = "done"]
<1> DEFINE b == coord[r].leases # {}
<1> DEFINE o == NewObservation(observed[r])
<1>1. call \in [Calls -> Call] /\ call[c] \in Call
  BY DEF IInv, TypeOK
<1>2. CallFacts(call[c]) /\ call[c].pc = "publish" /\ selGate = c
  BY Zenon DEF IInv, CallInv, GateInv, SelHeld, PublishCancelled
<1>3. r \in Realms /\ view \in Facets
  BY <1>2, ConstantsAssumption DEF CallFacts, Facets
<1>4. /\ observed[r] \in Observation
      /\ o \in Observation /\ o.authority = observed[r].authority
  BY <1>3, ObservationFacts DEF IInv, TypeOK
<1>5. k \in Call
  BY <1>1 DEF Call
<1>6. /\ k.pc = "done" /\ k.realm = r /\ k.guard = call[c].guard
      /\ k.kind = call[c].kind /\ k.trigger = call[c].trigger
  BY <1>1 DEF Call
<1>7. /\ Move(c, k)
      /\ observed' = [observed EXCEPT ![r] = NewObservation(@)]
      /\ projection' = [projection EXCEPT ![r] = Published(@, o, view, b)]
      /\ selGate' = None
      /\ UNCHANGED <<network, selection, coord, worker, opGate>>
  BY DEF PublishCancelled
<1>8. observed'[r] = o
  BY Zenon, <1>3, <1>7 DEF IInv, TypeOK
<1> HIDE DEF k, o, b
<1>9. CallFacts(k) /\ call[c].guard = {}
  BY SMTT(60), <1>2, <1>6 DEF CallFacts, Running
<1>10. /\ Published(projection[r], o, view, b) \in Projection
       /\ Published(projection[r], o, view, b).authority = o.authority
  <2>1. b \in BOOLEAN
    BY DEF b
  <2> QED
    BY ZenonT(60), <1>3, <1>4, <2>1, PublishedFacts DEF IInv, TypeOK
<1>11. projection' \in [Realms -> Projection \cup {None}]
  BY Zenon, <1>3, <1>7, <1>10 DEF IInv, TypeOK
<1>12. projection'[r] = Published(projection[r], o, view, b)
       /\ \A x \in Realms : x # r => /\ projection'[x] = projection[x]
                                     /\ observed'[x] = observed[x]
  BY <1>3, <1>7 DEF IInv, TypeOK
<1>13. projection'[r] # None
  BY <1>10, <1>12, ConstantsAssumption
<1>14. \A x \in Realms : projection'[x] # None =>
           projection'[x].authority <= observed'[x].authority
  BY <1>4, <1>8, <1>10, <1>12 DEF IInv, ProjInv, Observation
<1> HIDE DEF r
<1> QED
  <2>1. HoldsSelection(c, k)
    BY Zenon, <1>2, <1>6, <1>7, <1>9 DEF HoldsSelection, SelHeld, r
  <2>2. Observes(k, r)
    BY Zenon, <1>6, <1>7, <1>11, <1>12, <1>13, <1>14 DEF Observes
  <2> QED
    BY Zenon, <1>3, <1>5, <1>7, <1>9, <2>1, <2>2, ObservingStep

\* A token that is at most as new as an authority is older than a newer one.
LEMMA Overtaken ==
    ASSUME NEW a \in Nat, NEW b \in Nat, NEW m \in Nat, a <= b, b < m
    PROVE  a # m
  BY SMT

\* Invalidation: each realm either keeps its coordinator and authority or
\* loses its leases and gets a new authority, and no lease is left outside
\* the realm that is selected afterwards.
Invalidates(X) ==
    /\ coord' \in [Realms -> Coordinator]
    /\ observed' = [x \in Realms |-> IF x \in X
                       THEN NewAuthority(observed[x]) ELSE observed[x]]
    /\ projection' = [x \in Realms |-> IF x \in X
                         THEN Bumped(projection[x]) ELSE projection[x]]
    /\ \A x \in Realms : IF coord[x].leases = {} THEN coord'[x] = coord[x]
                         ELSE coord'[x] = Cancel(coord[x])
    /\ \A x \in Realms : coord[x].leases # {} => x \in X

TakesBothGates(c, k) ==
    /\ call[c].guard = {} /\ k.guard = {} /\ k.realm = call[c].realm
    /\ selGate = c /\ selGate' = c /\ opGate = None /\ opGate' = c
    /\ call[c].pc \in {"pin", "cancel"} /\ k.pc \in {"unpin", "cancelling"}
    /\ UNCHANGED <<network, worker>> /\ selection' = call[c].realm

\* A counter that is kept or moves on.
LEMMA Successor ==
  ASSUME NEW a \in Nat, NEW b \in Nat
  PROVE  (b = a + 1 => a <= b /\ a < b) /\ (b = a => a <= b)
BY SMT

\* A step under both gates that ends every lease of some realms.
LEMMA InvalidatingStep ==
    ASSUME IInv, NEW c \in Calls, NEW k \in Call, Move(c, k), CallFacts(k),
           TakesBothGates(c, k), NEW X \in SUBSET Realms, Invalidates(X),
           RetiredWorkersStopped'
    PROVE  IInv'
<1>1. Moved(c, k)
  BY Zenon, MoveMoved DEF IInv, TypeOK
<1>2. /\ observed' \in [Realms -> Observation]
      /\ \A x \in X : observed'[x].authority = observed[x].authority + 1
      /\ \A x \in Realms \ X : observed'[x] = observed[x]
  <2>1. observed \in [Realms -> Observation]
    BY Zenon DEF IInv, TypeOK
  <2>2. observed' = [x \in Realms |-> IF x \in X
                        THEN NewAuthority(observed[x]) ELSE observed[x]]
    BY ZenonT(60) DEF Invalidates
  <2> QED
    BY SMT, <2>1, <2>2, ObservationFacts
<1>19. ASSUME NEW x \in Realms
       PROVE  /\ observed[x].authority \in Nat
              /\ observed'[x].authority \in Nat
              /\ observed[x].authority <= observed'[x].authority
              /\ x \in X => observed[x].authority < observed'[x].authority
  <2>1. observed[x].authority \in Nat /\ observed'[x].authority \in Nat
    <3>1. observed[x] \in Observation /\ observed'[x] \in Observation
      BY Zenon, <1>2 DEF IInv, TypeOK
    <3> QED
      BY Zenon, <3>1, ObservedAuthority
  <2>2. observed'[x].authority = IF x \in X THEN observed[x].authority + 1
                                 ELSE observed[x].authority
    BY Zenon, <1>2
  <2> QED
    BY Zenon, <2>1, <2>2, Successor
<1>3. /\ projection' \in [Realms -> Projection \cup {None}]
      /\ \A x \in Realms : (projection'[x] = None) <=> (projection[x] = None)
      /\ \A x \in Realms : projection[x] # None =>
             projection'[x].authority = projection[x].authority
  <2>1. projection \in [Realms -> Projection \cup {None}]
    BY Zenon DEF IInv, TypeOK
  <2>2. projection' = [x \in Realms |-> IF x \in X
                          THEN Bumped(projection[x]) ELSE projection[x]]
    BY Zenon DEF Invalidates
  <2> QED
    BY SMT, <2>1, <2>2, BumpedFacts
<1>4. k.realm = network /\ network \in Realms
  BY Zenon DEF IInv, SelInv, SelHeld, TypeOK, TakesBothGates
<1>5. TypeOK'
  BY Zenon, <1>1, <1>2, <1>3, <1>4
  DEF IInv, TypeOK, Moved, TakesBothGates, Invalidates
<1>6. CallInv' /\ GateInv'
  BY Zenon, <1>1, ControlMove DEF SelHeld, OpHeld, TakesBothGates
<1>7. SelInv'
  BY ZenonT(60), <1>1, <1>4, ConstantsAssumption
  DEF IInv, GateInv, SelInv, SelHeld, Moved, TakesBothGates
<1>8. \A x \in Realms : /\ CoordFacts(coord'[x])
                        /\ coord'[x].leases = {}
                        /\ coord'[x].known = coord[x].known
                        /\ coord[x].revision <= coord'[x].revision
  <2> TAKE x \in Realms
  <2>1. coord[x] \in Coordinator /\ CoordFacts(coord[x])
    BY Zenon DEF IInv, TypeOK, LeaseInv, CoordInv
  <2>2. IF coord[x].leases = {} THEN coord'[x] = coord[x]
        ELSE coord'[x] = Cancel(coord[x])
    BY Zenon DEF Invalidates
  <2> QED
    BY SMT, <2>1, <2>2, CancelFacts DEF Coordinator
<1>9. CoordInv'
  BY Zenon, <1>8 DEF CoordInv, CoordFacts
<1>10. \A d \in Calls : /\ call'[d].guard = call[d].guard
                        /\ call'[d].realm = call[d].realm
                        /\ call'[d].guard # {} =>
                             call'[d].token = call[d].token
  BY Zenon, <1>1 DEF Moved, TakesBothGates
<1>11. \A d \in Calls : call[d].guard # {} => call[d].realm \in Realms
  BY ZenonT(60) DEF IInv, CallInv, CallFacts, Running
<1>12. GuardInv'
  <2> SUFFICES ASSUME NEW d \in Calls, NEW e \in call[d].guard
               PROVE  LET x == call[d].realm
                      IN /\ e.revision <= coord'[x].revision
                         /\ coord'[x].known
                         /\ call[d].token.authority <= observed'[x].authority
    BY ZenonT(60), <1>10 DEF GuardInv
  <2> DEFINE x == call[d].realm
  <2>1. /\ e.revision <= coord[x].revision /\ coord[x].known
        /\ call[d].token.authority <= observed[x].authority
    BY Zenon DEF IInv, LeaseInv, GuardInv
  <2>2. x \in Realms
    BY Zenon, <1>11
  <2>3. /\ e.revision \in Nat /\ coord[x].revision \in Nat
        /\ coord'[x].revision \in Nat /\ observed[x].authority \in Nat
        /\ call[d].token.authority \in Nat
    <3>1. /\ call[d] \in Call /\ coord[x] \in Coordinator
          /\ coord'[x] \in Coordinator
      BY Zenon, <2>2 DEF IInv, TypeOK, Invalidates
    <3>2. observed[x].authority \in Nat
      BY Zenon, <1>19, <2>2
    <3> HIDE DEF x
    <3> QED
      BY SMT, <3>1, <3>2 DEF Call, Effect, Coordinator, Observation
  <2>4. observed[x].authority <= observed'[x].authority
    BY Zenon, <1>19, <2>2
  <2>5. observed'[x].authority \in Nat
    BY Zenon, <1>19, <2>2
  <2> HIDE DEF x
  <2>6. e.revision <= coord'[x].revision
    <3>1. coord[x].revision <= coord'[x].revision
      BY Zenon, <1>8, <2>2
    <3>2. /\ e.revision \in Nat /\ coord[x].revision \in Nat
          /\ coord'[x].revision \in Nat /\ e.revision <= coord[x].revision
      BY Zenon, <2>1, <2>3
    <3> QED
      BY ZenonT(60), <3>1, <3>2, NatTransitive
  <2>7. call[d].token.authority <= observed'[x].authority
    <3>1. /\ call[d].token.authority \in Nat /\ observed[x].authority \in Nat
          /\ call[d].token.authority <= observed[x].authority
      BY Zenon, <2>1, <2>3
    <3> QED
      BY ZenonT(60), <2>4, <2>5, <3>1, NatTransitive
  <2>8. coord'[x].known
    BY Zenon, <1>8, <2>1, <2>2
  <2> QED
    BY Zenon, <2>6, <2>7, <2>8 DEF x
<1>13. UniqueInv'
  BY ZenonT(60), <1>10 DEF IInv, LeaseInv, UniqueInv
<1>14. HeldInv'
  BY Zenon, <1>8 DEF HeldInv
<1>15. FencesAgree'
  <2> SUFFICES ASSUME NEW d \in Calls, NEW e \in call[d].guard
               PROVE  call[d].token.authority
                        # observed'[call[d].realm].authority
    BY ZenonT(60), <1>8, <1>10, <1>11 DEF FencesAgree, Accepts
  <2> DEFINE x == call[d].realm
  <2>1. x \in Realms
    BY Zenon, <1>11
  <2>2. call[d].token.authority <= observed[x].authority
    BY Zenon DEF IInv, LeaseInv, GuardInv
  <2>3. call[d].token.authority \in Nat
    <3>1. call[d] \in Call
      BY Zenon DEF IInv, TypeOK
    <3> QED
      BY SMT, <3>1 DEF Call, Observation
  <2>4. CASE x \in X
    <3>1. /\ observed[x].authority < observed'[x].authority
          /\ observed[x].authority \in Nat /\ observed'[x].authority \in Nat
      BY Zenon, <1>19, <2>1, <2>4
    <3> QED
      BY Zenon, <2>2, <2>3, <3>1, Overtaken
  <2>5. CASE x \notin X
    <3>1. coord[x].leases = {} /\ observed'[x] = observed[x]
      BY Zenon, <1>2, <2>1, <2>5 DEF Invalidates
    <3>2. ~Accepts(coord[x], e)
      BY Zenon, <3>1 DEF Accepts
    <3> QED
      BY Zenon, <3>1, <3>2 DEF IInv, LeaseInv, FencesAgree
  <2> QED
    BY Zenon, <2>4, <2>5
<1>16. TokenInv'
  BY Zenon, <1>1 DEF IInv, GateInv, SelHeld, TokenInv, Moved, TakesBothGates
<1>17. StartInv'
  BY Zenon, <1>1, ConstantsAssumption
  DEF IInv, GateInv, OpHeld, StartInv, Moved, TakesBothGates
<1>18. ProjInv'
  <2> SUFFICES ASSUME NEW x \in Realms, projection'[x] # None
               PROVE  projection'[x].authority <= observed'[x].authority
    BY Zenon DEF ProjInv
  <2>1. /\ projection[x].authority <= observed[x].authority
        /\ projection'[x].authority = projection[x].authority
        /\ projection[x] \in Projection /\ observed[x] \in Observation
    BY Zenon, <1>3 DEF IInv, ProjInv, TypeOK
  <2>2. projection[x].authority \in Nat
    BY SMT, <2>1 DEF Projection
  <2>3. /\ observed[x].authority \in Nat /\ observed'[x].authority \in Nat
        /\ observed[x].authority <= observed'[x].authority
    BY Zenon, <1>19
  <2> QED
    BY SMT, <2>1, <2>2, <2>3
<1> QED
  BY Zenon, <1>5, <1>6, <1>7, <1>9, <1>12, <1>13, <1>14, <1>15, <1>16, <1>17, <1>18
  DEF IInv, LeaseInv

\* The registry pins the wallet's network.
LEMMA PinStep ==
    ASSUME IInv, NEW c \in Calls, Pin(c)
    PROVE  IInv'
<1> DEFINE r == call[c].realm
<1> DEFINE switch == selection \notin {r, None}
<1> DEFINE k == [call[c] EXCEPT !.pc = "unpin",
                    !.retired = IF switch THEN selection ELSE None]
<1>1. call \in [Calls -> Call] /\ call[c] \in Call
      /\ selection \in Realms \cup {None}
  BY DEF IInv, TypeOK
<1>2. CallFacts(call[c]) /\ call[c].pc = "pin" /\ selGate = c
  BY DEF IInv, CallInv, GateInv, SelHeld, Pin
<1>3. r \in Realms /\ r = network
  BY <1>2 DEF CallFacts, IInv, SelInv, SelHeld
<1>4. k \in Call
  BY ZenonT(60), <1>1 DEF Call
<1>5. /\ k.pc = "unpin" /\ k.realm = r /\ k.guard = call[c].guard
      /\ k.kind = call[c].kind /\ k.trigger = call[c].trigger
      /\ k.retired = IF switch THEN selection ELSE None
  BY <1>1 DEF Call
<1>6. /\ Move(c, k) /\ opGate = None /\ opGate' = c /\ selection' = r
      /\ UNCHANGED <<network, worker, selGate>>
  BY DEF Pin
<1>7. CallFacts(k) /\ call[c].guard = {}
  BY <1>2, <1>5 DEF CallFacts, Running
<1>8. Moved(c, k)
  BY <1>1, <1>4, <1>6, MoveMoved
<1>9. RetiredWorkersStopped'
  <2> SUFFICES ASSUME NEW x \in Realms, worker[x] # {}
               PROVE  x = r \/ (call'[c].pc = "unpin" /\ call'[c].retired = x)
    BY <1>6 DEF RetiredWorkersStopped
  <2>1. x = selection
    BY <1>6, ConstantsAssumption
    DEF IInv, RetiredWorkersStopped, GateInv, OpHeld
  <2> QED
    BY <1>5, <1>8, <2>1, ConstantsAssumption DEF Moved
<1>10. CASE switch
  <2> DEFINE X == {selection, r}
  <2>1. selection \in Realms
    BY <1>1, <1>10
  <2>2. X \in SUBSET Realms
    BY <1>3, <2>1
  <2>3. /\ coord' = [coord EXCEPT ![selection] = Cancel(@)]
        /\ observed' = [x \in Realms |-> IF x \in X
                           THEN NewAuthority(observed[x]) ELSE observed[x]]
        /\ projection' = [x \in Realms |-> IF x \in X
                             THEN Bumped(projection[x]) ELSE projection[x]]
    BY <1>10 DEF Pin
  <2>4. \A x \in Realms : coord[x].leases # {} => x = selection
    BY DEF IInv, LeaseInv, CoordInv
  <2>5. coord[selection] \in Coordinator /\ CoordFacts(coord[selection])
    BY ZenonT(60), <2>1 DEF IInv, TypeOK, LeaseInv, CoordInv
  <2>6. Cancel(coord[selection]) \in Coordinator
    BY ZenonT(60), <2>5, CancelFacts
  <2>7. coord' \in [Realms -> Coordinator]
    BY SMTT(60), <2>1, <2>3, <2>6 DEF IInv, TypeOK
  <2>8. \A x \in Realms : IF coord[x].leases = {} THEN coord'[x] = coord[x]
                          ELSE coord'[x] = Cancel(coord[x])
    <3> TAKE x \in Realms
    <3>1. CASE x = selection
      BY Zenon, <2>1, <2>3, <3>1 DEF Cancel, IInv, TypeOK
    <3>2. CASE x # selection
      BY <2>1, <2>3, <2>4, <3>2 DEF IInv, TypeOK
    <3> QED
      BY SMTT(60), <3>1, <3>2
  <2>9. \A x \in Realms : coord[x].leases # {} => x \in X
    BY <2>4
  <2> HIDE DEF k, r, X, switch
  <2> QED
    <3>1. TakesBothGates(c, k)
      BY Zenon, <1>2, <1>5, <1>6, <1>7 DEF TakesBothGates, r
    <3>2. Invalidates(X)
      BY Zenon, <2>3, <2>7, <2>8, <2>9 DEF Invalidates
    <3> QED
      BY Zenon, <1>4, <1>6, <1>7, <1>9, <2>2, <3>1, <3>2, InvalidatingStep
<1>11. CASE ~switch
  <2>1. UNCHANGED <<coord, observed, projection>>
    BY <1>11 DEF Pin, IInv, TypeOK
  <2>2. \A x \in Realms : coord[x].leases # {} => selection' = selection
    BY <1>6, <1>11, ConstantsAssumption DEF IInv, LeaseInv, CoordInv
  <2> HIDE DEF k, r, switch
  <2>3. TypeOK'
    BY SMTT(60), <1>3, <1>6, <1>8, <2>1 DEF IInv, TypeOK, Moved
  <2>4. CallInv' /\ GateInv'
    BY Zenon, <1>2, <1>5, <1>6, <1>7, <1>8, ControlMove DEF SelHeld, OpHeld
  <2>5. SelInv'
    BY ZenonT(60), <1>2, <1>3, <1>5, <1>6, <1>8, ConstantsAssumption
    DEF IInv, GateInv, SelInv, SelHeld, Moved
  <2>6. SameGuard(call[c], k)
    BY <1>5, <1>7 DEF SameGuard
  <2>7. LeaseInv'
    BY ZenonT(60), <1>8, <2>1, <2>2, <2>3, <2>6, QuietLease DEF IInv
  <2>8. TokenInv' /\ StartInv' /\ ProjInv'
    BY SMTT(60), <1>5, <1>8, <2>1 DEF IInv, TokenInv, StartInv, ProjInv, Moved
  <2> QED
    BY <1>9, <2>3, <2>4, <2>5, <2>7, <2>8 DEF IInv
<1> QED
  BY <1>10, <1>11

\* A cancel ends the leases of every realm.
LEMMA CancelProfileStep ==
    ASSUME IInv, NEW c \in Calls, CancelProfile(c)
    PROVE  IInv'
<1> DEFINE k == [call[c] EXCEPT !.pc = "cancelling"]
<1> DEFINE X == {x \in Realms : coord[x].known}
<1>1. call \in [Calls -> Call] /\ call[c] \in Call
  BY DEF IInv, TypeOK
<1>2. CallFacts(call[c]) /\ call[c].pc = "cancel" /\ selGate = c
  BY SMTT(60) DEF IInv, CallInv, GateInv, SelHeld, CancelProfile
<1>3. selection = call[c].realm
  BY <1>2 DEF IInv, SelInv, SelHeld
<1>4. k \in Call
  BY <1>1 DEF Call
<1>5. /\ k.pc = "cancelling" /\ k.realm = call[c].realm
      /\ k.guard = call[c].guard
      /\ k.kind = call[c].kind /\ k.trigger = call[c].trigger
  BY <1>1 DEF Call
<1>6. /\ Move(c, k) /\ opGate = None /\ opGate' = c
      /\ UNCHANGED <<network, selection, worker, selGate>>
      /\ coord' = [x \in Realms |->
             IF coord[x].known THEN Cancel(coord[x]) ELSE coord[x]]
  BY DEF CancelProfile
<1>7. CallFacts(k) /\ call[c].guard = {}
  BY <1>2, <1>5 DEF CallFacts, Running
<1>8. Moved(c, k)
  BY <1>1, <1>4, <1>6, MoveMoved
<1>9. RetiredWorkersStopped'
  BY ZenonT(60), <1>2, <1>6, <1>8, RetiredKept
<1>10. \A x \in Realms : /\ coord[x] \in Coordinator /\ CoordFacts(coord[x])
                         /\ Cancel(coord[x]) \in Coordinator
  BY CancelFacts DEF IInv, TypeOK, LeaseInv, CoordInv
<1>11. coord' \in [Realms -> Coordinator]
  BY SMTT(60), <1>6, <1>10
<1>12. \A x \in Realms : IF coord[x].leases = {} THEN coord'[x] = coord[x]
                         ELSE coord'[x] = Cancel(coord[x])
  BY ZenonT(60), <1>6, <1>10 DEF Cancel, CoordFacts
<1>13. \A x \in Realms : coord[x].leases # {} => x \in X
  BY <1>10 DEF CoordFacts
<1>14. /\ observed' = [x \in Realms |-> IF x \in X
                          THEN NewAuthority(observed[x]) ELSE observed[x]]
       /\ projection' = [x \in Realms |-> IF x \in X
                            THEN Bumped(projection[x]) ELSE projection[x]]
  BY DEF CancelProfile
<1> HIDE DEF k
<1>15. X \in SUBSET Realms
  OBVIOUS
<1> HIDE DEF X
<1>16. TakesBothGates(c, k)
  BY Zenon, <1>2, <1>3, <1>5, <1>6, <1>7 DEF TakesBothGates
<1>17. Invalidates(X)
  BY Zenon, <1>11, <1>12, <1>13, <1>14 DEF Invalidates
<1> QED
  BY Zenon, <1>4, <1>6, <1>7, <1>9, <1>15, <1>16, <1>17, InvalidatingStep

-----------------------------------------------------------------------------
(***************************************************************************)
(* The steps of a call that change the coordinator of its realm            *)
(***************************************************************************)
\* A call goes from j to k and the coordinator of its realm from s to t: the
\* effects of k are accepted and new where they are not of j, the effects of
\* other calls stay accepted or not, and every lease of t is held by k or is
\* one of s that j does not hold.
Handover(j, k, s, t) ==
    /\ t \in Coordinator /\ CoordFacts(t) /\ t.known
    /\ s.revision <= t.revision
    /\ \A e \in k.guard : /\ Accepts(t, e)
                          /\ e \in j.guard \/ e.revision > s.revision
    /\ \A e \in Effect : e \notin j.guard /\ Accepts(s, e) => Accepts(t, e)
    /\ \A e \in Effect : e.revision <= s.revision /\ Accepts(t, e) =>
                             Accepts(s, e)
    /\ \A f \in t.leases :
           \/ [revision |-> t.revision, kind |-> f] \in k.guard
           \/ /\ t.revision = s.revision
              /\ f \in s.leases
              /\ [revision |-> t.revision, kind |-> f] \notin j.guard

\* What is published stays published, under no authority still to come, and
\* no authority changes.
Republished ==
    /\ observed' \in [Realms -> Observation]
    /\ projection' \in [Realms -> Projection \cup {None}]
    /\ \A x \in Realms : observed'[x].authority = observed[x].authority
    /\ \A x \in Realms : projection[x] # None => projection'[x] # None
    /\ \A x \in Realms : projection'[x] # None =>
           projection'[x].authority <= observed'[x].authority

\* A step that hands leases of one realm over to, or back from, one call.
LEMMA RealmLease ==
    ASSUME IInv, TypeOK', NEW c \in Calls, NEW k \in Call, Moved(c, k),
           NEW r \in Realms, call[c].realm = r, k.realm = r,
           NEW s, s = coord[r], NEW t, coord' = [coord EXCEPT ![r] = t],
           Handover(call[c], k, s, t),
           k.guard # {} => k.token.authority = observed[r].authority,
           t.leases # {} => r = selection /\ projection'[r] # None,
           Republished, UNCHANGED selection
    PROVE  LeaseInv'
<1>a. /\ t \in Coordinator /\ CoordFacts(t) /\ t.known
      /\ s.revision <= t.revision
  BY Zenon DEF Handover
<1>b. \A e \in k.guard : /\ Accepts(t, e)
                         /\ e \in call[c].guard \/ e.revision > s.revision
  BY Zenon DEF Handover
<1>c. /\ \A x \in Realms : observed'[x].authority = observed[x].authority
      /\ \A x \in Realms : projection[x] # None => projection'[x] # None
  BY Zenon DEF Republished
<1>1. /\ coord'[r] = t
      /\ \A x \in Realms : x # r => coord'[x] = coord[x]
  BY DEF IInv, TypeOK
<1>2. /\ call'[c] = k
      /\ \A d \in Calls : d # c => call'[d] = call[d]
  BY Zenon DEF Moved
<1>3. /\ s \in Coordinator /\ s.revision \in Nat /\ t.revision \in Nat
      /\ \A x \in Realms : observed[x].authority \in Nat
      /\ \A d \in Calls : /\ call[d].guard \subseteq Effect
                          /\ call[d].token.authority \in Nat
      /\ k.guard \subseteq Effect
  BY Zenon, <1>a DEF IInv, TypeOK, Coordinator, Observation, Call
<1>4. \A d \in Calls : call[d].guard # {} => call[d].realm \in Realms
  BY ZenonT(60) DEF IInv, CallInv, CallFacts, Running
<1>5. CoordInv'
  <2> SUFFICES ASSUME NEW x \in Realms
               PROVE  /\ CoordFacts(coord'[x])
                      /\ coord'[x].leases # {} =>
                            x = selection /\ projection'[x] # None
    BY Zenon DEF CoordInv, CoordFacts
  <2>1. CASE x = r
    BY Zenon, <1>a, <1>1, <2>1
  <2>2. CASE x # r
    BY ZenonT(60), <1>c, <1>1, <2>2 DEF IInv, LeaseInv, CoordInv
  <2> QED
    BY ZenonT(60), <2>1, <2>2
<1>6. GuardInv'
  <2> SUFFICES ASSUME NEW d \in Calls, NEW e \in call'[d].guard
               PROVE  LET x == call'[d].realm
                      IN /\ e.revision <= coord'[x].revision
                         /\ coord'[x].known
                         /\ call'[d].token.authority <= observed'[x].authority
    BY Zenon DEF GuardInv
  <2>1. CASE d = c
    <3>1. /\ e \in k.guard /\ e.revision = t.revision
          /\ k.token.authority = observed[r].authority
      BY Zenon, <1>b, <1>2, <2>1 DEF Accepts
    <3>2. e.revision <= t.revision
      BY Zenon, <1>3, <3>1, NatOrder
    <3>3. k.token.authority <= observed'[r].authority
      BY Zenon, <1>c, <1>3, <3>1, NatOrder
    <3>4. call'[d] = k /\ call'[d].realm = r /\ coord'[r] = t /\ t.known
      BY Zenon, <1>a, <1>1, <1>2, <2>1
    <3> QED
      BY Zenon, <3>2, <3>3, <3>4
  <2>2. CASE d # c
    <3>1. /\ e \in call[d].guard /\ e \in Effect /\ e.revision \in Nat
          /\ call[d].realm \in Realms
      <4>1. e \in call[d].guard /\ e \in Effect /\ call[d].realm \in Realms
        BY Zenon, <1>2, <1>3, <1>4, <2>2
      <4> QED
        BY Zenon, <4>1 DEF Effect
    <3>2. /\ e.revision <= coord[call[d].realm].revision
          /\ coord[call[d].realm].known
          /\ call[d].token.authority <= observed[call[d].realm].authority
      BY Zenon, <3>1 DEF IInv, LeaseInv, GuardInv
    <3>3. CASE call[d].realm = r
      <4>1. e.revision <= t.revision
        BY Zenon, <1>a, <1>3, <3>1, <3>2, <3>3, NatOrder
      <4>2. call[d].token.authority <= observed'[r].authority
        BY Zenon, <1>c, <3>2, <3>3
      <4>3. call'[d] = call[d] /\ coord'[r] = t /\ t.known
        BY Zenon, <1>a, <1>1, <1>2, <2>2
      <4> QED
        BY Zenon, <3>3, <4>1, <4>2, <4>3
    <3>4. CASE call[d].realm # r
      <4>1. call'[d] = call[d] /\ coord'[call[d].realm] = coord[call[d].realm]
        BY Zenon, <1>1, <1>2, <2>2, <3>1, <3>4
      <4>2. observed'[call[d].realm].authority = observed[call[d].realm].authority
        BY Zenon, <1>c, <3>1
      <4> QED
        BY Zenon, <3>2, <4>1, <4>2
    <3> QED
      BY Zenon, <3>3, <3>4
  <2> QED
    BY <2>1, <2>2
<1>7. UniqueInv'
  <2>1. ASSUME NEW d \in Calls, d # c, call[d].realm = r,
               NEW e \in k.guard, e \in call[d].guard
        PROVE  FALSE
    <3>1. e.revision <= s.revision /\ e.revision \in Nat
      BY <1>3, <2>1 DEF IInv, LeaseInv, GuardInv, Effect
    <3>2. e \in call[c].guard
      BY ZenonT(60), <1>b, <1>3, <2>1, <3>1, NatOrder
    <3> QED
      BY <2>1, <3>2 DEF IInv, LeaseInv, UniqueInv
  <2> QED
    <3>1. UniqueInv
      BY Zenon DEF IInv, LeaseInv
    <3> SUFFICES ASSUME NEW a \in Calls, NEW b \in Calls, a # b,
                        call'[a].realm = call'[b].realm
                 PROVE  call'[a].guard \cap call'[b].guard = {}
      BY Zenon DEF UniqueInv
    <3>2. CASE a # c /\ b # c
      BY ZenonT(60), <1>2, <3>1, <3>2 DEF UniqueInv
    <3>3. CASE a = c
      BY Zenon, <1>2, <2>1, <3>3
    <3>4. CASE b = c
      BY Zenon, <1>2, <2>1, <3>4
    <3> QED
      BY Zenon, <3>2, <3>3, <3>4
<1>8. HeldInv'
  <2> SUFFICES ASSUME NEW x \in Realms, NEW f \in coord'[x].leases
               PROVE  \E d \in Calls :
                        /\ call'[d].realm = x
                        /\ [revision |-> coord'[x].revision, kind |-> f]
                               \in call'[d].guard
    BY Zenon DEF HeldInv
  <2>1. CASE x # r
    <3>1. PICK d \in Calls :
            /\ call[d].realm = x
            /\ [revision |-> coord[x].revision, kind |-> f] \in call[d].guard
      BY Zenon, <1>1, <2>1 DEF IInv, LeaseInv, HeldInv
    <3> QED
      BY Zenon, <1>1, <1>2, <2>1, <3>1
  <2>2. CASE x = r
    <3> DEFINE y == [revision |-> t.revision, kind |-> f]
    <3>1. CASE y \in k.guard
      BY Zenon, <1>1, <1>2, <2>2, <3>1
    <3>2. CASE y \notin k.guard
      <4>1. t.revision = s.revision /\ f \in s.leases /\ y \notin call[c].guard
        BY Zenon, <1>1, <2>2, <3>2 DEF Handover
      <4>2. PICK d \in Calls : call[d].realm = r /\ y \in call[d].guard
        BY Zenon, <4>1 DEF IInv, LeaseInv, HeldInv
      <4> QED
        BY Zenon, <1>1, <1>2, <2>2, <4>1, <4>2
    <3> QED
      BY Zenon, <3>1, <3>2
  <2> QED
    BY Zenon, <2>1, <2>2
<1>9. FencesAgree'
  <2> SUFFICES ASSUME NEW d \in Calls, NEW e \in call'[d].guard
               PROVE  Accepts(coord'[call'[d].realm], e) <=>
                        call'[d].token.authority
                          = observed'[call'[d].realm].authority
    BY Zenon DEF FencesAgree, Accepts
  <2>1. CASE d = c
    <3>1. call'[d] = k /\ call'[d].realm = r /\ coord'[r] = t
      BY Zenon, <1>1, <1>2, <2>1
    <3>2. Accepts(t, e) /\ k.token.authority = observed'[r].authority
      BY Zenon, <1>b, <1>c, <3>1
    <3> QED
      BY Zenon, <3>1, <3>2
  <2>2. CASE d # c
    <3>1. e \in call[d].guard /\ e \in Effect /\ call[d].realm \in Realms
      BY Zenon, <1>2, <1>3, <1>4, <2>2
    <3>2. Accepts(coord[call[d].realm], e) <=>
            call[d].token.authority = observed[call[d].realm].authority
      BY Zenon, <3>1 DEF IInv, LeaseInv, FencesAgree
    <3>3. CASE call[d].realm # r
      BY ZenonT(60), <1>c, <1>1, <1>2, <2>2, <3>1, <3>2, <3>3
    <3>4. CASE call[d].realm = r
      <4>1. e \notin call[c].guard
        BY <2>2, <3>1, <3>4 DEF IInv, LeaseInv, UniqueInv
      <4>2. e.revision <= s.revision
        BY <3>1, <3>4 DEF IInv, LeaseInv, GuardInv
      <4>3. Accepts(s, e) <=> Accepts(t, e)
        BY ZenonT(60), <3>1, <4>1, <4>2 DEF Handover
      <4>4. call'[d] = call[d] /\ coord'[r] = t /\ coord[r] = s
        BY Zenon, <1>1, <1>2, <2>2
      <4>5. observed'[r].authority = observed[r].authority
        BY Zenon, <1>c
      <4> QED
        BY Zenon, <3>2, <3>4, <4>3, <4>4, <4>5
    <3> QED
      BY Zenon, <3>3, <3>4
  <2> QED
    BY Zenon, <2>1, <2>2
<1> QED
  BY Zenon, <1>5, <1>6, <1>7, <1>8, <1>9 DEF LeaseInv

\* Such a step, with the rest of the state.
LEMMA RegistryStep ==
    ASSUME IInv, NEW c \in Calls, NEW k \in Call, Move(c, k), CallFacts(k),
           NEW r \in Realms, call[c].realm = r, k.realm = r,
           call[c].pc \in {"admit", "syncing", "complete"},
           k.pc \in {"run", "done"},
           selGate' = IF call[c].pc = "admit" THEN None ELSE selGate,
           UNCHANGED <<network, selection, worker, opGate>>,
           selGate = None \/ UNCHANGED observed,
           NEW s, s = coord[r], NEW t, coord' = [coord EXCEPT ![r] = t],
           Handover(call[c], k, s, t),
           k.guard # {} => k.token.authority = observed[r].authority,
           t.leases # {} => r = selection /\ projection'[r] # None,
           Republished
    PROVE  IInv'
<1>1. Moved(c, k)
  BY Zenon, MoveMoved DEF IInv, TypeOK
<1>2. TypeOK'
  BY ZenonT(60), <1>1 DEF IInv, TypeOK, Moved, Handover, Republished
<1>3. /\ selGate = c <=> call[c].pc = "admit"
      /\ opGate # c /\ k.pc \notin SelHeld /\ k.pc \notin OpHeld
  BY ZenonT(60) DEF IInv, GateInv, SelHeld, OpHeld
<1>4. CallInv' /\ GateInv'
  BY ZenonT(60), <1>1, <1>3, ConstantsAssumption, ControlMove
<1>5. SelInv'
  <2>1. call[c].pc = "admit" => selection = network
    BY Zenon DEF IInv, SelInv, SelHeld
  <2> QED
    BY ZenonT(60), <1>1, <1>3, <2>1, SelMove
<1>6. LeaseInv'
  BY ZenonT(60), <1>1, <1>2, RealmLease
<1>7. TokenInv'
  <2> SUFFICES ASSUME NEW d \in Calls, call'[d].pc = "admit"
               PROVE  call'[d].token = observed'[call'[d].realm]
    BY Zenon DEF TokenInv
  <2>1. d # c /\ call'[d] = call[d]
    BY Zenon, <1>1 DEF Moved
  <2>2. selGate = d
    BY Zenon, <2>1 DEF IInv, GateInv, SelHeld
  <2> QED
    BY ZenonT(60), <2>1, <2>2, ConstantsAssumption DEF IInv, TokenInv
<1>8. StartInv'
  <2> SUFFICES ASSUME NEW d \in Calls, call'[d].pc = "starting"
               PROVE  Accepts(coord'[call'[d].realm], call'[d].current)
    BY Zenon DEF StartInv, Accepts
  <2>1. d # c /\ call'[d] = call[d]
    BY Zenon, <1>1 DEF Moved
  <2>2. /\ call[d].current \in call[d].guard /\ call[d].realm \in Realms
        /\ call[d] \in Call
    BY Zenon, <2>1 DEF IInv, CallInv, CallFacts, TypeOK
  <2>3. call[d].current \in Effect
    BY ZenonT(60), <2>2 DEF Call
  <2>4. Accepts(coord[call[d].realm], call[d].current)
    BY <2>1 DEF IInv, StartInv
  <2>5. CASE call[d].realm = r
    <3>1. call[d].current \notin call[c].guard
      BY Zenon, <2>1, <2>2, <2>5 DEF IInv, LeaseInv, UniqueInv
    <3>2. Accepts(t, call[d].current)
      BY ZenonT(60), <2>3, <2>4, <2>5, <3>1 DEF Handover
    <3> QED
      BY ZenonT(60), <2>1, <2>5, <3>2 DEF IInv, TypeOK
  <2>6. CASE call[d].realm # r
    BY ZenonT(60), <2>1, <2>2, <2>4, <2>6 DEF IInv, TypeOK
  <2> QED
    BY Zenon, <2>5, <2>6
<1>9. ProjInv'
  BY Zenon DEF ProjInv, Republished
<1>10. RetiredWorkersStopped'
  BY <1>1, RetiredKept
<1> QED
  BY ZenonT(60), <1>2, <1>4, <1>5, <1>6, <1>7, <1>8, <1>9, <1>10 DEF IInv

\* A revision that is kept or counted up does not go back.
LEMMA RevisionGrows ==
    ASSUME NEW s \in Coordinator, NEW t \in Coordinator,
           t.revision = s.revision \/ t.revision = s.revision + 1
    PROVE  s.revision \in Nat /\ s.revision <= t.revision
BY SMT DEF Coordinator

\* Two effects of one revision and family are the same.
LEMMA EffectEqual ==
    ASSUME NEW e \in Effect, NEW x \in Effect, e.revision = x.revision,
           e.kind = x.kind
    PROVE  e = x
BY DEF Effect

\* The end of a call: its guard is dropped.
LEMMA LeaveStep ==
    ASSUME IInv, NEW c \in Calls, call[c].pc \in {"syncing", "complete"},
           Leave(c),
           UNCHANGED <<network, selection, observed, projection, worker,
                       selGate, opGate>>
    PROVE  IInv'
<1> DEFINE r == call[c].realm
<1> DEFINE s == coord[r]
<1> DEFINE g == call[c].guard
<1> DEFINE t == Abandoned(s, g)
<1> DEFINE k == [call[c] EXCEPT !.pc = "done", !.guard = {},
                                !.current = None, !.result = None]
<1>1. call \in [Calls -> Call] /\ call[c] \in Call
  BY Zenon DEF IInv, TypeOK
<1>2. CallFacts(call[c])
  BY Zenon DEF IInv, CallInv
<1>3. /\ r \in Realms /\ g \in SUBSET Effect /\ call[c].current \in g
  BY ZenonT(60), <1>1, <1>2 DEF CallFacts, Call
<1>4. s \in Coordinator /\ CoordFacts(s) /\ s.known
  BY ZenonT(60), <1>3 DEF IInv, TypeOK, LeaseInv, CoordInv, GuardInv
<1>5. k \in Call
  BY ZenonT(60), <1>1 DEF Call
<1>6. /\ k.pc = "done" /\ k.realm = r /\ k.guard = {}
      /\ k.kind = call[c].kind /\ k.trigger = call[c].trigger
  BY <1>1 DEF Call
<1>7. CallFacts(k)
  BY <1>2, <1>3, <1>6 DEF CallFacts
<1>8. Move(c, k) /\ coord' = [coord EXCEPT ![r] = t]
  BY ZenonT(60), <1>3 DEF Leave, IInv, TypeOK
<1>9. /\ t \in Coordinator /\ CoordFacts(t) /\ t.known
      /\ t.leases = s.leases \ Ended(s, g)
      /\ \/ t.revision = s.revision
         \/ t.leases = {} /\ t.revision = s.revision + 1
  BY ZenonT(60), <1>3, <1>4, AbandonedFacts
<1> HIDE DEF k, t, s, r, g
<1>10. s.revision \in Nat /\ s.revision <= t.revision
  BY Zenon, <1>4, <1>9, RevisionGrows
<1>11. ASSUME NEW e \in Effect, e \notin g, Accepts(s, e)
       PROVE  Accepts(t, e)
  <2>1. e.kind \notin Ended(s, g)
    <3> SUFFICES ASSUME NEW x \in g, Accepts(s, x), x.kind = e.kind
                 PROVE  FALSE
      BY DEF Ended
    <3> QED
      BY <1>3, <1>11, EffectEqual DEF Accepts
  <2> QED
    BY Zenon, <1>9, <1>11, <2>1 DEF Accepts
<1>12. \A e \in Effect : e.revision <= s.revision /\ Accepts(t, e) =>
                             Accepts(s, e)
  BY <1>9 DEF Accepts
<1>13. ASSUME NEW f \in t.leases
       PROVE  /\ t.revision = s.revision
              /\ f \in s.leases
              /\ [revision |-> t.revision, kind |-> f] \notin g
  <2>1. t.revision = s.revision /\ f \in s.leases /\ f \notin Ended(s, g)
    BY <1>9, <1>13
  <2> QED
    BY <2>1 DEF Ended, Accepts
<1>14. t.leases # {} => r = selection /\ projection[r] # None
  BY Zenon, <1>3, <1>13 DEF IInv, LeaseInv, CoordInv, s
<1>15. /\ call[c].realm = r /\ s = coord[r] /\ call[c].guard = g
       /\ Republished
  BY ZenonT(60) DEF IInv, TypeOK, ProjInv, Republished, r, s, g
<1>16. Handover(call[c], k, s, t)
  BY Zenon, <1>6, <1>9, <1>10, <1>11, <1>12, <1>13, <1>15 DEF Handover
<1> QED
  BY Zenon, <1>3, <1>5, <1>6, <1>7, <1>8, <1>14, <1>15, <1>16, RegistryStep

\* A publication of the observation o for realm r.
LEMMA RepublishedBy ==
    ASSUME IInv, NEW r \in Realms, NEW o \in Observation,
           o.authority = observed[r].authority,
           NEW view \in Facets, NEW b \in BOOLEAN,
           observed' = [observed EXCEPT ![r] = o],
           projection' = [projection EXCEPT ![r] = Published(@, o, view, b)]
    PROVE  Republished /\ projection'[r] # None
<1>1. /\ Published(projection[r], o, view, b) \in Projection
      /\ Published(projection[r], o, view, b).authority = o.authority
  BY PublishedFacts DEF IInv, TypeOK
<1>2. /\ observed' \in [Realms -> Observation]
      /\ observed'[r] = o
      /\ \A x \in Realms : x # r => observed'[x] = observed[x]
  BY Zenon DEF IInv, TypeOK
<1>3. /\ projection' \in [Realms -> Projection \cup {None}]
      /\ projection'[r] \in Projection
      /\ projection'[r].authority = o.authority
      /\ \A x \in Realms : x # r => projection'[x] = projection[x]
  BY Zenon, <1>1 DEF IInv, TypeOK
<1>4. projection'[r] # None
  BY <1>3, ConstantsAssumption
<1>5. \A x \in Realms : projection'[x] # None =>
          projection'[x].authority <= observed'[x].authority
  <2> TAKE x \in Realms
  <2>1. CASE x = r
    BY <1>2, <1>3, <2>1 DEF Observation
  <2>2. CASE x # r
    BY ZenonT(60), <1>2, <1>3, <2>2 DEF IInv, ProjInv
  <2> QED
    BY <2>1, <2>2
<1> QED
  BY ZenonT(60), <1>2, <1>3, <1>4, <1>5 DEF Republished

\* All the leases of s are handed out at once.
LEMMA OutFacts ==
    ASSUME NEW s \in Coordinator
    PROVE  /\ Out(s) \in SUBSET Effect
           /\ \A e \in Out(s) : Accepts(s, e) /\ e.revision = s.revision
           /\ \A f \in s.leases : [revision |-> s.revision, kind |-> f]
                                      \in Out(s)
<1>1. s.revision \in Nat /\ s.leases \subseteq Families
  BY SMTT(60) DEF Coordinator
<1> QED
  BY <1>1 DEF Out, Accepts, Effect

\* Nothing is leased or released.
LEMMA IdleHandover ==
    ASSUME NEW s \in Coordinator, NEW t \in Coordinator, CoordFacts(t), t.known,
           NEW j, NEW k, t.revision = s.revision, t.leases = s.leases,
           j.guard = {}, k.guard = {}
    PROVE  Handover(j, k, s, t)
<1>1. s.revision \in Nat
  BY SMT DEF Coordinator
<1>2. \A x : Accepts(t, x) <=> Accepts(s, x)
  BY Zenon DEF Accepts
<1>3. s.revision <= t.revision
  BY SMT, <1>1
<1> QED
  BY Zenon, <1>2, <1>3 DEF Handover

\* A call ends one of its effects.
LEMMA ReleasedHandover ==
    ASSUME NEW s \in Coordinator, NEW t \in Coordinator, CoordFacts(t), t.known,
           NEW j, NEW k, NEW e \in Effect, e \in j.guard, j.guard \in SUBSET Effect,
           \A x \in j.guard : Accepts(s, x),
           t.revision = s.revision, t.leases = s.leases \ {e.kind},
           k.guard = j.guard \ {e}
    PROVE  Handover(j, k, s, t)
<1>1. s.revision \in Nat
  BY Zenon DEF Coordinator
<1>2. s.revision <= t.revision
  BY SMT, <1>1
<1>3. \A x \in Effect : Accepts(t, x) <=> Accepts(s, x) /\ x # e
  BY Zenon, EffectEqual DEF Accepts
<1>4. \A f \in t.leases : f \in s.leases /\ [revision |-> t.revision, kind |-> f] # e
  BY SMT
<1>5. \A x \in k.guard : Accepts(t, x) /\ x \in j.guard
  BY Zenon, <1>3
<1> QED
  BY Zenon, <1>2, <1>3, <1>4, <1>5 DEF Handover

\* A call is handed every lease of a new revision, and no other call had one of
\* the old.
LEMMA RenewedHandover ==
    ASSUME NEW s \in Coordinator, NEW t \in Coordinator, CoordFacts(t), t.known,
           NEW j, NEW k, t.revision = s.revision + 1, k.guard = Out(t),
           \A x \in Effect : Accepts(s, x) => x \in j.guard
    PROVE  Handover(j, k, s, t)
<1>1. s.revision \in Nat
  BY Zenon DEF Coordinator
<1>2. s.revision <= t.revision
  BY Zenon, <1>1, NatOrder DEF Coordinator
<1>3. /\ \A x \in Out(t) : Accepts(t, x) /\ x.revision = t.revision
      /\ \A f \in t.leases : [revision |-> t.revision, kind |-> f] \in Out(t)
  BY Zenon, OutFacts
<1>4. \A x \in k.guard : Accepts(t, x) /\ x.revision > s.revision
  BY SMT, <1>1, <1>3
<1>5. \A x \in Effect : x.revision <= s.revision => ~Accepts(t, x)
  BY SMT, <1>1 DEF Accepts
<1> QED
  BY Zenon, <1>2, <1>3, <1>4, <1>5 DEF Handover

\* A call is admitted and takes its leases.
LEMMA AdmitStep ==
    ASSUME IInv, NEW c \in Calls, NEW view \in [Families -> PortFacets],
           Admit(c, view)
    PROVE  IInv'
<1> DEFINE r == call[c].realm
<1> DEFINE s == coord[r]
<1> DEFINE m == Observe(s, view)
<1> DEFINE n == Reconcile(m, call[c].trigger)
<1> DEFINE t == n.state
<1> DEFINE g == n.effects
<1> DEFINE b == t.leases # {}
<1> DEFINE k == [call[c] EXCEPT !.pc = Onward(g), !.guard = g]
<1>1. call \in [Calls -> Call] /\ call[c] \in Call
  BY DEF IInv, TypeOK
<1>2. CallFacts(call[c]) /\ call[c].pc = "admit" /\ selGate = c
  BY Zenon DEF IInv, CallInv, GateInv, SelHeld, Admit
<1>3. /\ r \in Realms /\ call[c].trigger \in AllTriggers
      /\ call[c].guard = {} /\ view \in Facets
  BY Zenon, <1>2, ConstantsAssumption DEF CallFacts, Running, Facets
<1>4. /\ selection = r /\ call[c].token = observed[r]
  BY ZenonT(60), <1>2 DEF IInv, SelInv, SelHeld, TokenInv
<1>5. s \in Coordinator /\ CoordFacts(s) /\ observed[r] \in Observation
  BY SMTT(60), <1>3 DEF IInv, TypeOK, LeaseInv, CoordInv
<1>6. /\ m \in Coordinator /\ CoordFacts(m) /\ m.known
      /\ m.leases = s.leases /\ m.revision = s.revision
  BY ZenonT(60), <1>5, ObserveFacts
<1> HIDE DEF m
<1>7. /\ t \in Coordinator /\ CoordFacts(t) /\ t.known
      /\ \/ t.revision = s.revision /\ t.leases = s.leases /\ g = {}
         \/ s.leases = {} /\ t.revision = s.revision + 1 /\ g = Out(t)
  <2>1. PICK trigger \in AllTriggers : trigger = call[c].trigger
    BY Zenon, <1>3
  <2>2. n = Reconcile(m, trigger)
    BY Zenon, <2>1
  <2> HIDE DEF n
  <2> QED
    BY ZenonT(60), <1>6, <2>2, ReconcileFacts
<1>8. g \in SUBSET Effect
  BY ZenonT(60), <1>7, OutFacts
<1>9. /\ Move(c, k)
      /\ coord' = [coord EXCEPT ![r] = t]
      /\ projection' = [projection EXCEPT ![r] =
                            Published(@, observed[r], view, b)]
      /\ selGate' = None
      /\ UNCHANGED <<network, selection, observed, worker, opGate>>
  BY <1>4 DEF Admit, m
<1>10. observed' = [observed EXCEPT ![r] = observed[r]]
  BY Zenon, <1>3, <1>9 DEF IInv, TypeOK
<1>11. b \in BOOLEAN
  OBVIOUS
<1> HIDE DEF b, t, g
<1>12. Republished /\ projection'[r] # None
  BY Zenon, <1>3, <1>5, <1>9, <1>10, <1>11, RepublishedBy
<1>13. Onward(g) \in {"run", "done"} /\ (g # {} => Onward(g) = "run")
  BY DEF Onward
<1>14. k \in Call
  BY ZenonT(60), <1>1, <1>8, <1>13 DEF Call
<1>15. /\ k.pc = Onward(g) /\ k.guard = g /\ k.realm = r
       /\ k.token = observed[r]
       /\ k.kind = call[c].kind /\ k.trigger = call[c].trigger
  BY ZenonT(60), <1>1, <1>4 DEF Call
<1> HIDE DEF k, s, r
<1>16. CallFacts(k)
  BY <1>2, <1>3, <1>13, <1>15 DEF CallFacts, Running
<1>17. Handover(call[c], k, s, t)
  <2>1. CASE t.revision = s.revision /\ t.leases = s.leases /\ g = {}
    BY Zenon, <1>3, <1>5, <1>7, <1>15, <2>1, IdleHandover
  <2>2. CASE s.leases = {} /\ t.revision = s.revision + 1 /\ g = Out(t)
    <3>1. \A x \in Effect : Accepts(s, x) => x \in call[c].guard
      BY Zenon, <2>2 DEF Accepts
    <3> QED
      BY Zenon, <1>5, <1>7, <1>15, <2>2, <3>1, RenewedHandover
  <2> QED
    BY Zenon, <1>7, <2>1, <2>2
<1>18. call[c].realm = r /\ s = coord[r]
  BY SMTT(60) DEF r, s
<1> QED
  BY ZenonT(60), <1>2, <1>3, <1>4, <1>9, <1>12, <1>13, <1>14, <1>15, <1>16, <1>17, <1>18,
     RegistryStep

\* A completed effect is published.
LEMMA PublishEffectStep ==
    ASSUME IInv, NEW c \in Calls, NEW facet \in PortFacets,
           call[c].pc = "complete", selGate = None,
           network = call[c].realm,
           observed[call[c].realm].authority = call[c].token.authority,
           PublishEffect(c, facet),
           UNCHANGED <<network, selection, worker, selGate, opGate>>
    PROVE  IInv'
<1> DEFINE r == call[c].realm
<1> DEFINE s == coord[r]
<1> DEFINE e == call[c].current
<1> DEFINE n == Release(s, {e}, call[c].result)
<1> DEFINE t == n.state
<1> DEFINE view == [projection[r].view EXCEPT ![e.kind] = facet]
<1> DEFINE o == NewObservation(observed[r])
<1> DEFINE g == (call[c].guard \ {e}) \cup n.effects
<1> DEFINE b == t.leases # {}
<1> DEFINE k == [call[c] EXCEPT !.pc = Onward(g), !.guard = g,
                                !.current = None, !.result = None]
<1>1. call \in [Calls -> Call] /\ call[c] \in Call
  BY Zenon DEF IInv, TypeOK
<1>2. CallFacts(call[c])
  BY Zenon DEF IInv, CallInv
<1>3. /\ r \in Realms /\ call[c].guard \in SUBSET Effect
      /\ e \in call[c].guard /\ e \in Effect
      /\ call[c].result \in Facet
      /\ call[c].result = "Updating" => "Updating" \in PortFacets
  BY ZenonT(60), <1>1, <1>2, ConstantsAssumption DEF CallFacts, Call
<1>4. /\ s \in Coordinator /\ CoordFacts(s) /\ s.known
      /\ observed[r] \in Observation
  BY ZenonT(60), <1>3 DEF IInv, TypeOK, LeaseInv, CoordInv, GuardInv
<1>5. \A x \in call[c].guard : Accepts(s, x)
  BY <1>3 DEF IInv, LeaseInv, FencesAgree
<1>6. r = selection /\ projection[r] # None
  BY Zenon, <1>3, <1>5 DEF IInv, LeaseInv, CoordInv, Accepts
<1>7. view \in Facets
  <2>1. projection[r].view \in Facets
    BY ZenonT(60), <1>3, <1>6 DEF IInv, TypeOK, Projection
  <2> QED
    BY Zenon, <1>3, <2>1, ConstantsAssumption DEF Facets, Effect
<1>8. o \in Observation /\ o.authority = observed[r].authority
  BY Zenon, <1>4, ObservationFacts
<1>9. Ended(s, {e}) = {e.kind}
  BY ZenonT(60), <1>3, <1>5 DEF Ended
<1>10. /\ t \in Coordinator /\ CoordFacts(t) /\ t.known
       /\ \/ /\ t.revision = s.revision /\ t.leases = s.leases \ {e.kind}
             /\ n.effects = {}
          \/ /\ s.leases = {e.kind} /\ t.revision = s.revision + 1
             /\ n.effects = Out(t)
  <2>1. {e} \in SUBSET Effect
    BY Zenon, <1>3
  <2> DEFINE E == {e}
  <2> DEFINE result == call[c].result
  <2>2. /\ E \in SUBSET Effect /\ Ended(s, E) = {e.kind}
        /\ result \in Facet
        /\ result = "Updating" => "Updating" \in PortFacets
    BY ZenonT(60), <1>3, <1>9, <2>1
  <2> HIDE DEF s, e, E, result
  <2> DEFINE p == Release(s, E, result)
  <2>3. /\ p.state \in Coordinator /\ CoordFacts(p.state) /\ p.state.known
        /\ \/ /\ p.state.revision = s.revision
              /\ p.state.leases = s.leases \ Ended(s, E)
              /\ p.effects = {}
           \/ /\ s.leases = Ended(s, E)
              /\ p.state.revision = s.revision + 1
              /\ p.effects = Out(p.state)
    BY ZenonT(60), <1>4, <2>2, ReleaseFacts
  <2>4. p = n
    BY Zenon DEF E, result
  <2> HIDE DEF p, n
  <2> QED
    BY <2>2, <2>3, <2>4
<1>11. g \in SUBSET Effect
  BY ZenonT(60), <1>3, <1>10, OutFacts
<1>12. /\ Move(c, k)
       /\ coord' = [coord EXCEPT ![r] = t]
       /\ observed' = [observed EXCEPT ![r] = o]
       /\ projection' = [projection EXCEPT ![r] = Published(@, o, view, b)]
  BY ZenonT(60) DEF PublishEffect
<1>13. b \in BOOLEAN
  OBVIOUS
<1> HIDE DEF b, t, o, view
<1>14. Republished /\ projection'[r] # None
  BY Zenon, <1>3, <1>7, <1>8, <1>12, <1>13, RepublishedBy
<1> DEFINE out == n.effects
<1> HIDE DEF out, n, e
<1>15. g = (call[c].guard \ {e}) \cup out
  BY Zenon DEF out
<1> HIDE DEF g
<1>16. Onward(g) \in {"run", "done"} /\ (g # {} => Onward(g) = "run")
  BY DEF Onward
<1>17. k \in Call
  BY ZenonT(60), <1>1, <1>11, <1>16 DEF Call
<1>18. /\ k.pc = Onward(g) /\ k.guard = g /\ k.realm = r
       /\ k.token = call[c].token
       /\ k.kind = call[c].kind /\ k.trigger = call[c].trigger
  BY Zenon, <1>1 DEF Call
<1> HIDE DEF k, s, r
<1>19. CallFacts(k)
  BY Zenon, <1>2, <1>3, <1>16, <1>18 DEF CallFacts, Running, r
<1>20. Handover(call[c], k, s, t)
  <2>1. CASE /\ t.revision = s.revision /\ t.leases = s.leases \ {e.kind}
             /\ out = {}
    <3>1. k.guard = call[c].guard \ {e}
      BY Zenon, <1>15, <1>18, <2>1
    <3> QED
      BY Zenon, <1>3, <1>4, <1>5, <1>10, <2>1, <3>1, ReleasedHandover
  <2>2. CASE /\ s.leases = {e.kind} /\ t.revision = s.revision + 1
             /\ out = Out(t)
    <3>1. \A x \in Effect : Accepts(s, x) => x = e
      BY Zenon, <1>3, <1>5, <2>2, EffectEqual DEF Accepts
    <3>2. k.guard = Out(t)
      BY Zenon, <1>3, <1>5, <1>15, <1>18, <2>2, <3>1
    <3> QED
      BY Zenon, <1>3, <1>4, <1>10, <2>2, <3>1, <3>2, RenewedHandover
  <2> QED
    BY Zenon, <1>10, <2>1, <2>2 DEF out
<1>21. /\ call[c].realm = r /\ s = coord[r]
       /\ k.token.authority = observed[r].authority
  BY ZenonT(60), <1>18 DEF r, s
<1> QED
  BY ZenonT(60), <1>3, <1>6, <1>12, <1>14, <1>16, <1>17, <1>18, <1>19, <1>20, <1>21,
     RegistryStep

\* An effect completes, or its call leaves.
LEMMA CompleteStep ==
    ASSUME IInv, NEW c \in Calls, NEW facet \in PortFacets,
           CompleteEffect(c, facet)
    PROVE  IInv'
BY Zenon, LeaveStep, PublishEffectStep DEF CompleteEffect

-----------------------------------------------------------------------------
(***************************************************************************)
(* The invariant is inductive                                              *)
(***************************************************************************)
LEMMA InitIInv == Init => IInv
<1> SUFFICES ASSUME Init
             PROVE  IInv
  OBVIOUS
<1>1. FreshCoordinator \in Coordinator /\ CoordFacts(FreshCoordinator)
  <2> DEFINE facets == [f \in Families |-> "Missing"]
  <2>1. facets \in Facets /\ \A f \in Families : facets[f] # "Updating"
    BY Zenon DEF Facets, Facet
  <2>2. FreshCoordinator = [known |-> FALSE, revision |-> 0,
                            facets |-> facets, leases |-> {},
                            leasedFrom |-> None, pending |-> None]
    BY DEF FreshCoordinator
  <2> HIDE DEF facets
  <2>3. 0 \in Nat
    OBVIOUS
  <2>4. FreshCoordinator \in Coordinator
    BY <2>1, <2>2, <2>3, Zenon DEF Coordinator
  <2>5. CoordFacts(FreshCoordinator)
    BY Zenon, <2>1, <2>2 DEF CoordFacts
  <2> QED
    BY <2>4, <2>5
<1>2. FreshCall \in Call
  BY Zenon DEF FreshCall, Call, Observation
<1>3. /\ FreshCall.pc = "idle" /\ FreshCall.guard = {}
      /\ FreshCall.kind = "none"
  BY DEF FreshCall
<1>4. /\ \A c \in Calls : call[c] = FreshCall
      /\ \A r \in Realms : /\ coord[r] = FreshCoordinator
                           /\ worker[r] = {} /\ projection[r] = None
  BY DEF Init
<1>5. FreshCoordinator.leases = {}
  BY DEF FreshCoordinator
<1>6. [generation |-> 0, authority |-> 0] \in Observation
  BY DEF Observation
<1>7. TypeOK
  BY <1>1, <1>2, <1>6 DEF Init, TypeOK
<1>8. CallInv
  BY ZenonT(60), <1>3, <1>4 DEF CallInv, CallFacts
<1>9. GateInv /\ SelInv
  BY <1>3, <1>4, ConstantsAssumption
  DEF Init, GateInv, SelInv, SelHeld, OpHeld
<1>10. LeaseInv
  <2>1. CoordInv
    BY Zenon, <1>1, <1>4, <1>5 DEF CoordInv
  <2>2. GuardInv /\ UniqueInv /\ HeldInv /\ FencesAgree
    BY Zenon, <1>3, <1>4, <1>5 DEF GuardInv, UniqueInv, HeldInv, FencesAgree
  <2> QED
    BY <2>1, <2>2 DEF LeaseInv
<1>11. TokenInv /\ StartInv /\ ProjInv /\ RetiredWorkersStopped
  BY ZenonT(60), <1>3, <1>4 DEF TokenInv, StartInv, ProjInv, RetiredWorkersStopped
<1> QED
  BY <1>7, <1>8, <1>9, <1>10, <1>11 DEF IInv

\* Every step of a call keeps the invariant.
LEMMA StepIInv ==
    ASSUME IInv, NEW c \in Calls, Step(c)
    PROVE  IInv'
<1>1. CASE Pin(c)
  BY <1>1, PinStep
<1>2. CASE Unpin(c)
  BY <1>2, UnpinStep
<1>3. CASE BeginObservation(c)
  BY <1>3, BeginObservationStep
<1>4. CASE \E view \in [Families -> PortFacets] : Admit(c, view)
  BY <1>4, AdmitStep
<1>5. CASE \E e \in call[c].guard : EnterAccount(c, e) \/ EnterPrivate(c, e)
  BY <1>5, EffectStep
<1>6. CASE \E facet \in PortFacets :
               SyncAccount(c, facet) \/ StartWorker(c, facet)
  BY <1>6, AnswerStep
<1>7. CASE Abandon(c)
  BY <1>7, LeaveStep DEF Abandon
<1>8. CASE \E facet \in PortFacets : CompleteEffect(c, facet)
  BY <1>8, CompleteStep
<1>9. CASE CompletionFails(c)
  BY <1>9, LeaveStep DEF CompletionFails
<1>10. CASE CancelProfile(c)
  BY <1>10, CancelProfileStep
<1>11. CASE CancelWorkers(c) \/ CancelFails(c)
  BY <1>11, CancelQuietStep
<1>12. CASE \E view \in [Families -> PortFacets] : PublishCancelled(c, view)
  BY <1>12, PublishCancelledStep
<1> QED
  BY Zenon, <1>1, <1>2, <1>3, <1>4, <1>5, <1>6, <1>7, <1>8, <1>9, <1>10, <1>11,
     <1>12 DEF Step

\* Every step keeps the invariant.
LEMMA NextIInv == IInv /\ [Next]_vars => IInv'
<1> SUFFICES ASSUME IInv, [Next]_vars
             PROVE  IInv'
  OBVIOUS
<1>1. ASSUME NEW c \in Calls, Enter(c)
      PROVE  IInv'
  BY <1>1, EnterStep
<1>2. ASSUME NEW c \in Calls, Step(c)
      PROVE  IInv'
  BY <1>2, StepIInv
<1>3. ASSUME NEW r \in Realms, NEW f \in Families, WorkerEnds(r, f)
      PROVE  IInv'
  BY <1>3, WorkerEndsStep
<1>4. CASE UNCHANGED vars
  <2>1. UNCHANGED <<network, selection, coord, observed, projection, selGate,
                    opGate, call, worker>>
    BY Zenon, <1>4 DEF vars
  <2>2. TypeOK'
    BY Zenon, <2>1 DEF IInv, TypeOK
  <2>3. CallInv'
    BY Zenon, <2>1 DEF IInv, CallInv, CallFacts
  <2>4. GateInv' /\ SelInv'
    BY Zenon, <2>1 DEF IInv, GateInv, SelInv
  <2>5. LeaseInv'
    <3>1. CoordInv'
      BY Zenon, <2>1 DEF IInv, LeaseInv, CoordInv, CoordFacts
    <3>2. GuardInv'
      BY Zenon, <2>1 DEF IInv, LeaseInv, GuardInv
    <3>3. UniqueInv'
      BY Zenon, <2>1 DEF IInv, LeaseInv, UniqueInv
    <3>4. HeldInv'
      BY Zenon, <2>1 DEF IInv, LeaseInv, HeldInv
    <3>5. FencesAgree'
      BY Zenon, <2>1 DEF IInv, LeaseInv, FencesAgree, Accepts
    <3> QED
      BY Zenon, <3>1, <3>2, <3>3, <3>4, <3>5 DEF LeaseInv
  <2>6. TokenInv' /\ StartInv' /\ ProjInv' /\ RetiredWorkersStopped'
    BY Zenon, <2>1 DEF IInv, TokenInv, StartInv, Accepts, ProjInv,
                       RetiredWorkersStopped
  <2> QED
    BY Zenon, <2>2, <2>3, <2>4, <2>5, <2>6 DEF IInv
<1> QED
  BY <1>1, <1>2, <1>3, <1>4 DEF Next

\* The invariant holds in every reachable state of the service.
THEOREM Inductive == Spec => []IInv
BY InitIInv, NextIInv, PTL DEF Spec

\* The state of the service is type correct, whatever the numbers of calls,
\* realms and families (realm_sync.rs, realm_reconciliation.rs).
THEOREM TypeCorrect == Spec => []TypeOK
<1>1. IInv => TypeOK
  BY DEF IInv
<1> QED
  BY <1>1, Inductive, PTL

\* Every lease that is out is held by the guard of exactly one running call
\* (WalletRealmLeaseGuard).
THEOREM LeasesOwned == Spec => []LeaseOwned
<1>1. IInv => LeaseOwned
  <2> SUFFICES ASSUME IInv, NEW r \in Realms, NEW f \in coord[r].leases
               PROVE  LET holders == {c \in Calls :
                              /\ call[c].realm = r
                              /\ [revision |-> coord[r].revision, kind |-> f]
                                     \in call[c].guard}
                      IN /\ holders # {}
                         /\ \A c, d \in holders : c = d
                         /\ \A c \in holders : call[c].pc # "done"
    BY ZenonT(60) DEF LeaseOwned
  <2> DEFINE e == [revision |-> coord[r].revision, kind |-> f]
  <2>1. \E c \in Calls : call[c].realm = r /\ e \in call[c].guard
    BY Zenon DEF IInv, LeaseInv, HeldInv
  <2>2. \A c, d \in Calls :
            /\ call[c].realm = r /\ e \in call[c].guard
            /\ call[d].realm = r /\ e \in call[d].guard
            => c = d
    BY ZenonT(60) DEF IInv, LeaseInv, UniqueInv
  <2>3. \A c \in Calls : e \in call[c].guard => call[c].pc # "done"
    BY DEF IInv, CallInv, CallFacts, Running
  <2> QED
    BY Zenon, <2>1, <2>2, <2>3
<1> QED
  BY <1>1, Inductive, PTL

\* An effect holds its lease exactly while the authority its call was admitted
\* under is current: what cancel or a change of network outdates can neither
\* write the coordinator nor publish (accepts, complete_effect_and_publish).
THEOREM FencesHold == Spec => []FencesAgree
<1>1. IInv => FencesAgree
  BY Zenon DEF IInv, LeaseInv
<1> QED
  BY <1>1, Inductive, PTL

\* While nobody holds the selection gate, the registry has selected the
\* wallet's network or nothing (WalletNetworkService::select,
\* pin_selected_realm).
THEOREM SelectionSafe == Spec => []SelectionAgrees
<1>1. IInv => SelectionAgrees
  BY DEF IInv, SelInv, SelectionAgrees
<1> QED
  BY <1>1, Inductive, PTL

\* No private worker of a realm that is not selected runs on, except inside
\* the pin that retires it (pin_selected_realm).
THEOREM WorkersStopped == Spec => []RetiredWorkersStopped
<1>1. IInv => RetiredWorkersStopped
  BY Zenon DEF IInv
<1> QED
  BY <1>1, Inductive, PTL

-----------------------------------------------------------------------------
(***************************************************************************)
(* What is published moves forward                                         *)
(***************************************************************************)
Ahead(p, q) ==
    p # None => /\ q # None
                /\ q.authority >= p.authority
                /\ q.revision >= p.revision
                /\ \/ q.revision > p.revision
                   \/ q.view = p.view /\ q.reconciling = p.reconciling

\* What is published next is never behind.
LEMMA AheadFacts ==
    ASSUME NEW p \in Projection \cup {None}
    PROVE  /\ Ahead(p, p)
           /\ Ahead(p, Bumped(p))
           /\ \A o \in Observation, view \in Facets, b \in BOOLEAN :
                 (p # None => p.authority <= o.authority) =>
                     Ahead(p, Published(p, o, view, b))
<1>1. CASE p = None
  BY <1>1 DEF Ahead
<1>2. CASE p # None
  <2>1. p \in Projection /\ p.revision \in Nat /\ p.authority \in Nat
    BY <1>2 DEF Projection
  <2>2. Ahead(p, p)
    BY <2>1 DEF Ahead
  <2>3. Ahead(p, Bumped(p))
    <3>1. Bumped(p) # None /\ Bumped(p).authority = p.authority
      BY <1>2, BumpedFacts
    <3>2. Bumped(p).revision = p.revision + 1
      BY <1>2, <2>1 DEF Bumped, Projection
    <3> QED
      BY <2>1, <3>1, <3>2 DEF Ahead
  <2>4. ASSUME NEW o \in Observation, NEW view \in Facets, NEW b \in BOOLEAN,
               p.authority <= o.authority
        PROVE  Ahead(p, Published(p, o, view, b))
    <3> DEFINE q == Published(p, o, view, b)
    <3>1. q \in Projection /\ q.authority = o.authority
      BY Zenon, <2>1, PublishedFacts
    <3>2. q # None
      BY ZenonT(60), <3>1, ConstantsAssumption
    <3>3. /\ q.view = view /\ q.reconciling = b
          /\ q.revision = IF p.view # view \/ p.reconciling # b
                          THEN p.revision + 1 ELSE p.revision
      BY <1>2 DEF Published
    <3>4. o.authority \in Nat
      BY Zenon DEF Observation
    <3> HIDE DEF q
    <3>5. Ahead(p, q)
      BY SMTT(60), <2>1, <2>4, <3>1, <3>2, <3>3, <3>4 DEF Ahead
    <3> QED
      BY <3>5 DEF q
  <2> QED
    BY <1>2, <2>2, <2>3, <2>4
<1> QED
  BY Zenon, <1>1, <1>2

\* A publication for realm r under the authority that is current.
LEMMA PublishedAhead ==
    ASSUME IInv, NEW r \in Realms, NEW o \in Observation,
           o.authority = observed[r].authority,
           NEW view \in Facets, NEW b \in BOOLEAN,
           projection' = [projection EXCEPT ![r] = Published(@, o, view, b)]
    PROVE  \A x \in Realms : Ahead(projection[x], projection'[x])
<1> TAKE x \in Realms
<1>1. /\ projection[x] \in Projection \cup {None}
      /\ projection[x] # None => projection[x].authority <= observed[x].authority
  BY ZenonT(60) DEF IInv, TypeOK, ProjInv
<1>2. CASE x = r
  <2>1. projection'[x] = Published(projection[x], o, view, b)
    BY Zenon, <1>2 DEF IInv, TypeOK
  <2> QED
    BY Zenon, <1>1, <1>2, <2>1, AheadFacts
<1>3. CASE x # r
  <2>1. projection'[x] = projection[x]
    BY SMTT(60), <1>3 DEF IInv, TypeOK
  <2> QED
    BY Zenon, <1>1, <2>1, AheadFacts
<1> QED
  BY Zenon, <1>2, <1>3

\* Every step publishes ahead.
LEMMA StepAhead ==
    ASSUME IInv, NEW c \in Calls, Step(c), projection' # projection
    PROVE  \A x \in Realms : Ahead(projection[x], projection'[x])
<1> DEFINE r == call[c].realm
<1>0. \A x \in Realms : /\ projection[x] \in Projection \cup {None}
                        /\ coord[x] \in Coordinator
                        /\ observed[x] \in Observation
  BY ZenonT(60) DEF IInv, TypeOK
<1>1. CASE Pin(c) \/ CancelProfile(c)
  <2>1. \A x \in Realms : projection'[x] \in {projection[x],
                                              Bumped(projection[x])}
    BY SMTT(60), <1>1 DEF Pin, CancelProfile
  <2> QED
    BY <1>0, <2>1, AheadFacts
<1>2. ASSUME NEW view \in [Families -> PortFacets], Admit(c, view)
      PROVE  \A x \in Realms : Ahead(projection[x], projection'[x])
  <2> DEFINE b == Reconcile(Observe(coord[r], view),
                            call[c].trigger).state.leases # {}
  <2>1. r \in Realms /\ view \in Facets
    BY <1>2, ConstantsAssumption DEF Admit, IInv, CallInv, CallFacts, Facets
  <2>2. call[c].token = observed[r]
    BY ZenonT(60), <1>2 DEF Admit, IInv, TokenInv
  <2>3. projection' = [projection EXCEPT ![r] =
                           Published(@, observed[r], view, b)]
    BY Zenon, <1>2, <2>2 DEF Admit
  <2>4. b \in BOOLEAN
    BY SMTT(60)
  <2> HIDE DEF b, r
  <2> QED
    BY ZenonT(60), <1>0, <2>1, <2>3, <2>4, PublishedAhead
<1>3. ASSUME NEW view \in [Families -> PortFacets], PublishCancelled(c, view)
      PROVE  \A x \in Realms : Ahead(projection[x], projection'[x])
  <2> DEFINE b == coord[r].leases # {}
  <2> DEFINE o == NewObservation(observed[r])
  <2>1. r \in Realms /\ view \in Facets
    BY Zenon, <1>3, ConstantsAssumption
    DEF PublishCancelled, IInv, CallInv, CallFacts, Facets
  <2>2. o \in Observation /\ o.authority = observed[r].authority
    BY <1>0, <2>1, ObservationFacts
  <2>3. projection' = [projection EXCEPT ![r] = Published(@, o, view, b)]
    BY <1>3 DEF PublishCancelled
  <2>4. b \in BOOLEAN
    OBVIOUS
  <2> HIDE DEF b, o, r
  <2> QED
    BY Zenon, <2>1, <2>2, <2>3, <2>4, PublishedAhead
<1>4. ASSUME NEW facet \in PortFacets, CompleteEffect(c, facet)
      PROVE  \A x \in Realms : Ahead(projection[x], projection'[x])
  <2> DEFINE e == call[c].current
  <2> DEFINE b == Release(coord[r], {e}, call[c].result).state.leases # {}
  <2> DEFINE o == NewObservation(observed[r])
  <2> DEFINE view == [projection[r].view EXCEPT ![e.kind] = facet]
  <2>1. /\ call[c].pc = "complete" /\ PublishEffect(c, facet)
        /\ observed[r].authority = call[c].token.authority
    BY ZenonT(60), <1>4 DEF CompleteEffect
  <2>2. r \in Realms /\ e \in call[c].guard /\ e \in Effect
    BY <2>1 DEF IInv, CallInv, CallFacts, TypeOK, Call
  <2>3. projection[r] \in Projection
    BY ZenonT(60), <1>0, <2>1, <2>2 DEF IInv, LeaseInv, FencesAgree, CoordInv, Accepts
  <2>4. view \in Facets
    BY ZenonT(60), <2>2, <2>3, ConstantsAssumption DEF Projection, Facets, Effect
  <2>5. o \in Observation /\ o.authority = observed[r].authority
    BY SMTT(60), <1>0, <2>2, ObservationFacts
  <2>6. projection' = [projection EXCEPT ![r] = Published(@, o, view, b)]
    BY ZenonT(60), <2>1 DEF PublishEffect
  <2>7. b \in BOOLEAN
    OBVIOUS
  <2> HIDE DEF b, o, view, r
  <2> QED
    BY ZenonT(60), <2>2, <2>4, <2>5, <2>6, <2>7, PublishedAhead
<1> QED
  BY ZenonT(60), <1>1, <1>2, <1>3, <1>4
  DEF Step, Unpin, BeginObservation, EnterAccount, EnterPrivate, SyncAccount,
      StartWorker, Abandon, CompletionFails, CancelWorkers, CancelFails

\* What is published for a realm only moves forward, in authority and in
\* revision, and new content comes with a new revision (publish, supersedes).
THEOREM PublicationsAdvance == Spec => ProjectionsAdvance
<1> DEFINE Advances == \A r \in Realms : projection[r] # None =>
          /\ projection'[r] # None
          /\ projection'[r].authority >= projection[r].authority
          /\ projection'[r].revision >= projection[r].revision
          /\ \/ projection'[r].revision > projection[r].revision
             \/ /\ projection'[r].view = projection[r].view
                /\ projection'[r].reconciling = projection[r].reconciling
<1>1. IInv /\ [Next]_vars => [Advances]_vars
  <2> SUFFICES ASSUME IInv, Next
               PROVE  Advances
    OBVIOUS
  <2>1. ASSUME \A x \in Realms : Ahead(projection[x], projection'[x])
        PROVE  Advances
    BY Zenon, <2>1 DEF Ahead
  <2>2. CASE projection' = projection
    <3>1. \A x \in Realms : Ahead(projection[x], projection'[x])
      <4>1. \A x \in Realms : projection[x] \in Projection \cup {None}
        BY Zenon DEF IInv, TypeOK
      <4> QED
        BY Zenon, <2>2, <4>1, AheadFacts
    <3> QED
      BY Zenon, <2>1, <3>1
  <2>3. CASE projection' # projection
    <3>1. \E c \in Calls : Step(c)
      BY Zenon, <2>3 DEF Next, Enter, ReconcileCall, CancelCall, SelectCall,
                  WorkerEnds
    <3>2. \A x \in Realms : Ahead(projection[x], projection'[x])
      BY <2>3, <3>1, StepAhead
    <3> QED
      BY <2>1, <3>2
  <2> QED
    BY Zenon, <2>2, <2>3
<1> QED
  BY <1>1, Inductive, PTL DEF Spec, ProjectionsAdvance

-----------------------------------------------------------------------------
(***************************************************************************)
(* How a retained trigger ends                                             *)
(***************************************************************************)
\* A family under a lease is not planned again.
LEMMA PlannedNotUpdating ==
    \A t \in AllTriggers : ~Planned(t, "Updating")
BY DEF Planned, AllTriggers

\* Without leases, reconcile leaves nothing of its trigger undone.
LEMMA ReconcileServes ==
    ASSUME NEW s \in Coordinator, NEW t \in AllTriggers, s.leases = {}
    PROVE  Undone(t, Reconcile(s, t).state) = {}
<1> DEFINE kinds == {f \in Families : Planned(t, s.facets[f])}
<1>1. CASE kinds = {}
  <2>1. Reconcile(s, t).state = s
    BY <1>1 DEF Reconcile, Transition
  <2> QED
    BY <1>1, <2>1 DEF Undone
<1>2. CASE kinds # {}
  <2> DEFINE facets == [f \in Families |->
                 IF f \in kinds THEN "Updating" ELSE s.facets[f]]
  <2>1. Reconcile(s, t).state.facets = facets
    BY <1>2 DEF Reconcile, Transition, Coordinator
  <2>2. \A f \in Families : ~Planned(t, facets[f])
    BY Zenon, PlannedNotUpdating
  <2> HIDE DEF facets
  <2> QED
    BY Zenon, <2>1, <2>2 DEF Undone
<1> QED
  BY <1>1, <1>2

\* Ending leases keeps the retained trigger, or turns it into leases.
LEMMA ReleaseServes ==
    ASSUME NEW s \in Coordinator, NEW effects \in SUBSET Effect,
           NEW facet \in Facet, s.pending # None
    PROVE  LET n == Release(s, effects, facet)
           IN \/ n.state.pending = s.pending
              \/ Undone(s.pending, n.state) = {}
<1> DEFINE ended == {e.kind : e \in {x \in effects : Accepts(s, x)}}
<1> DEFINE facets == [f \in Families |->
               IF f \in ended THEN facet ELSE s.facets[f]]
<1> DEFINE left == [s EXCEPT !.facets = facets, !.leases = s.leases \ ended]
<1> DEFINE open == [left EXCEPT !.leasedFrom = None, !.pending = None]
<1> DEFINE n == Release(s, effects, facet)
<1>1. n = IF ended = {} THEN Transition(s, {})
          ELSE IF left.leases # {} THEN Transition(left, {})
          ELSE Reconcile(open, s.pending)
  BY DEF Release
<1>2. facets \in Facets
  BY SMTT(60) DEF Coordinator, Facets
<1> HIDE DEF facets, ended
<1>3. left \in Coordinator /\ left.pending = s.pending
  BY ZenonT(60), <1>2 DEF Coordinator
<1>4. open \in Coordinator /\ open.leases = left.leases
  BY ZenonT(60), <1>3 DEF Coordinator
<1>5. s.pending \in AllTriggers
  BY DEF Coordinator
<1> HIDE DEF n, left, open
<1>6. CASE ended = {}
  BY <1>1, <1>6 DEF Transition, n
<1>7. CASE ended # {} /\ left.leases # {}
  BY <1>1, <1>3, <1>7 DEF Transition, n
<1>8. CASE ended # {} /\ left.leases = {}
  BY <1>1, <1>4, <1>5, <1>8, ReconcileServes DEF n
<1> QED
  BY <1>6, <1>7, <1>8

\* A dropped guard leaves the families of the trigger it ends Stale.
LEMMA AbandonServes ==
    ASSUME NEW s \in Coordinator, NEW effects \in SUBSET Effect,
           CoordFacts(s), s.known, s.pending # None
    PROVE  LET n == Abandoned(s, effects)
           IN \/ n.pending = s.pending
              \/ \A f \in Undone(s.pending, n) : n.facets[f] = "Stale"
<1> DEFINE m == Release(s, effects, "Stale")
<1> DEFINE n == Release(m.state, m.effects, "Stale")
<1>1. Abandoned(s, effects) = n.state
  BY DEF Abandoned
<1>2. /\ m.state \in Coordinator
      /\ \/ m.effects = {}
         \/ /\ m.state.leases # {}
            /\ m.state.pending = None
            /\ m.effects = Out(m.state)
  BY ReleaseFacts DEF Facet
<1>3. m.state.pending = s.pending \/ Undone(s.pending, m.state) = {}
  BY ReleaseServes DEF Facet
<1> HIDE DEF m
<1>4. CASE m.effects = {}
  <2>1. n.state = m.state
    BY <1>4 DEF Release, Transition
  <2> QED
    BY <1>1, <1>3, <2>1
<1>5. CASE m.effects # {}
  <2>1. /\ m.state.leases # {} /\ m.state.pending = None
        /\ m.effects = Out(m.state)
    BY <1>2, <1>5
  <2>2. {e.kind : e \in {x \in m.effects : Accepts(m.state, x)}}
            = m.state.leases
    BY Zenon, <2>1, OutEnded DEF Ended
  <2>3. n.state.facets = [f \in Families |->
            IF f \in m.state.leases THEN "Stale" ELSE m.state.facets[f]]
    BY <1>2, <2>1, <2>2 DEF Release, Transition, Coordinator
  <2>4. Undone(s.pending, m.state) = {}
    BY <1>3, <2>1
  <2> QED
    BY <1>1, <2>3, <2>4 DEF Undone
<1> QED
  BY <1>4, <1>5

\* While leases are out, reconcile only replaces the trigger by a stronger one.
LEMMA ReconcileKeeps ==
    ASSUME NEW s \in Coordinator, NEW t \in AllTriggers, s.leases # {},
           s.pending # None
    PROVE  LET n == Reconcile(s, t).state
           IN /\ n.pending # None
              /\ \/ n.pending = s.pending
                 \/ Priority(n.pending) > Priority(s.pending)
<1>1. s.pending \in AllTriggers /\ t # None
  BY ConstantsAssumption DEF Coordinator
<1>2. Reconcile(s, t).state.pending =
        IF Priority(s.pending) >= Priority(t) THEN s.pending ELSE t
  BY DEF Reconcile, Transition, Coordinator
<1>3. \A u \in AllTriggers : Priority(u) \in Nat
  BY DEF Priority, AllTriggers
<1> QED
  BY <1>1, <1>2, <1>3

\* A call that leaves drops its guard without publishing.
LEMMA LeaveServes ==
    ASSUME IInv, NEW c \in Calls, call[c].pc \in {"syncing", "complete"},
           Leave(c), UNCHANGED observed, NEW r \in Realms,
           coord[r].pending \notin {None, coord'[r].pending}
    PROVE  TriggerEnds(r)
<1>1. call \in [Calls -> Call] /\ call[c] \in Call /\ CallFacts(call[c])
  BY Zenon DEF IInv, TypeOK, CallInv
<1>2. /\ call[c].guard \in SUBSET Effect /\ call[c].current \in call[c].guard
  BY ZenonT(60), <1>1 DEF CallFacts, Call
<1>3. /\ coord \in [Realms -> Coordinator]
      /\ coord' = [coord EXCEPT ![call[c].realm] =
                      Abandoned(@, call[c].guard)]
  BY Zenon DEF IInv, TypeOK, Leave
<1>4. /\ call[c].realm = r
      /\ coord'[r] = Abandoned(coord[r], call[c].guard)
  <2>1. call[c].realm = r
    BY <1>3
  <2> QED
    BY Zenon, <1>3, <2>1
<1>5. coord[r] \in Coordinator /\ CoordFacts(coord[r]) /\ coord[r].known
  BY ZenonT(60), <1>2, <1>3, <1>4 DEF IInv, LeaseInv, CoordInv, GuardInv
<1>6. \A f \in Undone(coord[r].pending, coord'[r]) :
          coord'[r].facets[f] = "Stale"
  <2> DEFINE s == coord[r]
  <2> DEFINE n == Abandoned(s, call[c].guard)
  <2>1. s \in Coordinator /\ CoordFacts(s) /\ s.known /\ s.pending # None
    BY Zenon, <1>5
  <2>2. n.pending # s.pending
    BY Zenon, <1>4
  <2> HIDE DEF s
  <2>3. \/ n.pending = s.pending
        \/ \A f \in Undone(s.pending, n) : n.facets[f] = "Stale"
    BY <1>2, <2>1, AbandonServes
  <2> HIDE DEF n
  <2>4. \A f \in Undone(s.pending, n) : n.facets[f] = "Stale"
    BY Zenon, <2>2, <2>3
  <2> QED
    BY Zenon, <1>4, <2>4 DEF n, s
<1>7. call'[c].pc = "done" /\ call[c].guard # {}
  BY <1>1, <1>2 DEF Leave, Move, Call
<1> QED
  BY Zenon, <1>4, <1>6, <1>7 DEF TriggerEnds

\* Every step of a call ends a retained trigger only in one of those ways.
LEMMA StepServes ==
    ASSUME IInv, NEW c \in Calls, Step(c), NEW r \in Realms,
           coord[r].pending \notin {None, coord'[r].pending}
    PROVE  TriggerEnds(r)
<1>1. /\ coord \in [Realms -> Coordinator] /\ coord[r] \in Coordinator
      /\ CoordFacts(coord[r]) /\ observed[r] \in Observation
      /\ call[c] \in Call /\ CallFacts(call[c])
  BY ZenonT(60) DEF IInv, TypeOK, LeaseInv, CoordInv, CallInv
<1>2. coord[r].leases # {} /\ coord[r].known
  BY Zenon, <1>1 DEF CoordFacts
<1>3. ASSUME observed'[r] = NewAuthority(observed[r])
      PROVE  TriggerEnds(r)
  <2>1. observed'[r].authority = observed[r].authority + 1
    BY <1>1, <1>3 DEF NewAuthority, Observation
  <2>2. observed'[r].authority > observed[r].authority
    BY SMT, <1>1, <2>1, ObservedAuthority
  <2> QED
    BY Zenon, <2>2 DEF TriggerEnds
<1>4. CASE Pin(c)
  <2>1. r = selection /\ selection \notin {call[c].realm, None}
    BY ZenonT(60), <1>1, <1>4 DEF Pin
  <2> QED
    BY ZenonT(60), <1>3, <1>4, <2>1 DEF Pin
<1>5. CASE CancelProfile(c)
  BY ZenonT(60), <1>2, <1>3, <1>5 DEF CancelProfile
<1>6. ASSUME NEW view \in [Families -> PortFacets], Admit(c, view)
      PROVE  TriggerEnds(r)
  <2> DEFINE m == Observe(coord[r], view)
  <2> DEFINE n == Reconcile(m, call[c].trigger).state
  <2>1. /\ r = call[c].realm /\ coord'[r] = n
        /\ call[c].trigger \in AllTriggers
    BY ZenonT(60), <1>1, <1>6 DEF Admit, CallFacts
  <2>2. m \in Coordinator /\ m.leases # {} /\ m.pending = coord[r].pending
    <3>1. m \in Coordinator /\ m.leases = coord[r].leases
      BY <1>1, ObserveFacts
    <3>2. m.pending = coord[r].pending
      BY <1>1 DEF Observe, Coordinator
    <3> QED
      BY Zenon, <1>2, <3>1, <3>2
  <2> HIDE DEF m
  <2>3. /\ n.pending # None
        /\ \/ n.pending = m.pending
           \/ Priority(n.pending) > Priority(m.pending)
    BY ZenonT(60), <2>1, <2>2, ReconcileKeeps
  <2> HIDE DEF n
  <2> QED
    BY ZenonT(60), <2>1, <2>2, <2>3 DEF TriggerEnds
<1>7. CASE Abandon(c) \/ CompletionFails(c)
  BY ZenonT(60), <1>7, LeaveServes DEF Abandon, CompletionFails
<1>8. ASSUME NEW facet \in PortFacets, CompleteEffect(c, facet)
      PROVE  TriggerEnds(r)
  <2>1. CASE Leave(c) /\ UNCHANGED observed
    BY ZenonT(60), <1>8, <2>1, LeaveServes DEF CompleteEffect
  <2>2. CASE PublishEffect(c, facet)
    <3> DEFINE e == call[c].current
    <3> DEFINE n == Release(coord[r], {e}, call[c].result)
    <3>1. r = call[c].realm /\ coord'[r] = n.state
      BY ZenonT(60), <1>1, <2>2 DEF PublishEffect
    <3>2. {e} \in SUBSET Effect /\ call[c].result \in Facet
      BY ZenonT(60), <1>1, <1>8, ConstantsAssumption
      DEF CompleteEffect, CallFacts, Call
    <3>3. \/ n.state.pending = coord[r].pending
          \/ Undone(coord[r].pending, n.state) = {}
      BY ZenonT(60), <1>1, <3>2, ReleaseServes
    <3> HIDE DEF n
    <3> QED
      BY ZenonT(60), <3>1, <3>3 DEF TriggerEnds
  <2> QED
    BY Zenon, <1>8, <2>1, <2>2 DEF CompleteEffect
<1> QED
  BY ZenonT(60), <1>4, <1>5, <1>6, <1>7, <1>8
  DEF Step, Unpin, BeginObservation, EnterAccount, EnterPrivate, SyncAccount,
      StartWorker, CancelWorkers, CancelFails, PublishCancelled

\* A retained trigger stays while leases are out, and ends only with a
\* stronger one, with a new authority, with nothing of it left undone, or with
\* a dropped guard that leaves its families Stale (complete_effect,
\* expire_effect, cancel).
THEOREM TriggersServed == Spec => RetainedTriggerServed
<1> DEFINE Kept == \A r \in Realms :
        coord[r].pending # None => coord[r].leases # {}
<1> DEFINE Ends == \A r \in Realms :
        coord[r].pending \notin {None, coord'[r].pending} => TriggerEnds(r)
<1>1. IInv => Kept
  BY Zenon DEF IInv, LeaseInv, CoordInv, CoordFacts
<1>2. IInv /\ [Next]_vars => [Ends]_vars
  <2> SUFFICES ASSUME IInv, Next, NEW r \in Realms,
                      coord[r].pending \notin {None, coord'[r].pending}
               PROVE  TriggerEnds(r)
    OBVIOUS
  <2>1. \E c \in Calls : Step(c)
    BY Zenon DEF Next, Enter, ReconcileCall, CancelCall, SelectCall,
                 WorkerEnds
  <2> QED
    BY Zenon, <2>1, StepServes
<1> QED
  BY <1>1, <1>2, Inductive, PTL DEF Spec, RetainedTriggerServed

=============================================================================
