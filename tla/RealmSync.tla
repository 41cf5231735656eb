----------------------------- MODULE RealmSync -----------------------------
(***************************************************************************)
(* Synchronization of the selected realm of one wallet profile:            *)
(* the lease coordinator of realm_reconciliation.rs, the runtime registry  *)
(* and the service of realm_sync.rs, and the network selection of chain.rs *)
(* that shares its selection gate.                                         *)
(*                                                                         *)
(* A call is one invocation of the service from one thread or task:        *)
(* reconcile, cancel or select.  Between two locks it can be overtaken by  *)
(* any other call, and a reconcile that waits for the account              *)
(* synchronization can be dropped by its caller, which is what a timeout   *)
(* of the lifecycle driver does.  The registry is keyed by profile and     *)
(* realm and no operation relates two profiles, so one profile is enough.  *)
(*                                                                         *)
(* What a port answers is abstracted to the facet state the service        *)
(* derives from the answer (observe_account, observe_dust,                 *)
(* observe_shielded): all the control depends on nothing else.             *)
(***************************************************************************)
EXTENDS Integers

CONSTANTS
    Calls,       \* invocations of the service; each is made at most once
    Realms,      \* networks the profile can select
    Families,    \* the families the wallet has, of AllFamilies
    PortFacets,  \* the facet states the ports can report
    Triggers,    \* the triggers callers use, of AllTriggers
    None         \* absence of a value

AllFamilies == {"account", "dust", "shielded"}
AllTriggers == {"Initial", "ManualRefresh", "ActionPreflight"}
Facet == {"Current", "Stale", "Missing", "Updating", "Blocked", "Unsupported"}

Facets == [Families -> Facet]

\* WalletRealmCoordinatorEffect
Effect == [revision: Nat, kind: Families]

\* WalletRealmCoordinatorState; `known` says whether the registry has an
\* entry for the realm yet.
Coordinator == [known: BOOLEAN, revision: Nat, facets: Facets,
                leases: SUBSET Families, leasedFrom: Facets \cup {None},
                pending: AllTriggers \cup {None}]

\* SelectedWalletRealmObservationGeneration; generation 0 is no entry.
Observation == [generation: Nat, authority: Nat]

\* SelectedWalletRealmPublishedProjection
Projection == [revision: Nat, authority: Nat, reconciling: BOOLEAN,
               view: Facets]

\* `pc` is where the call stands, `retired` the realm its pin took out of
\* service, `token` the observation it was admitted under, `guard` the effects
\* of its WalletRealmLeaseGuard, `current` the effect it is executing and
\* `result` the facet state that effect ended in.
Call == [kind: {"none", "reconcile", "cancel", "select"},
         pc: {"idle", "pin", "unpin", "observe", "admit", "run", "starting",
              "syncing", "complete", "cancel", "cancelling", "publish",
              "done"},
         trigger: AllTriggers \cup {None},
         realm: Realms \cup {None}, retired: Realms \cup {None},
         token: Observation, guard: SUBSET Effect,
         current: Effect \cup {None}, result: Facet \cup {None}]

ASSUME ConstantsAssumption ==
    /\ Families \subseteq AllFamilies
    /\ PortFacets \subseteq Facet
    /\ Triggers \subseteq AllTriggers
    /\ None \notin Realms \cup Calls \cup Facets \cup Effect \cup Projection
    /\ None \notin Facet \cup AllTriggers

VARIABLES
    network,    \* the network selected in the wallet
    selection,  \* the realm the registry holds as selected, or None
    coord,      \* realm -> its coordinator state
    observed,   \* realm -> its observation generation
    projection, \* realm -> its published projection, or None
    worker,     \* realm -> families with a private worker running in a port
    selGate,    \* the call that holds selection_gate, or None
    opGate,     \* the call that holds operation_gate, or None
    call        \* call -> its progress

vars == <<network, selection, coord, observed, projection, worker, selGate,
          opGate, call>>

TypeOK ==
    /\ network \in Realms
    /\ selection \in Realms \cup {None}
    /\ coord \in [Realms -> Coordinator]
    /\ observed \in [Realms -> Observation]
    /\ projection \in [Realms -> Projection \cup {None}]
    /\ worker \in [Realms -> SUBSET (Families \ {"account"})]
    /\ selGate \in Calls \cup {None}
    /\ opGate \in Calls \cup {None}
    /\ call \in [Calls -> Call]

FreshCoordinator ==
    [known |-> FALSE, revision |-> 0,
     facets |-> [f \in Families |-> "Missing"], leases |-> {},
     leasedFrom |-> None, pending |-> None]

FreshCall ==
    [kind |-> "none", pc |-> "idle", trigger |-> None, realm |-> None,
     retired |-> None, token |-> [generation |-> 0, authority |-> 0],
     guard |-> {}, current |-> None, result |-> None]

Init ==
    /\ network \in Realms
    /\ selection = None
    /\ coord = [r \in Realms |-> FreshCoordinator]
    /\ observed = [r \in Realms |-> [generation |-> 0, authority |-> 0]]
    /\ projection = [r \in Realms |-> None]
    /\ worker = [r \in Realms |-> {}]
    /\ selGate = None
    /\ opGate = None
    /\ call = [c \in Calls |-> FreshCall]

-----------------------------------------------------------------------------
(***************************************************************************)
(* The pure coordinator (realm_reconciliation.rs).  A transition is the    *)
(* next coordinator state and the effects it hands out.                    *)
(***************************************************************************)

\* plan_family
Planned(trigger, facet) ==
    CASE trigger = "Initial" -> facet \in {"Stale", "Missing"}
      [] trigger = "ManualRefresh" ->
            facet \in {"Current", "Stale", "Missing", "Blocked"}
      [] trigger = "ActionPreflight" ->
            facet \in {"Current", "Stale", "Missing"}

\* trigger_priority
Priority(trigger) ==
    CASE trigger = "Initial" -> 0
      [] trigger = "ManualRefresh" -> 1
      [] trigger = "ActionPreflight" -> 2

Transition(s, effects) == [state |-> s, effects |-> effects]

\* accepts
Accepts(s, e) == e.revision = s.revision /\ e.kind \in s.leases

\* reconcile: while leases are out the trigger is retained, the stronger of
\* two; otherwise every planned family is leased under a new revision.
Reconcile(s, trigger) ==
    LET kinds == {f \in Families : Planned(trigger, s.facets[f])}
    IN IF s.leases # {}
       THEN Transition(
              [s EXCEPT !.pending =
                  IF /\ s.pending # None
                     /\ Priority(s.pending) >= Priority(trigger)
                  THEN s.pending ELSE trigger], {})
       ELSE IF kinds = {} THEN Transition(s, {})
       ELSE Transition(
              [s EXCEPT
                  !.revision = s.revision + 1,
                  !.facets = [f \in Families |->
                      IF f \in kinds THEN "Updating" ELSE s.facets[f]],
                  !.leases = kinds,
                  !.leasedFrom = s.facets,
                  !.pending = None],
              {[revision |-> s.revision + 1, kind |-> f] : f \in kinds})

\* Fault: the retained trigger is forgotten when the leases end.
ReleaseForgetsPending(s, effects, facet) ==
    LET ended == {e.kind : e \in {x \in effects : Accepts(s, x)}}
    IN Transition(
        [s EXCEPT !.facets = [f \in Families |->
                      IF f \in ended THEN facet ELSE s.facets[f]],
                  !.leases = s.leases \ ended,
                  !.leasedFrom = IF s.leases = ended THEN None
                                 ELSE s.leasedFrom,
                  !.pending = IF s.leases = ended THEN None
                              ELSE s.pending], {})

\* complete_effect and expire_effect, for the effects given: the accepted ones
\* leave their lease and their family takes the facet state; once no lease is
\* out, a retained trigger is reconciled.
Release(s, effects, facet) ==
    LET ended == {e.kind : e \in {x \in effects : Accepts(s, x)}}
        left == [s EXCEPT !.facets = [f \in Families |->
                              IF f \in ended THEN facet ELSE s.facets[f]],
                          !.leases = s.leases \ ended]
    IN IF ended = {} THEN Transition(s, {})
       ELSE IF left.leases # {} THEN Transition(left, {})
       ELSE IF s.pending = None
       THEN Transition([left EXCEPT !.leasedFrom = None], {})
       ELSE Reconcile([left EXCEPT !.leasedFrom = None, !.pending = None],
                      s.pending)

\* observe: leased families keep their state.
Observe(s, facets) ==
    [s EXCEPT !.known = TRUE,
              !.facets = [f \in Families |->
                  IF f \in s.leases THEN s.facets[f] ELSE facets[f]]]

\* cancel: leased families return to their state before the lease.
Cancel(s) ==
    IF s.leases = {} THEN s
    ELSE [s EXCEPT
            !.revision = s.revision + 1,
            !.facets = [f \in Families |->
                IF f \in s.leases THEN s.leasedFrom[f] ELSE s.facets[f]],
            !.leases = {}, !.leasedFrom = None, !.pending = None]

\* Drop of WalletRealmLeaseGuard: expires the effects and, in turn, the
\* effects that their expiry hands out.
Abandoned(s, effects) ==
    LET first == Release(s, effects, "Stale")
    IN Release(first.state, first.effects, "Stale").state

-----------------------------------------------------------------------------
(***************************************************************************)
(* The registry (SelectedWalletRealmRuntime)                               *)
(***************************************************************************)

\* authoritative_projection
Authoritative(r) ==
    /\ projection[r] # None
    /\ observed[r].generation > 0
    /\ projection[r].authority = observed[r].authority

\* Fault: a change of `reconciling` alone is published under the old revision.
PublishedQuietly(p, token, view, reconciling) ==
    IF p = None
    THEN [revision |-> 1, authority |-> token.authority,
          reconciling |-> reconciling, view |-> view]
    ELSE [revision |-> IF p.view # view THEN p.revision + 1 ELSE p.revision,
          authority |-> token.authority,
          reconciling |-> reconciling, view |-> view]

\* publish, once the token was found current: the revision moves exactly when
\* the content does.
Published(p, token, view, reconciling) ==
    IF p = None
    THEN [revision |-> 1, authority |-> token.authority,
          reconciling |-> reconciling, view |-> view]
    ELSE [revision |-> IF p.view # view \/ p.reconciling # reconciling
                       THEN p.revision + 1 ELSE p.revision,
          authority |-> token.authority,
          reconciling |-> reconciling, view |-> view]

\* invalidate_projection
Bumped(p) == IF p = None THEN None ELSE [p EXCEPT !.revision = @ + 1]

\* advance_authority_generation
NewAuthority(o) ==
    [generation |-> o.generation + 1, authority |-> o.authority + 1]

\* advance_observation_generation
NewObservation(o) == [o EXCEPT !.generation = @ + 1]

Move(c, progress) == call' = [call EXCEPT ![c] = progress]

\* Where a reconcile goes once its guard is the given set.
Onward(effects) == IF effects = {} THEN "done" ELSE "run"

-----------------------------------------------------------------------------
(***************************************************************************)
(* Entering the service.  A port that cannot name the selected network, or *)
(* that refuses the selection, ends the call with nothing changed.         *)
(***************************************************************************)

\* admit_reconciliation: the gate and the selected network
ReconcileCall(c, t) ==
    /\ call[c].pc = "idle"
    /\ selGate = None
    /\ selGate' = c
    /\ Move(c, [FreshCall EXCEPT !.kind = "reconcile", !.pc = "pin",
                                 !.trigger = t, !.realm = network])
    /\ UNCHANGED <<network, selection, coord, observed, projection, worker,
                   opGate>>

\* CancelSelectedWalletRealmSyncUseCase::execute
CancelCall(c) ==
    /\ call[c].pc = "idle"
    /\ selGate = None
    /\ selGate' = c
    /\ Move(c, [FreshCall EXCEPT !.kind = "cancel", !.pc = "pin",
                                 !.realm = network])
    /\ UNCHANGED <<network, selection, coord, observed, projection, worker,
                   opGate>>

\* Fault: the network changes without the selection gate.
SelectCallUngated(c, r) ==
    /\ call[c].pc = "idle"
    /\ network' = r
    /\ Move(c, [FreshCall EXCEPT !.kind = "select", !.pc = "pin",
                                 !.realm = r])
    /\ UNCHANGED <<selection, coord, observed, projection, worker, selGate,
                   opGate>>

\* WalletNetworkService::select: the wallet changes its network and tells the
\* observer before the gate is released.
SelectCall(c, r) ==
    /\ call[c].pc = "idle"
    /\ selGate = None
    /\ selGate' = c
    /\ network' = r
    /\ Move(c, [FreshCall EXCEPT !.kind = "select", !.pc = "pin",
                                 !.realm = r])
    /\ UNCHANGED <<selection, coord, observed, projection, worker, opGate>>

-----------------------------------------------------------------------------
(***************************************************************************)
(* pin_selected_realm                                                      *)
(***************************************************************************)

\* Fault: a change of realm leaves the authority of the old one.
PinKeepsAuthority(c) ==
    LET r == call[c].realm
        switch == selection \notin {r, None}
    IN /\ call[c].pc = "pin"
       /\ opGate = None
       /\ opGate' = c
       /\ selection' = r
       /\ coord' = IF switch THEN [coord EXCEPT ![selection] = Cancel(@)]
                   ELSE coord
       /\ Move(c, [call[c] EXCEPT !.pc = "unpin",
                      !.retired = IF switch THEN selection ELSE None])
       /\ UNCHANGED <<network, observed, projection, worker, selGate>>

\* retire_other_realms under the operation gate: a change of realm cancels
\* the leases of the previous one and invalidates what both had published.
Pin(c) ==
    LET r == call[c].realm
        switch == selection \notin {r, None}
    IN /\ call[c].pc = "pin"
       /\ opGate = None
       /\ opGate' = c
       /\ selection' = r
       /\ coord' = IF switch THEN [coord EXCEPT ![selection] = Cancel(@)]
                   ELSE coord
       /\ observed' = [x \in Realms |->
              IF switch /\ x \in {selection, r} THEN NewAuthority(observed[x])
              ELSE observed[x]]
       /\ projection' = [x \in Realms |->
              IF switch /\ x \in {selection, r} THEN Bumped(projection[x])
              ELSE projection[x]]
       /\ Move(c, [call[c] EXCEPT !.pc = "unpin",
                      !.retired = IF switch THEN selection ELSE None])
       /\ UNCHANGED <<network, worker, selGate>>

\* Fault: the operation gate is kept when no realm was retired.
UnpinKeepsGate(c) ==
    /\ call[c].pc = "unpin"
    /\ call[c].retired # None
    /\ worker' = [worker EXCEPT ![call[c].retired] = {}]
    /\ opGate' = None
    /\ Move(c, [call[c] EXCEPT !.pc = "done"])
    /\ selGate' = None
    /\ UNCHANGED <<network, selection, coord, observed, projection>>

\* The private workers of the retired realm are cancelled and the operation
\* gate released.
Unpin(c) ==
    /\ call[c].pc = "unpin"
    /\ worker' = [x \in Realms |->
           IF x = call[c].retired THEN {} ELSE worker[x]]
    /\ opGate' = None
    /\ IF call[c].kind = "select"
       THEN /\ selGate' = None
            /\ Move(c, [call[c] EXCEPT !.pc = "done"])
       ELSE /\ UNCHANGED selGate
            /\ Move(c, [call[c] EXCEPT !.pc =
                   IF call[c].kind = "cancel" THEN "cancel" ELSE "observe"])
    /\ UNCHANGED <<network, selection, coord, observed, projection>>

-----------------------------------------------------------------------------
(***************************************************************************)
(* reconcile                                                               *)
(***************************************************************************)

\* begin_observation: the pin just made still holds, so the realm matches.
BeginObservation(c) ==
    LET r == call[c].realm
    IN /\ call[c].pc = "observe"
       /\ selection = r
       /\ observed' = [observed EXCEPT ![r] = NewObservation(@)]
       /\ Move(c, [call[c] EXCEPT !.pc = "admit",
                                  !.token = NewObservation(observed[r])])
       /\ UNCHANGED <<network, selection, coord, projection, worker, selGate,
                      opGate>>

\* The rest of admit_reconciliation: the ports are observed, the coordinator
\* hands out leases, and the observation is published if its token is still
\* the newest.  If it is not, the call fails and the leases have no guard.
Admit(c, view) ==
    LET r == call[c].realm
        next == Reconcile(Observe(coord[r], view), call[c].trigger)
    IN /\ call[c].pc = "admit"
       /\ selGate' = None
       /\ coord' = [coord EXCEPT ![r] = next.state]
       /\ IF observed[r] = call[c].token
          THEN /\ projection' = [projection EXCEPT ![r] =
                      Published(@, call[c].token, view,
                                next.state.leases # {})]
               /\ Move(c, [call[c] EXCEPT !.pc = Onward(next.effects),
                                          !.guard = next.effects])
          ELSE /\ UNCHANGED projection
               /\ Move(c, [call[c] EXCEPT !.pc = "done"])
       /\ UNCHANGED <<network, selection, observed, worker, opGate>>

\* Effects run oldest revision first, in the order of the plan.
Rank(f) == CASE f = "account" -> 0 [] f = "dust" -> 1 [] f = "shielded" -> 2

IsFirst(e, effects) ==
    \A x \in effects : \/ e.revision < x.revision
                       \/ /\ e.revision = x.revision
                          /\ Rank(e.kind) <= Rank(x.kind)

\* The account effect: a lease that is gone is discarded, otherwise the call
\* starts to wait for the port.
EnterAccount(c, e) ==
    /\ call[c].pc = "run"
    /\ e \in call[c].guard
    /\ IsFirst(e, call[c].guard)
    /\ e.kind = "account"
    /\ IF Accepts(coord[call[c].realm], e)
       THEN Move(c, [call[c] EXCEPT !.pc = "syncing", !.current = e])
       ELSE Move(c, [call[c] EXCEPT !.guard = @ \ {e},
                                    !.pc = Onward(call[c].guard \ {e})])
    /\ UNCHANGED <<network, selection, coord, observed, projection, worker,
                   selGate, opGate>>

\* Fault: the lease of a private family is not checked again.
EnterPrivateUnchecked(c, e) ==
    /\ call[c].pc = "run"
    /\ e \in call[c].guard
    /\ IsFirst(e, call[c].guard)
    /\ e.kind # "account"
    /\ opGate = None
    /\ opGate' = c
    /\ Move(c, [call[c] EXCEPT !.pc = "starting", !.current = e])
    /\ UNCHANGED <<network, selection, coord, observed, projection, worker,
                   selGate>>

\* A private family: the lease is checked under the operation gate, which is
\* kept until the worker is started.
EnterPrivate(c, e) ==
    /\ call[c].pc = "run"
    /\ e \in call[c].guard
    /\ IsFirst(e, call[c].guard)
    /\ e.kind # "account"
    /\ opGate = None
    /\ IF Accepts(coord[call[c].realm], e)
       THEN /\ opGate' = c
            /\ Move(c, [call[c] EXCEPT !.pc = "starting", !.current = e])
       ELSE /\ UNCHANGED opGate
            /\ Move(c, [call[c] EXCEPT !.guard = @ \ {e},
                                       !.pc = Onward(call[c].guard \ {e})])
    /\ UNCHANGED <<network, selection, coord, observed, projection, worker,
                   selGate>>

\* start_dust_sync_in_realm, start_shielded_sync_in_realm: Updating says that
\* the port has a worker for the family.
StartWorker(c, facet) ==
    LET r == call[c].realm
    IN /\ call[c].pc = "starting"
       /\ worker' = IF facet = "Updating"
                    THEN [worker EXCEPT ![r] = @ \cup {call[c].current.kind}]
                    ELSE worker
       /\ opGate' = None
       /\ Move(c, [call[c] EXCEPT !.pc = "complete", !.result = facet])
       /\ UNCHANGED <<network, selection, coord, observed, projection,
                      selGate>>

\* sync_in_realm answers.
SyncAccount(c, facet) ==
    /\ call[c].pc = "syncing"
    /\ Move(c, [call[c] EXCEPT !.pc = "complete", !.result = facet])
    /\ UNCHANGED <<network, selection, coord, observed, projection, worker,
                   selGate, opGate>>

\* The call returns and its guard is dropped.
Leave(c) ==
    /\ coord' = [coord EXCEPT ![call[c].realm] =
           Abandoned(@, call[c].guard)]
    /\ Move(c, [call[c] EXCEPT !.pc = "done", !.guard = {},
                               !.current = None, !.result = None])

\* Fault: the guard of a dropped future expires nothing.
AbandonKeepsLeases(c) ==
    /\ call[c].pc = "syncing"
    /\ Move(c, [call[c] EXCEPT !.pc = "done", !.guard = {},
                               !.current = None, !.result = None])
    /\ UNCHANGED <<network, selection, coord, observed, projection, worker,
                   selGate, opGate>>

\* The caller drops the future while it waits for the account.
Abandon(c) ==
    /\ call[c].pc = "syncing"
    /\ Leave(c)
    /\ UNCHANGED <<network, selection, observed, projection, worker, selGate,
                   opGate>>

\* complete_effect_and_publish, for a call whose authority is current: the
\* lease ends, the newest published view (of this authority: the call itself
\* published one) takes the family of the effect, and the observation is
\* published under a new generation.  A private family is read once more from
\* its port, so `facet` need not be the result.
PublishEffect(c, facet) ==
    LET r == call[c].realm
        e == call[c].current
        next == Release(coord[r], {e}, call[c].result)
        view == [projection[r].view EXCEPT ![e.kind] = facet]
        token == NewObservation(observed[r])
        guard == (call[c].guard \ {e}) \cup next.effects
    IN /\ coord' = [coord EXCEPT ![r] = next.state]
       /\ observed' = [observed EXCEPT ![r] = token]
       /\ projection' = [projection EXCEPT ![r] =
              Published(@, token, view, next.state.leases # {})]
       /\ Move(c, [call[c] EXCEPT !.pc = Onward(guard), !.guard = guard,
                                  !.current = None, !.result = None])

\* complete_effect_and_publish: under the selection gate; after a change of
\* network, or under an outdated authority, the call returns instead.
CompleteEffect(c, facet) ==
    /\ call[c].pc = "complete"
    /\ selGate = None
    /\ call[c].current.kind = "account" => facet = call[c].result
    /\ IF \/ network # call[c].realm
          \/ observed[call[c].realm].authority # call[c].token.authority
       THEN Leave(c) /\ UNCHANGED <<observed, projection>>
       ELSE PublishEffect(c, facet)
    /\ UNCHANGED <<network, selection, worker, selGate, opGate>>

\* The port cannot name the selected network: the call fails.
CompletionFails(c) ==
    /\ call[c].pc = "complete"
    /\ selGate = None
    /\ Leave(c)
    /\ UNCHANGED <<network, selection, observed, projection, worker, selGate,
                   opGate>>

-----------------------------------------------------------------------------
(***************************************************************************)
(* cancel                                                                  *)
(***************************************************************************)

\* cancel_profile under the operation gate: every realm of the profile.
CancelProfile(c) ==
    /\ call[c].pc = "cancel"
    /\ opGate = None
    /\ opGate' = c
    /\ coord' = [r \in Realms |->
           IF coord[r].known THEN Cancel(coord[r]) ELSE coord[r]]
    /\ observed' = [r \in Realms |->
           IF coord[r].known THEN NewAuthority(observed[r]) ELSE observed[r]]
    /\ projection' = [r \in Realms |->
           IF coord[r].known THEN Bumped(projection[r]) ELSE projection[r]]
    /\ Move(c, [call[c] EXCEPT !.pc = "cancelling"])
    /\ UNCHANGED <<network, selection, worker, selGate>>

\* cancel_dust_sync_in_realm, cancel_shielded_sync_in_realm
CancelWorkers(c) ==
    /\ call[c].pc = "cancelling"
    /\ worker' = [worker EXCEPT ![call[c].realm] = {}]
    /\ opGate' = None
    /\ Move(c, [call[c] EXCEPT !.pc = "publish"])
    /\ UNCHANGED <<network, selection, coord, observed, projection, selGate>>

\* begin_observation and publish_projection_while_selected
PublishCancelled(c, view) ==
    LET r == call[c].realm
        token == NewObservation(observed[r])
    IN /\ call[c].pc = "publish"
       /\ selection = r
       /\ observed' = [observed EXCEPT ![r] = token]
       /\ projection' = [projection EXCEPT ![r] =
              Published(@, token, view, coord[r].leases # {})]
       /\ selGate' = None
       /\ Move(c, [call[c] EXCEPT !.pc = "done"])
       /\ UNCHANGED <<network, selection, coord, worker, opGate>>

\* The port cannot name the selected network: nothing is published.
CancelFails(c) ==
    /\ call[c].pc = "publish"
    /\ selGate' = None
    /\ Move(c, [call[c] EXCEPT !.pc = "done"])
    /\ UNCHANGED <<network, selection, coord, observed, projection, worker,
                   opGate>>

-----------------------------------------------------------------------------
\* A private worker ends by itself.
WorkerEnds(r, f) ==
    /\ f \in worker[r]
    /\ worker' = [worker EXCEPT ![r] = @ \ {f}]
    /\ UNCHANGED <<network, selection, coord, observed, projection, selGate,
                   opGate, call>>

Enter(c) ==
    \/ \E t \in Triggers : ReconcileCall(c, t)
    \/ CancelCall(c)
    \/ \E r \in Realms : SelectCall(c, r)

Step(c) ==
    \/ Pin(c)
    \/ Unpin(c)
    \/ BeginObservation(c)
    \/ \E view \in [Families -> PortFacets] : Admit(c, view)
    \/ \E e \in call[c].guard : EnterAccount(c, e) \/ EnterPrivate(c, e)
    \/ \E facet \in PortFacets : SyncAccount(c, facet) \/ StartWorker(c, facet)
    \/ Abandon(c)
    \/ \E facet \in PortFacets : CompleteEffect(c, facet)
    \/ CompletionFails(c)
    \/ CancelProfile(c)
    \/ CancelWorkers(c)
    \/ \E view \in [Families -> PortFacets] : PublishCancelled(c, view)
    \/ CancelFails(c)

Next ==
    \/ \E c \in Calls : Enter(c) \/ Step(c)
    \/ \E r \in Realms, f \in Families : WorkerEnds(r, f)

Spec == Init /\ [][Next]_vars

\* A call runs on a thread of its own or is polled by the executor; a call
\* that waits for the account is answered or dropped.
FairSpec == Spec /\ \A c \in Calls : WF_vars(Step(c))

-----------------------------------------------------------------------------
(***************************************************************************)
(* Properties                                                              *)
(***************************************************************************)

\* Every lease that is out is held by the guard of exactly one call that is
\* still running, so it ends with that call and no family is left Updating
\* for good (WalletRealmLeaseGuard).
LeaseOwned ==
    \A r \in Realms : \A f \in coord[r].leases :
        LET holders == {c \in Calls :
                /\ call[c].realm = r
                /\ [revision |-> coord[r].revision, kind |-> f]
                       \in call[c].guard}
        IN /\ holders # {}
           /\ \A c, d \in holders : c = d
           /\ \A c \in holders : call[c].pc # "done"

\* The two fences agree: a call's effect still holds its lease exactly when
\* the authority the call was admitted under is current.  What cancel or a
\* change of network outdates can neither write the coordinator nor publish.
FencesAgree ==
    \A c \in Calls : \A e \in call[c].guard :
        Accepts(coord[call[c].realm], e)
          <=> call[c].token.authority = observed[call[c].realm].authority

\* The families a trigger would still have to reconcile.
Undone(t, s) == {f \in Families : Planned(t, s.facets[f])}

\* How a retained trigger of realm r may end.
TriggerEnds(r) ==
    LET t == coord[r].pending
    IN \/ /\ coord'[r].pending # None
          /\ Priority(coord'[r].pending) > Priority(t)
       \/ observed'[r].authority > observed[r].authority
       \/ Undone(t, coord'[r]) = {}
       \/ /\ observed' = observed
          /\ \E c \in Calls : /\ call[c].realm = r
                              /\ call[c].guard # {}
                              /\ call'[c].pc = "done"
          /\ \A f \in Undone(t, coord'[r]) : coord'[r].facets[f] = "Stale"

\* A trigger retained behind leases is not lost: it stays while a lease is
\* out, and gives way only to a stronger one, to cancel or a change of network
\* (which move the authority on), or when the last lease ends.  Then nothing
\* that it asks for is left undone: each family it plans is leased again.  The
\* one exception is a call that leaves without publishing: its guard also
\* expires the leases that its own expiry hands out, and every family that the
\* trigger plans is left Stale for the next reconciliation (complete_effect,
\* expire_effect, Drop of WalletRealmLeaseGuard).
RetainedTriggerServed ==
    /\ [](\A r \in Realms : coord[r].pending # None => coord[r].leases # {})
    /\ [][\A r \in Realms :
            coord[r].pending \notin {None, coord'[r].pending} =>
                TriggerEnds(r)]_vars

\* Outside the pin itself no private worker of a realm that is not selected
\* is running: starting one and retiring its realm exclude each other.
RetiredWorkersStopped ==
    \A r \in Realms : worker[r] # {} =>
        \/ r = selection
        \/ \E c \in Calls : call[c].pc = "unpin" /\ call[c].retired = r

\* While nobody holds the selection gate the registry's selected realm is the
\* wallet's network, so a client never reads the projection of another realm
\* as the selected one (latest_projection).
SelectionAgrees == selGate = None => selection \in {None, network}

\* What is published for a realm only moves forward: the authority and the
\* revision never go back, and new content comes with a new revision
\* (supersedes, publish).
ProjectionsAdvance ==
    [][\A r \in Realms : projection[r] # None =>
          /\ projection'[r] # None
          /\ projection'[r].authority >= projection[r].authority
          /\ projection'[r].revision >= projection[r].revision
          /\ \/ projection'[r].revision > projection[r].revision
             \/ /\ projection'[r].view = projection[r].view
                /\ projection'[r].reconciling = projection[r].reconciling]_vars

\* Every call that entered the service returns: the two gates are never held
\* against each other and the effects of a call run out.
CallsReturn == \A c \in Calls : call[c].pc # "idle" ~> call[c].pc = "done"

\* ADR-0114: readiness is derived from the facets, not a boolean stored
\* independently of them.
ReadinessDerived ==
    \A r \in Realms : Authoritative(r) =>
        (projection[r].reconciling <=> coord[r].leases # {})

=============================================================================
