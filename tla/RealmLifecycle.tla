--------------------------- MODULE RealmLifecycle ---------------------------
(***************************************************************************)
(* The selected-realm lifecycle service of wallet/application/src:         *)
(* realm_lifecycle_policy.rs (when a reconciliation is requested, retained *)
(* or ignored) and realm_lifecycle_runtime.rs (the mutex-guarded state     *)
(* around it, with the action watch, its recovery and the snapshot).       *)
(*                                                                         *)
(* The guarded state is one record; each critical section is an operator   *)
(* on it.  RealmDriver and ActionRecovery hold the record and call them.   *)
(*                                                                         *)
(* Times are kept as ages.  A *_millis field holds how long ago the stored *)
(* instant was, capped at MaxAge, or Never for None; the code only ever    *)
(* compares "now minus stored" with a configured bound.  Age moves every   *)
(* age on by one unit.                                                     *)
(***************************************************************************)
EXTENDS ActionWatch, FiniteSetsExt

CONSTANTS Debounce, StaleAge, BackoffBase, BackoffMax, RetryCeiling,
          JitterWindow,    \* jitter_window_millis
          Jitter,          \* deterministic_jitter, per identity
          RequestTimeout,  \* request_timeout_millis
          SequenceWidth,   \* sequences are taken modulo this (2^64)
          RecoveryAttempts \* ACTION_RECOVERY_ATTEMPTS

(* What WalletRealmLifecyclePolicyConfig::new accepts. *)
ASSUME LifecycleConfig ==
  /\ {Debounce, StaleAge, BackoffBase, BackoffMax, RetryCeiling,
      RequestTimeout} \subseteq Nat \ {0}
  /\ BackoffBase <= BackoffMax
  /\ JitterWindow \in Nat /\ Jitter \in [Identities -> 0..JitterWindow]
  /\ SequenceWidth \in Nat /\ SequenceWidth > 1
  /\ RecoveryAttempts \in Nat \ {0}
  /\ MaxGeneration \in Nat \ {0}
  /\ NoIdentity \notin Identities

Never == -1
MaxAge == Max({Debounce, StaleAge, RequestTimeout}
                \cup {BackoffMax + Jitter[id] : id \in Identities})
Ages == {Never} \cup 0..MaxAge

Older(age) == IF age \in {Never, MaxAge} THEN age ELSE age + 1

(* "last is none, or now - last >= bound" *)
Elapsed(age, bound) == age = Never \/ age >= bound

(* A WalletRealmReconciliationState is only told apart by is_stale (some   *)
(* facet Stale or Missing) and by durable_facets, which makes an Updating  *)
(* facet stale.                                                            *)
Facets == {"Fresh", "Updating", "Stale"}
IsStale(facets) == facets = "Stale"
DurableFacets(facets) == IF facets = "Updating" THEN "Stale" ELSE facets

Triggers == {"Initial", "ManualRefresh", "ActionPreflight"}
Requests == [id : Identities, trigger : Triggers, seq : 1..SequenceWidth - 1]
NoRequest == [id |-> NoIdentity, trigger |-> "None", seq |-> 0]

----------------------------------------------------------------------------
(* WalletRealmLifecyclePolicy *)

NewPolicy ==
  [active |-> NoIdentity, foreground |-> FALSE, in_flight |-> NoRequest,
   pending |-> NoRequest, last_request |-> Never, last_fresh |-> Never,
   last_failure |-> Never, retry_count |-> 0, sequence |-> 0]

(* A decision is the policy after the input together with the request the  *)
(* caller must now execute (Request or Superseded; NoRequest for Retained  *)
(* and Ignored).                                                           *)
Decide(p, req) == [policy |-> p, req |-> req]
Ignored(p) == Decide(p, NoRequest)

(* next_sequence: wrapping_add(1).max(1) *)
NextSequence(p) == Max({(p.sequence + 1) % SequenceWidth, 1})

ResetActive(p) ==
  [p EXCEPT !.in_flight = NoRequest, !.pending = NoRequest,
            !.last_request = Never, !.last_fresh = Never,
            !.last_failure = Never, !.retry_count = 0]

ObserveFreshness(p, age, facets) ==
  IF IsStale(facets) THEN p ELSE [p EXCEPT !.last_fresh = age]

AdmitRequest(p, req, age) ==
  Decide([p EXCEPT !.last_request = age, !.in_flight = req], req)

(* request: one action preflight is retained behind another trigger. *)
RequestSync(p, trigger) ==
  LET req == [id |-> p.active, trigger |-> trigger, seq |-> NextSequence(p)]
      q   == [p EXCEPT !.sequence = req.seq]
  IN  IF p.in_flight = NoRequest THEN AdmitRequest(q, req, 0)
      ELSE IF \/ trigger # "ActionPreflight"
              \/ p.in_flight.trigger = "ActionPreflight"
              \/ p.pending # NoRequest
        THEN Ignored(p)
      ELSE Ignored([q EXCEPT !.pending = req])

RetryDelay(p) ==
  Min({BackoffBase * 2 ^ Max({p.retry_count - 1, 0}), BackoffMax})
    + (IF p.active = NoIdentity THEN 0 ELSE Jitter[p.active])

StaleEnough(p, facets) == IsStale(facets) \/ Elapsed(p.last_fresh, StaleAge)
OutsideDebounce(p) == Elapsed(p.last_request, Debounce)
RetryDue(p) ==
  Elapsed(IF p.last_failure # Never THEN p.last_failure ELSE p.last_request,
          RetryDelay(p))

Automatic(p, facets, periodic) ==
  IF /\ p.active # NoIdentity
     /\ p.foreground
     /\ StaleEnough(p, facets)
     /\ OutsideDebounce(p)
     /\ periodic => p.retry_count < RetryCeiling /\ RetryDue(p)
    THEN RequestSync(p, "ManualRefresh")
    ELSE Ignored(p)

(* Fault: an answer settles whatever is in flight for its realm. *)
SettlePolicyAnySequence(p, id, seq, age, facets, succeeded) ==
  IF p.active # id \/ p.in_flight = NoRequest THEN Ignored(p)
  ELSE
    LET q == [p EXCEPT !.in_flight = NoRequest, !.pending = NoRequest]
    IN  IF p.pending = NoRequest THEN Ignored(q)
        ELSE AdmitRequest(q, p.pending, age)

(* Fault: settling forgets the retained preflight. *)
SettlePolicyForgets(p, id, seq, age, facets, succeeded) ==
  IF p.active # id \/ p.in_flight = NoRequest \/ p.in_flight.seq # seq
    THEN Ignored(p)
  ELSE
    LET open == [p EXCEPT !.in_flight = NoRequest, !.pending = NoRequest]
        q == IF succeeded
               THEN ObserveFreshness([open EXCEPT !.retry_count = 0,
                                                  !.last_failure = Never],
                                     age, facets)
               ELSE [open EXCEPT !.last_failure = age,
                                 !.retry_count = Min({@ + 1, RetryCeiling})]
    IN  Ignored(q)

(* settle.  retry_count saturates at the ceiling here (at u8::MAX in the   *)
(* code): no guard tells larger values apart.                              *)
SettlePolicy(p, id, seq, age, facets, succeeded) ==
  IF p.active # id \/ p.in_flight = NoRequest \/ p.in_flight.seq # seq
    THEN Ignored(p)
  ELSE
    LET open == [p EXCEPT !.in_flight = NoRequest, !.pending = NoRequest]
        q == IF succeeded
               THEN ObserveFreshness([open EXCEPT !.retry_count = 0,
                                                  !.last_failure = Never],
                                     age, facets)
               ELSE [open EXCEPT !.last_failure = age,
                                 !.retry_count = Min({@ + 1, RetryCeiling})]
    IN  IF p.pending = NoRequest THEN Ignored(q)
        ELSE AdmitRequest(q, p.pending, age)

(* next_wakeup_millis: how long until it, or Never. *)
NextWakeup(p) ==
  LET left(age, bound) ==
        IF age = Never THEN 0 ELSE Max({bound - age, 0})
  IN  IF \/ ~p.foreground
         \/ p.active = NoIdentity
         \/ p.in_flight # NoRequest
         \/ p.retry_count >= RetryCeiling
        THEN Never
      ELSE Max({left(p.last_fresh, StaleAge), left(p.last_request, Debounce),
                left(p.last_failure, RetryDelay(p))})

(* in_flight_deadline_millis has passed. *)
DeadlinePassed(p) ==
  p.in_flight # NoRequest /\ p.last_request >= RequestTimeout

----------------------------------------------------------------------------
(* WalletRealmLifecycleInput, as the drivers send it: every now_millis is  *)
(* the present, so an input carries no time.                               *)

Input(name) == [name |-> name, id |-> NoIdentity, seq |-> 0, facets |-> "Stale"]
Selected(name, id, facets) == [Input(name) EXCEPT !.id = id, !.facets = facets]
Signal(name, facets) == [Input(name) EXCEPT !.facets = facets]
TimedOut(req) ==
  [Input("ReconciliationTimedOut") EXCEPT !.id = req.id, !.seq = req.seq]

Selections == {"Initialized", "RealmSelected"}
Signals == {"Foreground", "ConnectivityRestored", "PeriodicTick",
            "ActionPreflight"}

(* WalletRealmLifecyclePolicy::reduce *)
Reduce(p, in) ==
  CASE in.name \in Selections ->
         LET q == IF p.active \in {NoIdentity, in.id} THEN p ELSE ResetActive(p)
             s == [q EXCEPT !.active = in.id, !.foreground = TRUE]
         IN  RequestSync(ObserveFreshness(s, 0, in.facets), "Initial")
    [] in.name = "Backgrounded" ->
         Ignored([p EXCEPT !.foreground = FALSE, !.in_flight = NoRequest,
                           !.pending = NoRequest])
    [] in.name = "Foreground" ->
         Automatic([p EXCEPT !.foreground = TRUE], in.facets, FALSE)
    [] in.name = "ConnectivityRestored" -> Automatic(p, in.facets, FALSE)
    [] in.name = "PeriodicTick" -> Automatic(p, in.facets, TRUE)
    [] in.name = "ActionPreflight" ->
         IF p.active = NoIdentity THEN Ignored(p)
         ELSE RequestSync(p, "ActionPreflight")
    [] in.name = "ReconciliationObserved" ->
         Ignored(IF p.active = in.id THEN ObserveFreshness(p, 0, in.facets)
                 ELSE p)
    [] in.name = "ReconciliationTimedOut" ->
         SettlePolicy(p, in.id, in.seq, 0, in.facets, FALSE)

(* WalletRealmLifecycleCheckpoint::observe *)
ObserveInput(c, in) ==
  CASE in.name \in Selections ->
         [identity |-> in.id, facets |-> in.facets, now |-> 0]
    [] in.name \in Signals -> [c EXCEPT !.facets = in.facets, !.now = 0]
    [] in.name = "Backgrounded" -> [c EXCEPT !.now = 0]
    [] in.name = "ReconciliationObserved" ->
         IF c.identity = in.id THEN [c EXCEPT !.facets = in.facets, !.now = 0]
         ELSE c
    [] in.name = "ReconciliationTimedOut" ->
         IF c.identity = in.id THEN [c EXCEPT !.now = 0] ELSE c

----------------------------------------------------------------------------
(* WalletRealmLifecycleService: the state its mutex guards *)

NewService ==
  [policy |-> NewPolicy,
   checkpoint |-> [identity |-> NoIdentity, facets |-> "Stale", now |-> MaxAge],
   watch |-> NewWatchRuntime, recovery |-> NoWatch, attempts |-> 0,
   gen |-> 0, backgrounded |-> FALSE]

(* Fault: a realm may be selected over an unresolved action. *)
UnresolvedNever(s, in) == FALSE

(* admit answers UnresolvedAction and changes nothing. *)
Unresolved(s, in) ==
  /\ in.name \in Selections
  /\ s.checkpoint.identity \notin {NoIdentity, in.id}
  /\ s.recovery # NoWatch

(* Fault: every boundary replaces the retained recovery. *)
LeaveReplacing(s) ==
  LET b == Boundary(s.watch)
  IN  IF s.backgrounded THEN s
      ELSE [s EXCEPT !.backgrounded = TRUE, !.watch = b, !.gen = b.gen,
                     !.recovery = BoundaryRecovery(s.watch),
                     !.attempts = RecoveryAttempts]

(* The first Backgrounded is a lifecycle boundary: an active watch becomes *)
(* the recovery.                                                           *)
Leave(s) ==
  LET b == Boundary(s.watch)
      lost == s.watch.active # NoActive
  IN  IF s.backgrounded THEN s
      ELSE [s EXCEPT !.backgrounded = TRUE, !.watch = b, !.gen = b.gen,
                     !.recovery = IF lost THEN BoundaryRecovery(s.watch) ELSE @,
                     !.attempts = IF lost THEN RecoveryAttempts ELSE @]

(* The first Foreground after it spends one attempt, or gives the recovery *)
(* up when none is left.                                                   *)
Return(s) ==
  LET spent == IF ~s.backgrounded \/ s.recovery = NoWatch THEN s
               ELSE IF s.attempts = 0
                 THEN [s EXCEPT !.recovery = NoWatch,
                                !.watch = EndRecovery(s.watch, s.recovery.kind,
                                                      "OutcomeUnresolved")]
               ELSE [s EXCEPT !.attempts = @ - 1]
  IN  [spent EXCEPT !.backgrounded = FALSE]

(* admit up to the policy: the checkpoint, the boundary and the watch's    *)
(* realm.                                                                  *)
Bound(s, in) ==
  LET c == [s EXCEPT !.checkpoint = ObserveInput(s.checkpoint, in)]
      w == SelectRealm(c.watch, in.id)
  IN  CASE in.name = "Backgrounded" -> Leave(c)
        [] in.name = "Foreground" -> Return(c)
        [] in.name \in Selections ->
             [c EXCEPT !.backgrounded = FALSE, !.watch = w, !.gen = w.gen]
        [] OTHER -> c

(* begin: admit, and the request the execution starts with.  A refused     *)
(* input leaves the service as it is.                                      *)
Begin(s, in) ==
  IF Unresolved(s, in) THEN [svc |-> s, req |-> NoRequest, ok |-> FALSE]
  ELSE LET b == Bound(s, in)
           d == Reduce(b.policy, in)
       IN  [svc |-> [b EXCEPT !.policy = d.policy], req |-> d.req, ok |-> TRUE]

(* policy.owns, and the checkpoint on the request's identity *)
Current(s, req) ==
  /\ s.policy.active = req.id
  /\ s.policy.in_flight # NoRequest
  /\ s.policy.in_flight.seq = req.seq
  /\ s.checkpoint.identity = req.id

(* fallback_facets: what a failed request reports *)
FallbackFacets(s, id) ==
  IF s.checkpoint.identity = id THEN s.checkpoint.facets ELSE "Stale"

(* settle of an executed request; `now' is the checkpoint's, not the       *)
(* present.                                                                *)
Settle(s, req, facets, succeeded) ==
  LET age == IF s.checkpoint.identity = req.id THEN s.checkpoint.now ELSE MaxAge
      d == SettlePolicy(s.policy, req.id, req.seq, age, facets, succeeded)
  IN  [svc |-> [s EXCEPT !.policy = d.policy,
                         !.checkpoint.facets = IF Current(s, req) THEN facets
                                               ELSE @],
       req |-> d.req]

(* reconcile_action_recovery and expire_action_recovery *)
ReconcileRecovery(s, gen, o, outcome) ==
  IF \/ s.recovery = NoWatch
     \/ gen # s.gen
     \/ ~MatchesWatch(s.recovery, o)
     \/ outcome = "Pending"
    THEN s
    ELSE [s EXCEPT !.recovery = NoWatch, !.attempts = 0,
                   !.watch = EndRecovery(s.watch, s.recovery.kind, outcome)]

ExpireRecovery(s) ==
  IF s.recovery = NoWatch THEN s
  ELSE [s EXCEPT !.recovery = NoWatch, !.attempts = 0,
                 !.watch = EndRecovery(s.watch, s.recovery.kind,
                                       "OutcomeUnresolved")]

(* checkpoint() *)
Snapshot(s) ==
  [identity |-> s.checkpoint.identity,
   facets |-> DurableFacets(s.checkpoint.facets),
   gen |-> s.gen, recovery |-> s.recovery, attempts |-> s.attempts]

(* restore() accepts the snapshot. *)
Restorable(n) ==
  /\ ~(n.identity = NoIdentity /\ n.recovery # NoWatch)
  /\ n.gen # MaxGeneration
  /\ (n.recovery # NoWatch) <=> (n.attempts > 0)
  /\ n.attempts <= RecoveryAttempts

(* restore() on the service of a new process *)
Restore(n) ==
  [policy |-> [NewPolicy EXCEPT !.active = n.identity],
   checkpoint |-> [identity |-> n.identity, facets |-> DurableFacets(n.facets),
                   now |-> MaxAge],
   watch |-> RestoreWatch(n.identity, n.recovery, Bump(n.gen)),
   recovery |-> n.recovery, attempts |-> n.attempts,
   gen |-> Bump(n.gen), backgrounded |-> TRUE]

(* One unit of time passes. *)
Age(s) ==
  [s EXCEPT !.policy.last_request = Older(@), !.policy.last_fresh = Older(@),
            !.policy.last_failure = Older(@), !.checkpoint.now = Older(@)]

Policies ==
  [active : Identities \cup {NoIdentity}, foreground : BOOLEAN,
   in_flight : Requests \cup {NoRequest}, pending : Requests \cup {NoRequest},
   last_request : Ages, last_fresh : Ages, last_failure : Ages,
   retry_count : 0..RetryCeiling, sequence : 0..SequenceWidth - 1]

Services ==
  [policy : Policies,
   checkpoint : [identity : Identities \cup {NoIdentity}, facets : Facets,
                 now : 0..MaxAge],
   watch : WatchRuntimes, recovery : Watches \cup {NoWatch},
   attempts : 0..RecoveryAttempts, gen : 0..MaxGeneration,
   backgrounded : BOOLEAN]
=============================================================================
