--------------------------- MODULE DustSettlement ---------------------------
(***************************************************************************)
(* DUST settlement, composed: the capability and its executor              *)
(* (composition/src/dust_settlement.rs), the driver and the runtime it     *)
(* locks (wallet/application/src/dust_registration_driver.rs,              *)
(* dust_registration_runtime.rs), over the reducer of DustPolicy, the      *)
(* persistence worker of RecoveryPersistence and the port of DustAdapter.  *)
(*                                                                         *)
(* Callers run refresh, authorize and retry on the same capability.  A     *)
(* step of a caller ends where it lets go of a lock that another one may   *)
(* take, or awaits.  One profile and one network; authority is explicit.   *)
(* An admission belongs to the caller that drives, so its token is left    *)
(* out.  Futures are polled until done: the sleep of a waiter is treated   *)
(* in SubmissionBarrier.                                                   *)
(***************************************************************************)
EXTENDS DustPolicy, RecoveryPersistence, DustAdapter

CONSTANTS
  Callers,        \* tasks that use the capability
  MaxCalls,       \* calls made in all; one that begins while another is
                  \* running counts twice
  MaxOperations,  \* MAX_DRAINED_OPERATIONS
  MaxRetries,     \* MAX_SETTLEMENT_RETRIES
  MaxFaults       \* realm changes from outside, dropped calls, failed ports and
                  \* saves, and process deaths

ASSUME SettlementAssumption ==
  {MaxCalls, MaxOperations, MaxRetries, MaxFaults} \subseteq Nat

VARIABLES
  realm,     \* the selected realm: generation, revision, eligibility
  policy,    \* the runtime's coordinator
  admitted,  \* the runtime has an admitted effect
  driving,   \* the caller inside drain, or none
  retained,  \* RetainedSettlement
  attempts,  \* retry_attempts
  call,      \* where each caller is
  shown,     \* the watch channel: the projection published last
  calls, faults

persistence == <<rp, store>>
bounds == <<calls, faults>>
vars == <<realm, policy, admitted, driving, retained, attempts, call, shown,
          persistence, adapter, bounds>>

----------------------------------------------------------------------------
projection == policy.projection

IdentityOf(r) == [realm |-> "r", generation |-> r.generation]

NoBound == [generation |-> 0, revision |-> 0, eligible |-> FALSE]

NewRetained ==
  [bound |-> NoBound, preview |-> None, ready |-> FALSE, confirmation |-> None,
   finality |-> FALSE, uncertain |-> FALSE, operation |-> 0, observation |-> 0]

\* A caller's locals: what it selected, the identity it supersedes or retries,
\* the effect it may authorize, the one it executes, the projection it has yet
\* to publish and what follows, the operations drained, and what it awaits.
NoCall ==
  [at |-> "idle", op |-> None, selected |-> NoBound, identity |-> NoIdentity,
   revision |-> 0, target |-> NoEffect, effect |-> NoEffect,
   pub |-> NoProjection, then |-> None, ops |-> 0,
   awaits |-> 0, subject |-> None, verdict |-> None, ok |-> FALSE, state |-> None]

Init ==
  /\ realm = [generation |-> 0, revision |-> 1, eligible |-> TRUE]
  /\ policy = [projection |-> NoProjection, effect |-> NoEffect]
  /\ admitted = FALSE /\ driving = None
  /\ retained = NewRetained
  /\ attempts = [identity |-> NoIdentity, count |-> 0]
  /\ call = [c \in Callers |-> NoCall]
  /\ shown = NoProjection
  /\ rp = PersistenceInit(TRUE) /\ store = NoRecord
  /\ AdapterInit
  /\ calls = 0 /\ faults = 0

At(c, place) == call[c].at = place

\* bind: another identity or generation empties what was retained.
Bind(r, selected) ==
  LET fresh == [NewRetained EXCEPT !.operation = r.operation]
      base == IF r.bound = NoBound \/ r.bound.generation # selected.generation THEN fresh ELSE r
  IN  [base EXCEPT !.bound = selected, !.operation = Biggest(@, selected.revision)]

\* validate_bound
Bound(identity) ==
  /\ retained.bound # NoBound /\ IdentityOf(retained.bound) = identity
  /\ retained.bound.generation = realm.generation /\ retained.bound.revision = realm.revision

----------------------------------------------------------------------------
(* The driver.  A call that leaves the drain continues as its operation    *)
(* asks: ok says whether the driver answered with a projection, p is that  *)
(* projection, q the persistence state and r what is retained by then.     *)

AfterDrain(k, ok, p, q) ==
  CASE k.op = "supersede" -> IF ok THEN [k EXCEPT !.op = "refresh", !.at = "bind"] ELSE NoCall
    [] k.op = "retry" \/ (k.op = "authorize" /\ ok) ->
         [NoCall EXCEPT !.at = "flushing", !.op = k.op, !.awaits = q.latestGeneration, !.ok = ok,
                        !.identity = IF k.op = "retry" THEN k.identity ELSE p.identity, !.state = p.state]
    [] OTHER -> NoCall

Left(c, ok, p, q, r) ==
  LET k == call[c]
  IN  /\ call' = [call EXCEPT ![c] = AfterDrain(k, ok, p, q)]
      /\ retained' = IF k.op = "authorize" /\ ~ok THEN [r EXCEPT !.confirmation = None] ELSE r
      /\ attempts' = IF k.op = "refresh" /\ ok /\ ~Recoverable(p.state)
                       THEN [identity |-> IdentityOf(k.selected), count |-> 0] ELSE attempts

\* The runtime's projection changed to next, or did not; a change is published
\* outside the lock.
Changed(c, next, then) ==
  call' = [call EXCEPT ![c] =
             [@ EXCEPT !.at = "publish", !.pub = next.projection, !.then = then,
                       !.effect = NoEffect, !.awaits = 0, !.subject = None, !.verdict = None]]

\* Fault: an observation leaves the admission of the effect it replaces.
AdvanceAdmitted(c, e) ==
  \E next \in {Observed(policy, e)} :
    /\ policy' = next
    /\ UNCHANGED admitted
    /\ IF next.projection = projection THEN call' = [call EXCEPT ![c].at = "drain"]
       ELSE Changed(c, next, "drain")

\* advance, up to its drain
Advance(c, e) ==
  \E next \in {Observed(policy, e)} :
    LET same == next.projection = projection
    IN  /\ policy' = next
        /\ admitted' = (admitted /\ same)
        /\ IF same THEN call' = [call EXCEPT ![c].at = "drain"] ELSE Changed(c, next, "drain")

\* A completion of the admitted effect.  An observation that changed the
\* projection meanwhile has taken the admission away.
Complete(c, e, pause, q, r) ==
  \E next \in {Coordinated(projection, e)} :
    LET void == admitted /\ next.projection = projection
        k == [call[c] EXCEPT !.effect = NoEffect, !.awaits = 0, !.subject = None, !.verdict = None]
    IN  /\ admitted' = FALSE
        /\ rp' = q
        /\ \/ /\ void \/ (~admitted /\ k.target # NoEffect)
              /\ driving' = None /\ Left(c, FALSE, projection, q, r) /\ UNCHANGED policy
           \/ /\ ~admitted /\ k.target = NoEffect
              /\ call' = [call EXCEPT ![c] = [k EXCEPT !.at = "loop"]]
              /\ retained' = r /\ UNCHANGED <<policy, driving, attempts>>
           \/ /\ admitted /\ ~void
              /\ policy' = next
              /\ call' = [call EXCEPT ![c] =
                            [k EXCEPT !.at = "publish", !.pub = next.projection,
                                      !.then = IF pause THEN "pause" ELSE "loop",
                                      !.target = NoEffect]]
              /\ retained' = r /\ UNCHANGED <<driving, attempts>>

\* An executor failure becomes a recoverable state.
Fail(c, kind, q, r) ==
  \E next \in {IF projection.identity = NoIdentity THEN policy
               ELSE Observed(policy, [kind |-> kind, identity |-> projection.identity,
                       revision |-> Biggest(projection.recovery, projection.checkpoint.revision) + 1])} :
    /\ admitted' = FALSE
    /\ policy' = next
    /\ rp' = q
    /\ IF next.projection = projection
         THEN driving' = None /\ Left(c, FALSE, projection, q, r)
         ELSE Changed(c, next, "error") /\ retained' = r /\ UNCHANGED <<driving, attempts>>

\* The observer: the watch channel, then the persistence worker.
Recorded(p) ==
  IF HasRecord(p) THEN Enqueue(rp, RecordOf(p), p.state = "Submitting") ELSE RejectCurrent(rp)

Publish(c) ==
  LET k == call[c]
  IN  /\ At(c, "publish")
      /\ shown' = k.pub
      /\ rp' = Recorded(k.pub)
      /\ IF k.then \in {"drain", "loop"}
           THEN /\ call' = [call EXCEPT ![c] = [@ EXCEPT !.at = k.then, !.pub = NoProjection,
                                                         !.then = None]]
                /\ UNCHANGED <<driving, retained, attempts>>
           ELSE driving' = None /\ Left(c, k.then = "pause", k.pub, rp', retained)
      /\ UNCHANGED <<realm, policy, admitted, store, adapter, bounds>>

\* The drain turns away a second driver, or goes round once more.
Busy(c) ==
  /\ At(c, "drain") /\ driving # None
  /\ Left(c, call[c].target = NoEffect, projection, rp, retained)
  /\ UNCHANGED <<realm, policy, admitted, driving, shown, persistence, adapter, bounds>>

Exhausted(k) == k.ops = MaxOperations
Stops(k, f) ==
  \/ Exhausted(k) \/ admitted \/ f.kind = None
  \/ IF k.target = NoEffect THEN f.kind = "Authorize" ELSE f # k.target
StopsOk(k, f) ==
  IF Exhausted(k) THEN f.kind \in {None, "Authorize"} ELSE f.kind = None \/ k.target = NoEffect

Drain(c) ==
  LET k == call[c]
      f == policy.effect
  IN  /\ At(c, "loop") \/ (At(c, "drain") /\ driving = None)
      /\ IF Stops(k, f)
           THEN /\ driving' = None
                /\ Left(c, StopsOk(k, f), projection, rp, retained)
                /\ UNCHANGED admitted
           ELSE /\ driving' = c
                /\ admitted' = TRUE
                /\ call' = [call EXCEPT ![c] = [@ EXCEPT !.at = f.kind, !.effect = f, !.ops = @ + 1]]
                /\ UNCHANGED <<retained, attempts>>
      /\ UNCHANGED <<realm, policy, shown, persistence, adapter, bounds>>
----------------------------------------------------------------------------
(* The executor: one action for each stretch between two awaits.  A bound  *)
(* realm that is no longer the selected one ends every operation.          *)

Degraded(c, q, r) == Fail(c, "Degraded", q, r)

\* what an executor's step does not touch
outside == <<realm, shown, store, bounds>>

Executing(c, kind) ==
  /\ At(c, kind)
  /\ UNCHANGED outside

Of(c, kind) == [kind |-> kind, identity |-> call[c].effect.identity,
                draft |-> call[c].effect.subject, tx |-> call[c].effect.subject]

Awaiting(c, place, awaits, subject, verdict) ==
  /\ call' = [call EXCEPT ![c] = [@ EXCEPT !.at = place, !.awaits = awaits,
                                           !.subject = subject, !.verdict = verdict]]
  /\ UNCHANGED <<policy, admitted, driving, attempts>>

\* execute_prepare
Prepare(c) ==
  /\ Executing(c, "Prepare")
  /\ IF Bound(call[c].effect.identity)
       THEN Awaiting(c, "preparing", retained.bound.revision, None, None)
            /\ UNCHANGED <<retained, rp>>
       ELSE Degraded(c, rp, retained)
  /\ UNCHANGED adapter

Prepares(c) ==
  /\ Executing(c, "preparing")
  /\ \E p \in Fingerprints : \E a \in PrepareAnswers(p) :
       CASE a = "refused" -> Degraded(c, rp, retained) /\ UNCHANGED <<draft, fingerprint>>
         [] a = "current" ->
              /\ Complete(c, [kind |-> "RegistrationAlreadyCurrent",
                              identity |-> call[c].effect.identity,
                              revision |-> call[c].awaits], FALSE, rp, retained)
              /\ UNCHANGED <<draft, fingerprint>>
         [] OTHER ->
              /\ Prepared(a, p)
              /\ Complete(c, [kind |-> "AuthorizationRequested",
                              identity |-> call[c].effect.identity,
                              draft |-> a, revision |-> call[c].awaits], FALSE, rp,
                          [retained EXCEPT !.preview = a,
                                           !.ready = (draft[a].state = "Authorized")])
  /\ UNCHANGED <<journal, worker, chain>>

\* execute_authorize, up to the protected prompt and after it
Authorize(c) ==
  LET d == call[c].effect.subject
      taken == [retained EXCEPT !.confirmation = None]
  IN  /\ Executing(c, "Authorize")
      /\ CASE ~Bound(call[c].effect.identity) \/ retained.preview = None ->
                Degraded(c, rp, retained)
           [] OTHER ->
                CASE retained.preview # d \/ retained.confirmation = None -> Degraded(c, rp, taken)
                  [] retained.preview = d /\ retained.confirmation = "no" ->
                       Complete(c, Of(c, "AuthorizationRejected"), FALSE, rp, taken)
                  [] OTHER -> /\ Awaiting(c, "approving", 0, None, None)
                              /\ retained' = taken /\ UNCHANGED rp
      /\ UNCHANGED adapter

Approve(c) ==
  LET d == call[c].effect.subject
  IN  /\ Executing(c, "approving")
      /\ IF MayAuthorize(d)
           THEN /\ draft' = Authorized(d)
                /\ Complete(c, Of(c, "AuthorizationSucceeded"), FALSE, rp,
                            [retained EXCEPT !.preview = d, !.ready = TRUE])
           ELSE Degraded(c, rp, retained) /\ UNCHANGED draft
      /\ UNCHANGED <<fingerprint, journal, worker, chain>>

\* execute_submit: the wait for the durable record
Submit(c) ==
  /\ Executing(c, "Submit")
  /\ IF Bound(call[c].effect.identity) /\ rp.required # 0
       THEN Awaiting(c, "pinning", rp.required, None, None) /\ UNCHANGED <<retained, rp>>
       ELSE Degraded(c, rp, retained)
  /\ UNCHANGED adapter

\* recover_submission: only a journal entry names a transaction.
Recovered(d) == CASE journal[d] # "absent" -> "observed"
                  [] Status(d) = "Cancelled" -> "cancelled"
                  [] OTHER -> "failed"

DurablyRecorded(identity, d) ==
  /\ store # NoRecord
  /\ store.identity = identity /\ store.state = "Submitting" /\ store.registration.draft = d

\* execute_submit with the pin held, up to the port.  Without a preview, or
\* when an earlier attempt may have been sent, the status decides.
Another(d) == retained.preview # None /\ (retained.preview # d \/ ~retained.ready)
Again(d) ==
  retained.preview # None /\ (retained.uncertain => Recovered(d) = "cancelled")

ReachesPort(c) ==
  LET d == call[c].effect.subject
  IN  /\ Pinned(rp, call[c].awaits)
      /\ ~Another(d) /\ Again(d)
      /\ DurablyRecorded(call[c].effect.identity, d) /\ MaySubmit(d)

Pin(c) ==
  LET k == call[c]
      d == k.effect.subject
      free == Release(rp, rp.held)
  IN  /\ Executing(c, "pinning")
      /\ \/ /\ Refused(rp, k.awaits)
            /\ Degraded(c, rp, retained) /\ UNCHANGED <<draft, worker>>
         \/ /\ Pinned(rp, k.awaits)
            /\ Another(d) \/ (~Again(d) /\ Recovered(d) # "observed")
            /\ Degraded(c, free, retained) /\ UNCHANGED <<draft, worker>>
         \/ /\ Pinned(rp, k.awaits) /\ ~Another(d) /\ ~Again(d) /\ Recovered(d) = "observed"
            /\ Complete(c, Of(c, "SubmissionAccepted"), FALSE, free, retained)
            /\ UNCHANGED <<draft, worker>>
         \/ /\ Pinned(rp, k.awaits) /\ ~Another(d) /\ Again(d) /\ ~ReachesPort(c)
            /\ Degraded(c, free, [retained EXCEPT !.uncertain = FALSE])
            /\ UNCHANGED <<draft, worker>>
         \/ /\ ReachesPort(c)
            /\ draft' = Submitting(d) /\ worker' = Spawned(d)
            /\ retained' = [retained EXCEPT !.uncertain = TRUE]
            /\ Awaiting(c, "submitting", rp.held, None, None)
            /\ UNCHANGED rp
      /\ UNCHANGED <<fingerprint, journal, chain>>

\* execute_submit with the port's answer
Submits(c) ==
  LET d == call[c].effect.subject
      free == Release(rp, call[c].awaits)
      answer == worker[d].answer
      accepted(r) == Complete(c, Of(c, "SubmissionAccepted"), FALSE, free, r)
  IN  /\ Executing(c, "submitting")
      /\ worker[d].at = "done"
      /\ CASE answer = "included" ->
                accepted([retained EXCEPT !.preview = d, !.ready = FALSE,
                                          !.uncertain = FALSE, !.finality = FALSE])
           [] answer = "unknown" -> accepted([retained EXCEPT !.finality = FALSE])
           [] OTHER -> Degraded(c, free, [retained EXCEPT !.uncertain = FALSE])
      /\ UNCHANGED adapter
\* next_chain_observation_revision
NextObservation(r) == [r EXCEPT !.operation = @ + 1, !.observation = r.operation + 1]

\* Fault: what is not rejected is taken for included.
OutcomeHopeful(verdict) == IF verdict = "Rejected" THEN "Dropped" ELSE "Included"

Outcome(verdict) == CASE verdict = "Included" -> "Included"
                      [] verdict = "Rejected" -> "Dropped"
                      [] OTHER -> "Pending"

\* The last lines of execute_observe.
Observation(c, d, verdict) ==
  IF d # call[c].effect.subject THEN Degraded(c, rp, retained)
  ELSE LET r == NextObservation(retained)
       IN  Complete(c, [kind |-> "RegistrationReconciled", identity |-> call[c].effect.identity,
                        tx |-> d, revision |-> r.observation, verdict |-> Outcome(verdict)],
                    Outcome(verdict) = "Pending", rp, r)

\* execute_observe: the draft of the preview, or of the durable record
Observe(c) ==
  LET identity == call[c].effect.identity
      recorded == store # NoRecord /\ store.identity = identity
      d == IF retained.preview # None THEN retained.preview
           ELSE IF recorded THEN store.registration.draft ELSE None
      r == [NextObservation(retained) EXCEPT !.finality = TRUE]
  IN  /\ Executing(c, "Observe")
      /\ CASE ~Bound(identity) \/ d = None -> Degraded(c, rp, retained)
           [] OTHER ->
                CASE journal[d] = "absent" -> Degraded(c, rp, retained)
                  [] journal[d] = "Included" /\ ~retained.finality ->
                       Complete(c, [kind |-> "FinalityObserved", identity |-> identity,
                                    tx |-> call[c].effect.subject, revision |-> r.observation],
                                FALSE, rp, r)
                  [] Reconcilable(d) ->
                       Awaiting(c, "reconciling", 0, d, Verdict(d)) /\ UNCHANGED <<retained, rp>>
                  [] OTHER -> Observation(c, d, journal[d])
      /\ UNCHANGED adapter

Reconcile(c) ==
  LET d == call[c].subject
  IN  /\ Executing(c, "reconciling")
      /\ journal' = [journal EXCEPT ![d] = call[c].verdict]
      /\ draft' = ReconciledDraft(d, call[c].verdict)
      /\ Observation(c, d, call[c].verdict)
      /\ UNCHANGED <<fingerprint, worker, chain>>

Refreshed(c, r, after, ready) ==
  Complete(c, [kind |-> "DustRefreshed", identity |-> call[c].effect.identity,
               tx |-> call[c].effect.subject, revision |-> r.operation + 1,
               after |-> after, ready |-> ready],
           ~ready, rp, [r EXCEPT !.operation = @ + 1])

\* execute_refresh: the DUST balance the wallet knows, else after a sync
RefreshDust(c) ==
  /\ Executing(c, "Refresh")
  /\ IF Bound(call[c].effect.identity) /\ retained.observation > 0
       THEN \/ Refreshed(c, retained, retained.observation, TRUE)
            \/ Awaiting(c, "syncing", retained.observation, None, None)
               /\ UNCHANGED <<retained, rp>>
       ELSE Degraded(c, rp, retained)
  /\ UNCHANGED adapter

SyncDust(c) ==
  LET synced == [realm EXCEPT !.revision = @ + 1]
  IN  /\ At(c, "syncing")
      /\ realm' = synced
      /\ IF realm.generation = call[c].effect.identity.generation
           THEN \E ready \in BOOLEAN :
                  Refreshed(c, Bind(retained, synced), call[c].awaits, ready)
           ELSE Degraded(c, rp, retained)
      /\ UNCHANGED <<shown, store, bounds, adapter>>

----------------------------------------------------------------------------
(* The capability's operations.                                            *)

Begin(c, k) ==
  /\ At(c, "idle")
  /\ calls' = calls + (IF \A x \in Callers : At(x, "idle") THEN 1 ELSE 2)
  /\ calls' <= MaxCalls
  /\ call' = [call EXCEPT ![c] = k]
  /\ UNCHANGED <<realm, policy, admitted, driving, attempts, shown, persistence, adapter,
                 faults>>

\* refresh: the selected realm, then the current projection, whose identity
\* is superseded when it is another one
Refresh(c) ==
  /\ Begin(c, [NoCall EXCEPT !.at = "current", !.op = "refresh", !.selected = realm])
  /\ UNCHANGED retained

inside == <<realm, shown, persistence, adapter, bounds>>

RefreshCurrent(c) ==
  LET k == call[c]
      old == projection.identity # NoIdentity /\ projection.identity # IdentityOf(k.selected)
  IN  /\ At(c, "current")
      /\ call' = [call EXCEPT ![c] =
                    [@ EXCEPT !.at = IF old THEN "supersede" ELSE "bind",
                              !.op = IF old THEN "supersede" ELSE "refresh",
                              !.identity = projection.identity]]
      /\ UNCHANGED <<policy, admitted, driving, retained, attempts, inside>>

Supersede(c) ==
  /\ At(c, "supersede")
  /\ Advance(c, [kind |-> "Superseded", identity |-> call[c].identity])
  /\ UNCHANGED <<driving, retained, attempts, inside>>

BindSelected(c) ==
  LET k == call[c]
      identity == IdentityOf(k.selected)
  IN  /\ At(c, "bind")
      /\ retained' = Bind(retained, k.selected)
      /\ attempts' = IF k.identity # identity THEN [identity |-> identity, count |-> 0]
                      ELSE attempts
      /\ call' = [call EXCEPT ![c] = [@ EXCEPT !.at = "observe", !.ops = 0]]
      /\ UNCHANGED <<policy, admitted, driving, inside>>

ObserveRealm(c) ==
  LET k == call[c]
  IN  /\ At(c, "observe")
      /\ Advance(c, [kind |-> "Eligibility", identity |-> IdentityOf(k.selected),
                     revision |-> retained.bound.revision, eligible |-> k.selected.eligible])
      /\ UNCHANGED <<driving, retained, attempts, inside>>

\* authorize: the decision is staged, then the effect to authorize is read
AuthorizeCall(c, decision) ==
  /\ projection.state = "AwaitingAuthorization"
  /\ Begin(c, [NoCall EXCEPT !.at = "stage", !.op = "authorize", !.verdict = decision])
  /\ UNCHANGED retained

Stage(c) ==
  /\ At(c, "stage")
  /\ retained' = [retained EXCEPT !.confirmation = call[c].verdict]
  /\ call' = [call EXCEPT ![c] = [@ EXCEPT !.at = "target", !.verdict = None]]
  /\ UNCHANGED <<policy, admitted, driving, attempts, inside>>

Target(c) ==
  /\ At(c, "target")
  /\ IF policy.effect.kind = "Authorize"
       THEN /\ call' = [call EXCEPT ![c] = [@ EXCEPT !.at = "drain", !.target = policy.effect]]
            /\ UNCHANGED <<retained, attempts>>
       ELSE Left(c, FALSE, projection, rp, retained)
  /\ UNCHANGED <<policy, admitted, driving, inside>>

\* retry
RetryCall(c) ==
  /\ Recoverable(projection.state)
  /\ Begin(c, [NoCall EXCEPT !.at = "retry", !.op = "retry", !.identity = projection.identity,
                              !.revision = projection.recovery + 1])
  /\ UNCHANGED retained

Retry(c) ==
  /\ At(c, "retry")
  /\ IF attempts.identity = call[c].identity /\ attempts.count < MaxRetries
       THEN Advance(c, [kind |-> "Retry", identity |-> call[c].identity,
                        revision |-> call[c].revision])
       ELSE call' = [call EXCEPT ![c] = NoCall] /\ UNCHANGED <<policy, admitted>>
  /\ UNCHANGED <<driving, retained, attempts, inside>>

\* ensure_latest_persisted, and the retry budget
Flush(c) ==
  LET k == call[c]
      calm == k.ok /\ ~Recoverable(k.state)
  IN  /\ At(c, "flushing")
      /\ Flushed(rp, k.awaits) \/ FlushFailed(rp, k.awaits)
      /\ call' = [call EXCEPT ![c] = NoCall]
      /\ attempts' = CASE Flushed(rp, k.awaits) /\ calm -> [identity |-> k.identity, count |-> 0]
                       [] /\ Flushed(rp, k.awaits) /\ ~calm
                          /\ k.op = "retry" /\ attempts.identity = k.identity ->
                            [attempts EXCEPT !.count = @ + 1]
                       [] OTHER -> attempts
      /\ UNCHANGED <<policy, admitted, driving, retained, inside>>
----------------------------------------------------------------------------
(* Deadlines, dropped calls, failures, the world outside and process death *)

\* A future that goes away lets go of its pin and asks its worker to stop.
Abandons(c) ==
  /\ rp' = IF At(c, "submitting") THEN Release(rp, call[c].awaits) ELSE rp
  /\ worker' = IF At(c, "submitting")
                  THEN [worker EXCEPT ![call[c].effect.subject] = Cancelled(@)] ELSE worker

\* The protected prompt blocks its thread: no deadline interrupts "approving".
AwaitStages == {"preparing", "pinning", "submitting", "reconciling", "syncing"}

Timeout(c) ==
  /\ call[c].at \in AwaitStages
  /\ Abandons(c)
  /\ Fail(c, "TimedOut", rp', retained)
  /\ UNCHANGED <<outside, draft, fingerprint, journal, chain>>

Faulty == faults < MaxFaults /\ faults' = faults + 1

\* The caller's future is dropped; in ensure_latest_persisted this is also
\* what its deadline does.
Drop(c) ==
  /\ Faulty
  /\ call[c].at \in AwaitStages \cup {"flushing"}
  /\ Abandons(c)
  /\ call' = [call EXCEPT ![c] = NoCall]
  /\ driving' = IF driving = c THEN None ELSE driving
  /\ admitted' = (admitted /\ driving # c)
  /\ UNCHANGED <<realm, policy, retained, attempts, shown, store, draft, fingerprint, journal,
                 chain, calls>>

\* A port fails, or the user refuses the prompt.
PortFails(c) ==
  /\ Faulty
  /\ call[c].at \in {"preparing", "approving", "reconciling", "syncing"}
  /\ Degraded(c, rp, retained)
  /\ UNCHANGED <<realm, shown, store, adapter, calls>>

\* The user refuses the prompt in front of the submission.
SubmitRefused(c) ==
  /\ Faulty
  /\ At(c, "pinning") /\ ReachesPort(c)
  /\ Degraded(c, Release(rp, rp.held), [retained EXCEPT !.uncertain = FALSE])
  /\ UNCHANGED <<realm, shown, store, adapter, calls>>

Persist ==
  /\ WorkerTake \/ WorkerSave(TRUE)
  /\ UNCHANGED <<realm, policy, admitted, driving, retained, attempts, call, shown, adapter,
                 bounds>>

SaveFails ==
  /\ Faulty
  /\ WorkerSave(FALSE)
  /\ UNCHANGED <<realm, policy, admitted, driving, retained, attempts, call, shown, adapter,
                 calls>>

Adapter ==
  /\ \E d \in Drafts : WorkerStep(d) \/ Land(d)
  /\ UNCHANGED <<realm, policy, admitted, driving, retained, attempts, call, shown,
                 persistence, bounds>>

\* The submission journal fails under a thread that has begun to broadcast.
JournalFails ==
  /\ Faulty
  /\ \E d \in Drafts : VerdictUnsaved(d) \/ LossUnsaved(d)
  /\ UNCHANGED <<realm, policy, admitted, driving, retained, attempts, call, shown,
                 persistence, calls>>

\* The wallet's realm service publishes a newer projection or another one is
\* selected.
Move ==
  /\ Faulty
  /\ \/ \E eligible \in BOOLEAN :
           realm' = [realm EXCEPT !.revision = @ + 1, !.eligible = eligible]
     \/ realm' = [realm EXCEPT !.revision = @ + 1, !.generation = @ + 1]
  /\ UNCHANGED <<policy, admitted, driving, retained, attempts, call, shown, persistence,
                 adapter, calls>>

\* The process dies; the next one is built over the journal and the store.  A
\* record that awaits authorization is cleared: its draft is gone.
\* Generations count the process's own changes of authority: the first call may
\* meet another one than the record's.
Crash ==
  LET record == IF store # NoRecord /\ store.state = "AwaitingAuthorization" THEN NoRecord
                ELSE store
      next == IF record = NoRecord THEN [projection |-> NoProjection, effect |-> NoEffect]
              ELSE Restored(record)
      r == next.projection.registration
  IN  /\ Faulty
      /\ store' = record /\ rp' = PersistenceInit(TRUE)
      /\ policy' = next /\ shown' = next.projection
      /\ attempts' = [identity |-> next.projection.identity, count |-> 0]
      /\ retained' = [NewRetained EXCEPT !.operation = Biggest(r.observation,
                                                               Biggest(r.dust, r.finality)),
                                         !.observation = r.observation]
      /\ admitted' = FALSE /\ driving' = None
      /\ call' = [c \in Callers |-> NoCall]
      /\ \E g \in {0, 1} : realm' = [realm EXCEPT !.generation = g, !.revision = 1]
      /\ AdapterCrash
      /\ UNCHANGED calls

Next ==
  \/ \E c \in Callers :
       \/ Refresh(c) \/ RefreshCurrent(c) \/ Supersede(c) \/ BindSelected(c) \/ ObserveRealm(c)
       \/ \E decision \in {"yes", "no"} : AuthorizeCall(c, decision)
       \/ Stage(c) \/ Target(c) \/ RetryCall(c) \/ Retry(c) \/ Flush(c)
       \/ Publish(c) \/ Busy(c) \/ Drain(c)
       \/ Prepare(c) \/ Prepares(c) \/ Authorize(c) \/ Approve(c)
       \/ Submit(c) \/ Pin(c) \/ Submits(c)
       \/ Observe(c) \/ Reconcile(c) \/ RefreshDust(c) \/ SyncDust(c)
       \/ Timeout(c) \/ Drop(c) \/ PortFails(c) \/ SubmitRefused(c)
  \/ Persist \/ SaveFails \/ Adapter \/ JournalFails \/ Move \/ Crash

Spec == Init /\ [][Next]_vars

----------------------------------------------------------------------------
\* Type correctness: the stages of a call, and the adapter's own states.
TypeOK ==
  /\ {projection.state, shown.state} \subseteq States
  /\ driving \in Callers \cup {None} /\ admitted \in BOOLEAN
  /\ \A c \in Callers :
       /\ call[c].ops \in 0..MaxOperations
       /\ call[c].at \in AwaitStages \cup
            {"idle", "current", "supersede", "bind", "observe", "stage", "target", "retry",
             "drain", "loop", "publish", "flushing", "approving",
             "Prepare", "Authorize", "Submit", "Observe", "Refresh"}
  /\ \A d \in Drafts :
       /\ draft[d].state \in {"absent", "Prepared", "Authorized", "Submitting", "Submitted"}
       /\ fingerprint[d] \in Fingerprints \cup {NoFingerprint}
       /\ journal[d] \in {"absent", "Broadcasting", "OutcomeUnknown", "Included", "Rejected"}
       /\ worker[d].at \in {"none", "proving", "recorded", "sent", "done"}
       /\ chain[d] \in {"absent", "pool", "included", "failed"}

OnItsWay(d) == chain[d] \in {"pool", "included"}

\* Two registrations compete: they were planned from the same eligible NIGHT,
\* or this process is still submitting the first one.
Rivals(x, d) == fingerprint[x] = fingerprint[d] \/ (x # d /\ draft[x].state = "Submitting")

(* ADR-0116: an interrupted submission is reconciled "before any retry; it *)
(* never blindly resubmits".  Through timeouts, lost watches, dropped      *)
(* calls, failing journals, realm changes and restarts, a registration is  *)
(* sent to the network only when none of the same eligible NIGHT, and none *)
(* this process is still submitting, waits there or was included.          *)
NeverSentAgain ==
  [][\A d \in Drafts : worker[d].at # "sent" /\ worker'[d].at = "sent"
       => ~\E x \in Drafts : Rivals(x, d) /\ OnItsWay(x)]_vars

(* prepare refuses a plan while the journal holds an unresolved one of the *)
(* same eligible NIGHT, or the process an unfinished draft of any other,   *)
(* and reads both long before the user decides.  Nobody is asked to        *)
(* authorize a registration while a rival is on its way, and while one is  *)
(* being submitted no rival has a worker or is on its way.                 *)
OneRegistration ==
  LET s == EffectiveState(projection)
      d == projection.registration.draft
  IN  /\ s = "AwaitingAuthorization" => ~\E x \in Drafts : Rivals(x, d) /\ OnItsWay(x)
      /\ s \in {"AwaitingAuthorization", "Submitting"} =>
           \A x \in Drafts \ {d} :
             Rivals(x, d) => worker[x].at \in {"none", "done"} /\ ~OnItsWay(x)

(* Ready, seen through whatever outage followed it, is said only of an     *)
(* account whose registration the chain included: neither a verdict        *)
(* fetched before an await nor a restored record makes it so.              *)
ReadyIsTrue == EffectiveState(projection) = "Ready" => Landed

(* The admission token: an effect stays admitted only while the caller in  *)
(* the drain executes it and the coordinator still asks for it, so the     *)
(* answer to an effect that an observation replaced is not applied.        *)
AdmittedIsCurrent ==
  admitted => /\ policy.effect # NoEffect
              /\ \E c \in Callers : driving = c /\ call[c].effect = policy.effect

(* subscribe: "Observes ordered public projection changes".  Once every    *)
(* call has returned, the last projection shown is the current one.        *)
ShownIsCurrent == (\A c \in Callers : At(c, "idle")) => shown = projection

(* execute_submit: "Fail closed unless the authorized draft was durably    *)
(* recorded before broadcast", so that a restart finds it: as long as the  *)
(* thread that broadcasts it runs, the durable record is about that draft. *)
SentIsRecorded ==
  \A d \in Drafts : worker[d].at \in {"recorded", "sent"}
    => store # NoRecord /\ store.registration.draft = d
=============================================================================
