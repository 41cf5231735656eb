----------------------------- MODULE DustPolicy -----------------------------
(***************************************************************************)
(* DUST-registration settlement as pure functions:                         *)
(*   - the reducer of dust_registration_policy.rs, from a projection and   *)
(*     an event to the next projection;                                    *)
(*   - the coordinator of dust_registration_coordinator.rs, which derives  *)
(*     the one external effect a projection asks for;                      *)
(*   - the public recovery record of dust_registration_recovery.rs, what   *)
(*     it refuses and what it restores.                                    *)
(* An identity is a realm (with its profile) and a generation.  "none" is  *)
(* the None of a state, a draft or a transaction; revisions are naturals.  *)
(***************************************************************************)
EXTENDS Integers

None == "none"
NoIdentity == [realm |-> None, generation |-> 0]

RecoverableStates == {"Offline", "TimedOut", "Degraded", "Suspended"}
States == {"Unavailable", "NotEligible", "ActionRequired", "AwaitingAuthorization",
           "Submitting", "Confirming", "Reconciling", "Ready", "Cancelled"}
          \cup RecoverableStates

NoRegistration ==
  [draft |-> None, phase |-> "Awaiting", tx |-> None, observation |-> 0, finality |-> 0,
   reconciliation |-> 0, dust |-> 0, dustObservation |-> 0, dustReady |-> FALSE,
   included |-> FALSE, abandonment |-> 0]

PendingRegistration(d) == [NoRegistration EXCEPT !.draft = d]

NoProjection ==
  [state |-> "Unavailable", identity |-> NoIdentity, registration |-> NoRegistration,
   checkpoint |-> [revision |-> 0, eligible |-> FALSE, identity |-> NoIdentity],
   preparation |-> 0, recovery |-> 0, parked |-> NoRegistration,
   resume |-> None, pendingRetry |-> 0]

Biggest(a, b) == IF a >= b THEN a ELSE b

-----------------------------------------------------------------------------
(* Predicates and updates the reducer is written with.                     *)

Recoverable(s) == s \in RecoverableStates

HasCheckpoint(p) == p.checkpoint.identity # NoIdentity
HasRegistration(p) == p.registration.draft # None
HasParked(p) == p.parked.draft # None
HasDraft(p, d) == HasRegistration(p) /\ p.registration.draft = d
HasTransaction(p, t) == p.registration.tx # None /\ p.registration.tx = t
HasSubmitted(p) == p.registration.tx # None
Abandoned(p) == p.registration.abandonment > 0

EffectiveState(p) ==
  IF Recoverable(p.state) /\ p.resume # None THEN p.resume ELSE p.state

SetState(p, s) == [p EXCEPT !.state = s, !.resume = None]

SetEffectiveState(p, s) ==
  IF Recoverable(p.state) THEN [p EXCEPT !.resume = s] ELSE SetState(p, s)

LatestEligibility(p) ==
  IF HasCheckpoint(p) /\ ~p.checkpoint.eligible THEN "NotEligible" ELSE "ActionRequired"

RegistrationReady(p) ==
  LET r == p.registration
  IN  r.included /\ r.dustReady /\ r.dustObservation = r.observation

\* Eligibility moves only a projection that is idle.
ApplyEligibility(p, eligible) ==
  LET s == IF Recoverable(p.state) THEN p.resume ELSE p.state
      t == CASE s = "NotEligible" /\ eligible -> "ActionRequired"
             [] s = "ActionRequired" /\ ~eligible -> "NotEligible"
             [] OTHER -> s
  IN  IF Recoverable(p.state) THEN [p EXCEPT !.resume = t] ELSE [p EXCEPT !.state = t]

PreSubmission == {"ActionRequired", "AwaitingAuthorization"}

CanCancel(p) ==
  /\ p.state \in PreSubmission
     \/ (Recoverable(p.state) /\ p.resume \in PreSubmission)
  /\ ~HasSubmitted(p)

EnterRecoverable(next, p, s) ==
  [next EXCEPT !.resume = IF p.resume = None THEN p.state ELSE @, !.state = s]

\* resume_recoverable_state: back to the retained work, as far as the retained
\* registration still supports it.
ResumeRecoverable(p) ==
  LET fallback == LatestEligibility(p)
      retained == IF p.resume # None THEN p.resume ELSE fallback
      r == p.registration
      unsubmitted == HasRegistration(p) /\ r.tx = None
      state ==
        CASE retained \in {"Ready", "NotEligible"} -> retained
          [] retained \in {"Submitting", "AwaitingAuthorization"} /\ unsubmitted -> retained
          [] retained \in {"Confirming", "Reconciling"} /\ r.tx # None ->
               IF r.included \/ (r.finality > 0 /\ r.finality >= r.reconciliation)
                 THEN "Reconciling" ELSE "Confirming"
          [] OTHER -> fallback
  IN  [p EXCEPT !.state = state, !.resume = None,
                !.registration = IF state \in {"NotEligible", "ActionRequired"} /\ r.tx = None
                                   THEN NoRegistration ELSE @]

RecoveryKinds == RecoverableStates \cup {"Resumed", "Retry"}

\* A retry that came before the state it retries applies once that state does.
SettlePendingRetry(p) ==
  CASE p.pendingRetry = 0 -> p
    [] p.pendingRetry > 0 /\ p.pendingRetry <= p.recovery -> [p EXCEPT !.pendingRetry = 0]
    [] p.pendingRetry > p.recovery /\ Recoverable(p.state) ->
         ResumeRecoverable([p EXCEPT !.recovery = p.pendingRetry, !.pendingRetry = 0])
    [] OTHER -> p

-----------------------------------------------------------------------------
(* Which events reach the reducer's match.                                 *)

ReplacesGeneration(p, e) ==
  /\ p.identity # NoIdentity /\ e.identity # p.identity /\ e.kind = "Eligibility"
  /\ p.state = "Unavailable" \/ e.identity.generation > p.identity.generation

\* An event of another identity, or for a retired projection, is a no-op.
Ignored(p, e) ==
  \/ p.identity = NoIdentity /\ e.kind # "Eligibility"
  \/ p.identity # NoIdentity /\ e.identity # p.identity /\ ~ReplacesGeneration(p, e)
  \/ ~ReplacesGeneration(p, e) /\ p.state = "Cancelled" /\ e.kind # "Superseded"
  \/ ~ReplacesGeneration(p, e) /\ p.identity # NoIdentity /\ p.state = "Unavailable"

\* A parked replacement draft is settled without touching the active one.
ForParked(p, e, phase) == HasParked(p) /\ p.parked.draft = e.draft /\ p.parked.phase = phase

ParkedEvent(p, e) ==
  \/ e.kind = "SubmissionAccepted" /\ ForParked(p, e, "Submitting")
  \/ e.kind \in {"AuthorizationSucceeded", "AuthorizationRejected", "Cancel"}
     /\ ForParked(p, e, "Awaiting")

ReduceParked(p, e) ==
  CASE e.kind = "SubmissionAccepted" ->
         [p EXCEPT !.parked.phase = "Submitted", !.parked.tx = e.tx]
    [] e.kind = "AuthorizationSucceeded" /\ LatestEligibility(p) # "NotEligible" ->
         [p EXCEPT !.parked.phase = "Submitting"]
    [] OTHER -> [p EXCEPT !.parked = NoRegistration]

\* A newer observation of the parked transaction makes it the active one again.
SupersedesParked(p, e) ==
  LET r == p.parked
      seen == p.registration.observation
  IN  /\ HasParked(p) /\ r.tx # None
      /\ \/ /\ e.kind = "FinalityObserved" /\ e.tx = r.tx
            /\ \A n \in {seen, r.finality, r.reconciliation, r.abandonment} : e.revision > n
         \/ /\ e.kind = "RegistrationReconciled" /\ e.tx = r.tx
            /\ \A n \in {seen, r.reconciliation, r.abandonment} : e.revision > n
            /\ e.verdict # "Dropped" \/ e.revision >= r.finality
         \/ /\ e.kind = "DustRefreshed" /\ e.tx = r.tx
            /\ \A n \in {seen, r.abandonment} : e.after > n
            /\ e.revision > r.dust

\* Fault: the registration that gives way is not parked.
SwapParkedForgets(p) ==
  SetEffectiveState([p EXCEPT !.registration = p.parked, !.parked = NoRegistration],
                    LatestEligibility(p))

\* The two registrations change places; their transactions differ, so the
\* event cannot supersede a second time.
SwapParked(p) ==
  SetEffectiveState([p EXCEPT !.registration = p.parked, !.parked = p.registration],
                    LatestEligibility(p))

-----------------------------------------------------------------------------
(* The match: one operator per event, from the projection to the next.     *)

EligibilityState(eligible) == IF eligible THEN "ActionRequired" ELSE "NotEligible"

Eligibility(p, e) ==
  LET fresh == IF ReplacesGeneration(p, e) THEN NoProjection ELSE p
      checkpoint == [revision |-> e.revision, eligible |-> e.eligible, identity |-> e.identity]
  IN  CASE fresh.identity = NoIdentity ->
             SetState([fresh EXCEPT !.identity = e.identity, !.registration = NoRegistration,
                                    !.checkpoint = checkpoint],
                      EligibilityState(e.eligible))
        [] fresh.identity # NoIdentity /\ e.revision <= p.checkpoint.revision -> p
        [] OTHER -> ApplyEligibility([fresh EXCEPT !.checkpoint = checkpoint], e.eligible)

AlreadyCurrent(p, e) ==
  IF EffectiveState(p) = "ActionRequired" /\ e.revision > p.preparation
    THEN SetEffectiveState([p EXCEPT !.preparation = e.revision,
                                     !.registration = NoRegistration], "Ready")
    ELSE p

AuthorizationRequested(p, e) ==
  CASE /\ EffectiveState(p) = "ActionRequired"
       /\ ~HasSubmitted(p) \/ Abandoned(p)
       /\ ~HasParked(p) /\ e.revision > p.preparation ->
         SetEffectiveState(
           [p EXCEPT !.preparation = e.revision,
                     !.parked = IF Abandoned(p) THEN p.registration ELSE @,
                     !.registration = PendingRegistration(e.draft)],
           "AwaitingAuthorization")
    [] /\ EffectiveState(p) = "AwaitingAuthorization" /\ ~HasDraft(p, e.draft)
       /\ LatestEligibility(p) = "ActionRequired" /\ e.revision > p.preparation ->
         [p EXCEPT !.preparation = e.revision, !.registration = PendingRegistration(e.draft)]
    [] OTHER -> p

\* The parked registration takes the place of the draft that ends here.
Unpark(p, s) ==
  SetEffectiveState([p EXCEPT !.registration = p.parked, !.parked = NoRegistration], s)

Awaits(p, d) == EffectiveState(p) = "AwaitingAuthorization" /\ HasDraft(p, d)

AuthorizationSucceeded(p, e) ==
  CASE Awaits(p, e.draft) /\ LatestEligibility(p) = "NotEligible" -> Unpark(p, "NotEligible")
    [] Awaits(p, e.draft) /\ LatestEligibility(p) # "NotEligible" ->
         SetEffectiveState([p EXCEPT !.registration.phase = "Submitting"], "Submitting")
    [] OTHER -> p

AuthorizationRejected(p, e) ==
  IF Awaits(p, e.draft) THEN Unpark(p, LatestEligibility(p)) ELSE p

SubmissionAccepted(p, e) ==
  IF EffectiveState(p) = "Submitting" /\ HasDraft(p, e.draft)
    THEN SetEffectiveState([p EXCEPT !.registration.phase = "Submitted",
                                     !.registration.tx = e.tx], "Confirming")
    ELSE p

IdleStates == {"NotEligible", "ActionRequired"}
ObservableStates == IdleStates \cup {"Confirming", "Reconciling", "Ready"}

Observes(p, e) == EffectiveState(p) \in ObservableStates /\ HasTransaction(p, e.tx)

\* Fault: a newer observation leaves a ready registration ready.
FinalityObservedReady(p, e) ==
  LET r == p.registration
      was == EffectiveState(p)
      next == [p EXCEPT !.registration.abandonment = 0, !.registration.finality = e.revision,
                        !.registration.observation = Biggest(@, e.revision)]
      accepted == /\ Observes(p, e) /\ e.revision > r.finality /\ e.revision > r.abandonment
                  /\ was \notin IdleStates \/ e.revision > r.reconciliation
  IN  CASE ~accepted -> p
        [] accepted /\ was \in IdleStates \cup {"Confirming"}
           /\ e.revision >= r.reconciliation -> SetEffectiveState(next, "Reconciling")
        [] OTHER -> next

FinalityObserved(p, e) ==
  LET r == p.registration
      was == EffectiveState(p)
      next == [p EXCEPT !.registration.abandonment = 0, !.registration.finality = e.revision,
                        !.registration.observation = Biggest(@, e.revision)]
      accepted == /\ Observes(p, e) /\ e.revision > r.finality /\ e.revision > r.abandonment
                  /\ was \notin IdleStates \/ e.revision > r.reconciliation
      current == e.revision >= r.reconciliation
  IN  CASE ~accepted -> p
        [] accepted /\ RegistrationReady(next) -> SetEffectiveState(next, "Ready")
        [] /\ accepted /\ ~RegistrationReady(next)
           /\ was = "Ready" \/ (was \in IdleStates \cup {"Confirming"} /\ current) ->
             SetEffectiveState(next, "Reconciling")
        [] OTHER -> next

\* Fault: a pending verdict goes back to confirming whatever was final.
RegistrationReconciledPending(p, e) ==
  LET r == p.registration
      next == [p EXCEPT !.registration.abandonment = 0,
                        !.registration.reconciliation = e.revision,
                        !.registration.observation = Biggest(@, e.revision),
                        !.registration.included = (e.verdict = "Included")]
      state == CASE e.verdict = "Included" ->
                      IF RegistrationReady(next) THEN "Ready" ELSE "Reconciling"
                 [] e.verdict = "Pending" -> "Confirming"
                 [] OTHER -> LatestEligibility(p)
  IN  IF /\ Observes(p, e) /\ e.revision > r.reconciliation /\ e.revision > r.abandonment
         /\ e.verdict # "Dropped" \/ e.revision >= r.finality
        THEN SetEffectiveState(next, state)
        ELSE p

RegistrationReconciled(p, e) ==
  LET r == p.registration
      next == [p EXCEPT !.registration.abandonment = 0,
                        !.registration.reconciliation = e.revision,
                        !.registration.observation = Biggest(@, e.revision),
                        !.registration.included = (e.verdict = "Included")]
      state == CASE e.verdict = "Included" ->
                      IF RegistrationReady(next) THEN "Ready" ELSE "Reconciling"
                 [] e.verdict = "Pending" ->
                      IF r.finality >= e.revision THEN "Reconciling" ELSE "Confirming"
                 [] OTHER -> LatestEligibility(p)
  IN  IF /\ Observes(p, e) /\ e.revision > r.reconciliation /\ e.revision > r.abandonment
         /\ e.verdict # "Dropped" \/ e.revision >= r.finality
        THEN SetEffectiveState(next, state)
        ELSE p

DustRefreshed(p, e) ==
  LET next == [p EXCEPT !.registration.dust = e.revision,
                        !.registration.dustObservation = e.after,
                        !.registration.dustReady = e.ready]
      accepted == Observes(p, e) /\ e.revision > p.registration.dust
  IN  CASE ~accepted -> p
        [] accepted /\ RegistrationReady(next) -> SetEffectiveState(next, "Ready")
        [] accepted /\ ~RegistrationReady(next) /\ EffectiveState(p) = "Ready" ->
             SetEffectiveState(next, "Reconciling")
        [] OTHER -> next

DroppedRegistrationAbandoned(p, e) ==
  IF /\ EffectiveState(p) = "ActionRequired" /\ HasTransaction(p, e.tx)
     /\ p.registration.observation < e.after /\ p.registration.dustObservation <= e.after
    THEN [p EXCEPT !.registration.abandonment = e.after]
    ELSE p

Cancel(p, e) ==
  CASE ~(CanCancel(p) /\ HasDraft(p, e.draft)) -> p
    [] CanCancel(p) /\ HasDraft(p, e.draft) /\ HasParked(p) -> Unpark(p, LatestEligibility(p))
    [] OTHER -> SetState([p EXCEPT !.registration = NoRegistration], "Cancelled")

\* Fault: a recovery event is compared with one revision too few.
RecoverRepeatedly(p, e) ==
  LET next == [p EXCEPT !.recovery = e.revision]
  IN  CASE e.revision < p.recovery -> p
        [] e.revision >= p.recovery /\ e.kind = "Retry" ->
             IF Recoverable(p.state) THEN ResumeRecoverable(next)
             ELSE [p EXCEPT !.pendingRetry = Biggest(@, e.revision)]
        [] e.revision >= p.recovery /\ e.kind = "Resumed" ->
             SettlePendingRetry(IF Recoverable(p.state) THEN ResumeRecoverable(next) ELSE next)
        [] OTHER -> SettlePendingRetry(EnterRecoverable(next, p, e.kind))

\* Offline, TimedOut, Degraded, Suspended, Resumed and Retry share one sequence.
Recover(p, e) ==
  LET next == [p EXCEPT !.recovery = e.revision]
  IN  CASE e.revision <= p.recovery -> p
        [] e.revision > p.recovery /\ e.kind = "Retry" ->
             IF Recoverable(p.state) THEN ResumeRecoverable(next)
             ELSE [p EXCEPT !.pendingRetry = Biggest(@, e.revision)]
        [] e.revision > p.recovery /\ e.kind = "Resumed" ->
             SettlePendingRetry(IF Recoverable(p.state) THEN ResumeRecoverable(next) ELSE next)
        [] OTHER -> SettlePendingRetry(EnterRecoverable(next, p, e.kind))

Superseded(p) ==
  SetState([p EXCEPT !.registration = NoRegistration, !.parked = NoRegistration], "Unavailable")

Match(p, e) ==
  CASE e.kind = "Eligibility" -> Eligibility(p, e)
    [] e.kind = "RegistrationAlreadyCurrent" -> AlreadyCurrent(p, e)
    [] e.kind = "AuthorizationRequested" -> AuthorizationRequested(p, e)
    [] e.kind = "AuthorizationSucceeded" -> AuthorizationSucceeded(p, e)
    [] e.kind = "AuthorizationRejected" -> AuthorizationRejected(p, e)
    [] e.kind = "SubmissionAccepted" -> SubmissionAccepted(p, e)
    [] e.kind = "FinalityObserved" -> FinalityObserved(p, e)
    [] e.kind = "RegistrationReconciled" -> RegistrationReconciled(p, e)
    [] e.kind = "DustRefreshed" -> DustRefreshed(p, e)
    [] e.kind = "DroppedRegistrationAbandoned" -> DroppedRegistrationAbandoned(p, e)
    [] e.kind = "Cancel" -> Cancel(p, e)
    [] e.kind = "Superseded" -> Superseded(p)
    [] e.kind \in RecoveryKinds -> Recover(p, e)

\* reduce_wallet_dust_registration_settlement
Reduce(p, e) ==
  CASE Ignored(p, e) -> p
    [] ~Ignored(p, e) /\ ParkedEvent(p, e) -> ReduceParked(p, e)
    [] OTHER -> Match(IF SupersedesParked(p, e) THEN SwapParked(p) ELSE p, e)

-----------------------------------------------------------------------------
(* The coordinator: the one external effect a projection asks for.  The    *)
(* subject of an effect is its draft or its transaction.                   *)

NoEffect == [kind |-> None, identity |-> NoIdentity, subject |-> None]

EffectOf(p, kind, subject) == [kind |-> kind, identity |-> p.identity, subject |-> subject]

RegistrationEffect(p, r) ==
  CASE r.phase = "Awaiting" -> EffectOf(p, "Authorize", r.draft)
    [] r.phase = "Submitting" -> EffectOf(p, "Submit", r.draft)
    [] r.phase = "Submitted" /\ r.tx = None -> NoEffect
    [] OTHER -> EffectOf(p, IF r.included THEN "Refresh" ELSE "Observe", r.tx)

ActionEffect(p, permits, stopped) ==
  CASE stopped /\ (~HasRegistration(p) \/ Abandoned(p)) -> NoEffect
    [] ~(stopped /\ (~HasRegistration(p) \/ Abandoned(p))) /\ HasParked(p) ->
         RegistrationEffect(p, p.parked)
    [] ~stopped /\ ~HasParked(p) /\ Abandoned(p) -> EffectOf(p, "Prepare", None)
    [] ~HasParked(p) /\ HasRegistration(p) /\ ~Abandoned(p) ->
         RegistrationEffect(p, p.registration)
    [] OTHER -> IF p.preparation = 0 \/ permits THEN EffectOf(p, "Prepare", None) ELSE NoEffect

\* next_effect
NextEffect(p, permits, stopped) ==
  LET r == p.registration
  IN  CASE p.identity = NoIdentity -> NoEffect
        [] p.identity # NoIdentity /\ p.state = "ActionRequired" ->
             ActionEffect(p, permits, stopped)
        [] p.identity # NoIdentity /\ p.state = "AwaitingAuthorization" /\ HasRegistration(p) ->
             EffectOf(p, "Authorize", r.draft)
        [] p.identity # NoIdentity /\ p.state = "Submitting" /\ HasRegistration(p) ->
             EffectOf(p, "Submit", r.draft)
        [] p.identity # NoIdentity /\ p.state \in {"Confirming", "Reconciling"} /\ r.tx # None ->
             EffectOf(p, IF p.state = "Reconciling" /\ r.included THEN "Refresh" ELSE "Observe",
                      r.tx)
        [] OTHER -> NoEffect

\* WalletDustRegistrationCoordinator::reduce, to the projection next
CoordinatedTo(next, p, e) ==
  LET accepted == next # p
  IN  [projection |-> next,
       effect |-> NextEffect(next, accepted /\ e.kind = "Eligibility" /\ e.eligible,
                             accepted /\ e.kind \in {"AuthorizationRejected", "Cancel"})]

Coordinated(p, e) == CoordinatedTo(Reduce(p, e), p, e)

\* WalletDustRegistrationRuntime::observe: an event that changes nothing in
\* the projection leaves the effect alone too.
Changing(policy, next) == IF next.projection = policy.projection THEN policy ELSE next

Observed(policy, e) == Changing(policy, Coordinated(policy.projection, e))

-----------------------------------------------------------------------------
(* The public recovery record: the projection without its parked draft and *)
(* its retry hints.                                                        *)

RecordOf(p) == [p EXCEPT !.parked = NoRegistration, !.resume = None, !.pendingRetry = 0]

ValidRegistration(r) ==
  IF r.phase = "Submitted"
    THEN /\ r.tx # None /\ r.observation = Biggest(r.finality, r.reconciliation)
         /\ r.dustReady => r.dust # 0
         /\ r.included => r.reconciliation # 0
    ELSE r = [PendingRegistration(r.draft) EXCEPT !.phase = r.phase]

\* validate, of a record whose identifiers are well formed
ValidRecord(p) ==
  LET r == p.registration
      submitted == HasRegistration(p) /\ r.phase = "Submitted" /\ r.abandonment = 0
      ready == r.included /\ r.dustReady /\ r.dustObservation = r.observation
  IN  /\ HasRegistration(p) => ValidRegistration(r)
      /\ CASE p.state = "AwaitingAuthorization" -> HasRegistration(p) /\ r.phase = "Awaiting"
           [] p.state = "Submitting" -> HasRegistration(p) /\ r.phase = "Submitting"
           [] p.state = "Confirming" ->
                submitted /\ ~r.included /\ (r.observation = 0 \/ r.finality < r.reconciliation)
           [] p.state = "Reconciling" ->
                /\ submitted /\ ~ready
                /\ r.included \/ (r.observation # 0 /\ r.finality >= r.reconciliation)
           [] p.state = "Ready" -> submitted /\ ready
           [] p.state \in IdleStates ->
                /\ p.state = EligibilityState(p.checkpoint.eligible)
                /\ submitted \/ ~HasRegistration(p)
           [] OTHER -> FALSE

\* from_projection succeeds
HasRecord(p) ==
  /\ p.identity # NoIdentity /\ p.checkpoint.identity = p.identity
  /\ ValidRecord(RecordOf(p))

\* restore_runtime: the projection and the effect that resume from a record
Restored(record) == [projection |-> record, effect |-> NextEffect(record, FALSE, FALSE)]
=============================================================================
