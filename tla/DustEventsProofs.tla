-------------------------- MODULE DustEventsProofs --------------------------
(***************************************************************************)
(* Proofs about DustEvents, for any drafts, generations and bounds: what   *)
(* the reducer of dust_registration_policy.rs keeps true of a projection   *)
(* whatever order its events arrive in, what follows for the recovery      *)
(* record and for the drafts that were handed to submission, and that a    *)
(* second copy of an event changes nothing.                                *)
(***************************************************************************)
EXTENDS DustEvents, TLAPS

-----------------------------------------------------------------------------
(* Types.                                                                  *)

Phases == {"Awaiting", "Submitting", "Submitted"}

Registrations ==
  [draft: Drafts \cup {None}, phase: Phases, tx: Drafts \cup {None}, observation: Nat,
   finality: Nat, reconciliation: Nat, dust: Nat, dustObservation: Nat,
   dustReady: BOOLEAN, included: BOOLEAN, abandonment: Nat]

Checkpoints ==
  [revision: Nat, eligible: BOOLEAN, identity: Identities \cup {NoIdentity}]

Projections ==
  [state: States, identity: Identities \cup {NoIdentity}, registration: Registrations,
   checkpoint: Checkpoints, preparation: Nat, recovery: Nat, parked: Registrations,
   resume: States \cup {None}, pendingRetry: Nat]

\* The states in which a projection still works towards a registration.
Working == {"NotEligible", "ActionRequired", "AwaitingAuthorization", "Submitting",
            "Confirming", "Reconciling", "Ready"}

-----------------------------------------------------------------------------
(* The inductive invariant.                                                *)

\* Nothing has been observed of a draft that was not submitted.
Fresh(r) ==
  /\ r.tx = None /\ r.observation = 0 /\ r.finality = 0 /\ r.reconciliation = 0
  /\ r.dust = 0 /\ r.dustObservation = 0 /\ r.dustReady = FALSE /\ r.included = FALSE
  /\ r.abandonment = 0

\* The observations of a submitted draft agree with one another, and it is
\* abandoned only after the last of them.
Sent(r) ==
  /\ r.draft # None /\ r.tx = r.draft
  /\ r.observation = Biggest(r.finality, r.reconciliation)
  /\ r.dustReady => r.dust # 0
  /\ r.included => r.reconciliation # 0
  /\ r.abandonment # 0 => r.observation < r.abandonment

Sound(r) ==
  /\ r \in Registrations
  /\ r.phase = "Submitted" => Sent(r)
  /\ r.phase # "Submitted" => Fresh(r)
  /\ r.draft = None => r.phase = "Awaiting"

Current(r) == r.included /\ r.dustReady /\ r.dustObservation = r.observation

\* What a state says about the active registration.
Supports(s, r) ==
  /\ s = "AwaitingAuthorization" => r.draft # None /\ r.phase = "Awaiting"
  /\ s = "Submitting" => r.draft # None /\ r.phase = "Submitting"
  /\ s = "Confirming" =>
       /\ r.phase = "Submitted" /\ r.abandonment = 0 /\ ~r.included
       /\ r.observation = 0 \/ r.finality < r.reconciliation
  /\ s = "Reconciling" =>
       /\ r.phase = "Submitted" /\ r.abandonment = 0 /\ ~Current(r)
       /\ r.included \/ (r.observation # 0 /\ r.finality >= r.reconciliation)
  /\ s = "Ready" =>
       r.draft = None \/ (r.phase = "Submitted" /\ r.abandonment = 0 /\ Current(r))
  /\ s \in IdleStates => r.draft = None \/ (r.phase = "Submitted" /\ ~r.included)

\* The states of a draft that has not been broadcast yet.
Unsent == {"AwaitingAuthorization", "Submitting"}

\* What waits behind a draft that is to be authorized or submitted has itself
\* been broadcast, and was dropped.
Waits(s, k) ==
  s \in Unsent => k.draft = None \/ (k.phase = "Submitted" /\ ~k.included)

\* A recoverable state remembers the work it interrupted.
Resumable(q) ==
  IF Recoverable(q.state) THEN q.resume \in Working ELSE q.resume = None

Identified(q) ==
  IF q.identity = NoIdentity THEN q = NoProjection ELSE q.checkpoint.identity = q.identity

Ended(q) == q.state \in {"Unavailable", "Cancelled"}

WellFormed(q) ==
  /\ q \in Projections /\ Resumable(q) /\ Identified(q)
  /\ Sound(q.registration) /\ Sound(q.parked)
  /\ Supports(EffectiveState(q), q.registration) /\ Waits(EffectiveState(q), q.parked)
  /\ Ended(q) => q.registration.draft = None /\ q.parked.draft = None

\* A refresh of draft d that was asked for after observation k no longer
\* brings d back from its parking place.
Behind(q, d, k) ==
  /\ q.registration.draft = d => k <= q.registration.observation
  /\ q.parked.draft = d =>
       \/ k <= q.registration.observation
       \/ q.parked.abandonment # 0 /\ k <= q.parked.observation

\* The active effect is the one the projection asks for.
EffectInv ==
  /\ policy.effect.kind = "Prepare" => p.parked.draft = None
  /\ policy.effect.kind \in {"Authorize", "Submit"} => policy.effect.subject \in Drafts
  /\ p.state \in {"Submitting", "Confirming", "Reconciling"} =>
       policy.effect = NextEffect(p, FALSE, FALSE)

Kinds == {"Eligibility", "RegistrationAlreadyCurrent", "AuthorizationRequested",
          "AuthorizationSucceeded", "AuthorizationRejected", "SubmissionAccepted",
          "FinalityObserved", "RegistrationReconciled", "DustRefreshed",
          "DroppedRegistrationAbandoned", "Cancel", "Superseded"} \cup RecoveryKinds

Unrevised == {"AuthorizationSucceeded", "AuthorizationRejected", "SubmissionAccepted",
              "DroppedRegistrationAbandoned", "Cancel", "Superseded"}

OfDraft == {"AuthorizationRequested", "AuthorizationSucceeded", "AuthorizationRejected",
            "SubmissionAccepted", "Cancel"}

OfTransaction == {"FinalityObserved", "RegistrationReconciled", "DustRefreshed",
                  "DroppedRegistrationAbandoned"}

IsEvent(e) ==
  /\ e.kind \in Kinds /\ e.identity \in Identities
  /\ e.kind \notin Unrevised => e.revision \in Nat \ {0}
  /\ e.kind \in OfDraft => e.draft \in Drafts
  /\ e.kind = "SubmissionAccepted" => e.tx = e.draft
  /\ e.kind \in OfTransaction => e.tx \in Drafts
  /\ e.kind = "Eligibility" => e.eligible \in BOOLEAN
  /\ e.kind = "RegistrationReconciled" => e.verdict \in {"Included", "Pending", "Dropped"}
  /\ e.kind = "DustRefreshed" => e.after \in Nat /\ e.ready \in BOOLEAN
  /\ e.kind = "DroppedRegistrationAbandoned" => e.after \in Nat \ {0}

LateInv ==
  /\ late # NoEvent => IsEvent(late)
  /\ late.kind = "DustRefreshed" => late.tx \in submitted /\ Behind(p, late.tx, late.after)

\* The store holds a record, and when the projection has one it is that one.
StoreInv ==
  /\ WellFormed(stored) /\ RecordOf(stored) = stored
  /\ HasRecord(p) => stored = RecordOf(p)

IInv ==
  /\ clock \in Nat /\ submitted \subseteq Drafts
  /\ WellFormed(p) /\ EffectInv /\ LateInv /\ StoreInv

-----------------------------------------------------------------------------
(* Records.                                                                *)

\* The fields of a projection in its set.
LEMMA ProjectionFields ==
  ASSUME NEW q \in Projections
  PROVE  /\ q.state \in States /\ q.identity \in Identities \cup {NoIdentity}
         /\ q.registration \in Registrations /\ q.checkpoint \in Checkpoints
         /\ q.preparation \in Nat /\ q.recovery \in Nat /\ q.parked \in Registrations
         /\ q.resume \in States \cup {None} /\ q.pendingRetry \in Nat
BY Zenon DEF Projections

\* The fields of a registration in its set.
LEMMA RegistrationFields ==
  ASSUME NEW r \in Registrations
  PROVE  /\ r.draft \in Drafts \cup {None} /\ r.phase \in Phases
         /\ r.tx \in Drafts \cup {None} /\ r.observation \in Nat /\ r.finality \in Nat
         /\ r.reconciliation \in Nat /\ r.dust \in Nat /\ r.dustObservation \in Nat
         /\ r.dustReady \in BOOLEAN /\ r.included \in BOOLEAN /\ r.abandonment \in Nat
BY Zenon DEF Registrations

\* No draft is the absent one, and no identity is the absent one.
LEMMA Absent ==
  /\ None \notin Drafts
  /\ \A i \in Identities : i # NoIdentity
<1>1. \A i \in Identities : i # NoIdentity
  BY SMT DEF Identities, NoIdentity, None
<1> QED
  BY <1>1, Zenon, EventsAssumption

\* The absent registration is sound.
LEMMA NoRegistrationSound ==
  Sound(NoRegistration) /\ NoRegistration.draft = None /\ NoRegistration \in Registrations
<1>1. NoRegistration \in Registrations
  BY SMT DEF NoRegistration, Registrations, Phases
<1>2. NoRegistration.draft = None /\ NoRegistration.phase = "Awaiting" /\ Fresh(NoRegistration)
  BY SMT DEF NoRegistration, Fresh
<1> QED
  BY <1>1, <1>2, Zenon DEF Sound

\* What a draft that was just offered looks like.
LEMMA PendingFields ==
  ASSUME NEW d \in Drafts
  PROVE  LET r == PendingRegistration(d)
         IN  r \in Registrations /\ r.draft = d /\ r.phase = "Awaiting" /\ Fresh(r) /\ Sound(r)
<1> DEFINE r == PendingRegistration(d)
<1>1. r \in Registrations
  BY NoRegistrationSound, Zenon DEF PendingRegistration, Registrations
<1>2. r.draft = d /\ r.phase = "Awaiting" /\ Fresh(r)
  BY SMT DEF NoRegistration, PendingRegistration, Fresh
<1>3. d # None
  BY Absent, Zenon
<1>4. Sound(r)
  BY <1>1, <1>2, <1>3, Zenon DEF Sound
<1> QED
  BY <1>1, <1>2, <1>4, Zenon

\* The nested updates of FinalityObserved, as an update of the registration.
Finalized(r, k) ==
  [r EXCEPT !.abandonment = 0, !.finality = k, !.observation = Biggest(r.observation, k)]

\* The update of FinalityObserved changes the registration only.
LEMMA FinalizedNext ==
  ASSUME NEW q \in Projections, NEW k \in Nat
  PROVE  [q EXCEPT !.registration.abandonment = 0, !.registration.finality = k,
                   !.registration.observation = Biggest(@, k)]
         = [q EXCEPT !.registration = Finalized(q.registration, k), !.parked = q.parked]
BY Zenon DEF Projections, Registrations, Finalized

-----------------------------------------------------------------------------
(* How an event changes a projection.                                      *)

\* The projection still works towards a registration.
Live(q) == q.identity # NoIdentity /\ ~Ended(q)

\* m is q with other registrations.
Dressed(q, m, r, k) ==
  /\ m \in Projections /\ m.registration = r /\ m.parked = k
  /\ m.state = q.state /\ m.resume = q.resume /\ m.identity = q.identity
  /\ m.checkpoint.identity = q.checkpoint.identity

\* n is in effective state s, with active registration r and parked one k.
Reaches(q, n, s, r, k) ==
  /\ n \in Projections /\ Resumable(n) /\ ~Ended(n)
  /\ n.identity = q.identity /\ n.checkpoint.identity = q.identity
  /\ EffectiveState(n) = s /\ n.registration = r /\ n.parked = k

\* No committed draft is lost.
Kept(q, n) ==
  \/ Committed(q) \subseteq Committed(n)
  \/ EffectiveState(n) = "Ready" /\ n.registration.draft = None

\* An event that replaces the active registration by one of another draft.
Replaces(q, e, d) ==
  \/ e.kind = "AuthorizationRequested" /\ e.draft = d
  \/ e.kind = "RegistrationAlreadyCurrent" /\ q.parked.draft # None

\* What every event keeps.
Advances(q, n, e) ==
  /\ WellFormed(n)
  /\ n.identity = q.identity /\ n.state # "Unavailable" => Kept(q, n)
  /\ \A d \in Drafts : \A k \in Nat :
       Behind(q, d, k) /\ ~Replaces(q, e, d) => Behind(n, d, k)

\* r is a later version of the registration q.
Follows(q, r) ==
  /\ r.draft = q.draft /\ (q.phase # "Awaiting" => r.phase # "Awaiting")
  /\ q.observation <= r.observation

\* The effective state of a live projection is one of the working ones.
LEMMA LiveWorks ==
  ASSUME NEW q, q \in Projections, Resumable(q), ~Ended(q)
  PROVE  EffectiveState(q) \in Working
<1>1. q.state \in States
  BY ProjectionFields, Zenon
<1>2. None \notin Working
  BY Zenon DEF Working, None
<1>3. CASE Recoverable(q.state)
  BY <1>2, <1>3, Zenon DEF Resumable, EffectiveState
<1>4. CASE ~Recoverable(q.state)
  BY <1>1, <1>4, Zenon DEF EffectiveState, Recoverable, Ended, States, Working
<1> QED
  BY <1>3, <1>4, Zenon

\* SetState, field by field.
LEMMA StateFields ==
  ASSUME NEW q \in Projections, NEW s \in States
  PROVE  LET n == SetState(q, s)
         IN  /\ n \in Projections /\ n.state = s /\ n.resume = None
             /\ n.registration = q.registration /\ n.parked = q.parked
             /\ n.identity = q.identity /\ n.checkpoint = q.checkpoint
             /\ n.preparation = q.preparation /\ n.recovery = q.recovery
             /\ n.pendingRetry = q.pendingRetry
<1> DEFINE n == SetState(q, s)
<1>1. n \in Projections
  BY Zenon DEF Projections, SetState
<1>2. /\ n.state = s /\ n.resume = None
      /\ n.registration = q.registration /\ n.parked = q.parked
      /\ n.identity = q.identity /\ n.checkpoint = q.checkpoint
      /\ n.preparation = q.preparation /\ n.recovery = q.recovery
      /\ n.pendingRetry = q.pendingRetry
  BY Zenon DEF Projections, SetState
<1> QED
  BY <1>1, <1>2, Zenon

\* Changing what a recoverable state returns to, field by field.
LEMMA ResumeFields ==
  ASSUME NEW q \in Projections, NEW s \in States
  PROVE  LET n == [q EXCEPT !.resume = s]
         IN  /\ n \in Projections /\ n.state = q.state /\ n.resume = s
             /\ n.registration = q.registration /\ n.parked = q.parked
             /\ n.identity = q.identity /\ n.checkpoint = q.checkpoint
             /\ n.preparation = q.preparation /\ n.recovery = q.recovery
             /\ n.pendingRetry = q.pendingRetry
<1> DEFINE n == [q EXCEPT !.resume = s]
<1>1. n \in Projections
  BY Zenon DEF Projections
<1>2. /\ n.state = q.state /\ n.resume = s
      /\ n.registration = q.registration /\ n.parked = q.parked
      /\ n.identity = q.identity /\ n.checkpoint = q.checkpoint
      /\ n.preparation = q.preparation /\ n.recovery = q.recovery
      /\ n.pendingRetry = q.pendingRetry
  BY Zenon DEF Projections
<1> QED
  BY <1>1, <1>2, Zenon

\* The working states are states, and none of them is recoverable or final.
LEMMA WorkingStates ==
  \A s \in Working : s \in States /\ ~Recoverable(s) /\ s # None
                     /\ s \notin {"Unavailable", "Cancelled"}
BY Zenon DEF Working, States, Recoverable, RecoverableStates, None

\* set_effective_state reaches the state it is given, behind a recoverable
\* state or not.
LEMMA EffectiveReached ==
  ASSUME NEW q, q \in Projections, Resumable(q), Identified(q), Live(q),
         NEW m, NEW r, NEW k, Dressed(q, m, r, k), NEW s \in Working
  PROVE  Reaches(q, SetEffectiveState(m, s), s, r, k)
<1> DEFINE n == SetEffectiveState(m, s)
<1>1. s \in States /\ ~Recoverable(s) /\ s # None /\ s \notin {"Unavailable", "Cancelled"}
  BY WorkingStates, Zenon
<1>2. m.checkpoint.identity = q.identity /\ m.identity = q.identity
  BY Zenon DEF Dressed, Live, Identified
<1>5. m \in Projections
  BY Zenon DEF Dressed
<1> SUFFICES Reaches(q, n, s, r, k)
  OBVIOUS
<1> HIDE DEF n
<1>3. CASE Recoverable(m.state)
  <2>1. n = [m EXCEPT !.resume = s]
    BY <1>3, Zenon DEF n, SetEffectiveState
  <2>2. /\ n \in Projections /\ n.state = m.state /\ n.resume = s
        /\ n.registration = m.registration /\ n.parked = m.parked
        /\ n.identity = m.identity /\ n.checkpoint = m.checkpoint
    BY <2>1, <1>1, <1>5, ResumeFields
  <2>3. ~Ended(n)
    BY <2>2, Zenon DEF Dressed, Live, Ended
  <2> QED
    BY <1>1, <1>2, <1>3, <2>2, <2>3, Zenon DEF Reaches, Dressed, Resumable, EffectiveState
<1>4. CASE ~Recoverable(m.state)
  <2>1. n = SetState(m, s)
    BY <1>4, Zenon DEF n, SetEffectiveState
  <2>2. /\ n \in Projections /\ n.state = s /\ n.resume = None
        /\ n.registration = m.registration /\ n.parked = m.parked
        /\ n.identity = m.identity /\ n.checkpoint = m.checkpoint
    BY <2>1, <1>1, <1>5, StateFields
  <2> QED
    BY <1>1, <1>2, <2>2, Zenon DEF Reaches, Dressed, Resumable, EffectiveState, Ended
<1> QED
  BY <1>3, <1>4, Zenon DEF n

\* An update of the registrations alone leaves the effective state.
LEMMA StateReached ==
  ASSUME NEW q, q \in Projections, Resumable(q), Identified(q), Live(q),
         NEW m, NEW r, NEW k, Dressed(q, m, r, k)
  PROVE  Reaches(q, m, EffectiveState(q), r, k)
<1>1. m.checkpoint.identity = q.identity
  BY Zenon DEF Dressed, Live, Identified
<1> QED
  BY <1>1, Zenon DEF Reaches, Dressed, Live, Ended, Resumable, EffectiveState

\* A reached projection is well formed when its registrations are.
LEMMA ReachedWellFormed ==
  ASSUME NEW q, Live(q), NEW n, NEW s, NEW r, NEW k, Reaches(q, n, s, r, k),
         Sound(r), Sound(k), Supports(s, r), Waits(s, k)
  PROVE  WellFormed(n)
<1>1. Identified(n)
  BY Zenon DEF Reaches, Identified, Live
<1> QED
  BY <1>1, Zenon DEF Reaches, WellFormed

\* The committed drafts are those of the two registrations.
LEMMA CommittedIn ==
  ASSUME NEW q, NEW d
  PROVE  d \in Committed(q) <=>
           /\ d # None
           /\ \/ q.registration.draft = d /\ q.registration.phase # "Awaiting"
              \/ q.parked.draft = d /\ q.parked.phase # "Awaiting"
BY Zenon DEF Committed, Retained

\* The order of revisions.
LEMMA NatOrder ==
  ASSUME NEW a \in Nat, NEW b \in Nat
  PROVE  /\ \A c \in Nat : a <= b /\ b <= c => a <= c
         /\ \A c \in Nat : a <= b /\ b < c => a <= c
         /\ \A c \in Nat : a <= b /\ b < c => a < c
         /\ a <= a /\ (a < b => a <= b) /\ ~(a > b) = (a <= b) /\ (a > b) = (b < a)
         /\ (a >= b) = (b <= a) /\ 0 <= a /\ (a = b \/ a < b \/ b < a) /\ (a < b => a # b)
BY SMT

\* A registration that moves on keeps what the projection promises.
LEMMA Followed ==
  ASSUME NEW q, WellFormed(q), Live(q), NEW e, NEW n, NEW s, NEW r,
         Reaches(q, n, s, r, q.parked), Sound(r), Supports(s, r),
         Follows(q.registration, r),
         s \in Unsent => EffectiveState(q) \in Unsent
  PROVE  Advances(q, n, e)
<1>1. Sound(q.parked) /\ Waits(s, q.parked) /\ Sound(q.registration)
  BY Zenon DEF WellFormed, Waits, Unsent
<1>2. WellFormed(n)
  BY <1>1, ReachedWellFormed, Zenon
<1>3. n.registration = r /\ n.parked = q.parked
  BY Zenon DEF Reaches
<1>4. Kept(q, n)
  <2>1. SUFFICES ASSUME NEW d, d \in Committed(q)
                 PROVE  d \in Committed(n)
    BY Zenon DEF Kept
  <2> QED
    BY <1>3, <2>1, CommittedIn, ZenonT(60) DEF Follows
<1>5. ASSUME NEW d \in Drafts, NEW k \in Nat, Behind(q, d, k)
      PROVE  Behind(n, d, k)
  <2>1. q.registration.observation \in Nat /\ r.observation \in Nat
    BY <1>1, RegistrationFields, Zenon DEF Sound
  <2>2. q.registration.observation <= r.observation
    BY Zenon DEF Follows
  <2>3. k <= q.registration.observation => k <= r.observation
    BY <2>1, <2>2, NatOrder, Zenon
  <2>4. r.draft = q.registration.draft
    BY Zenon DEF Follows
  <2> QED
    BY <1>3, <1>5, <2>3, <2>4, Zenon DEF Behind
<1> QED
  BY <1>2, <1>4, <1>5, Zenon DEF Advances

\* An event that is refused changes nothing.
LEMMA Unmoved ==
  ASSUME NEW q, WellFormed(q), NEW e
  PROVE  Advances(q, q, e)
<1>1. Kept(q, q)
  BY Zenon DEF Kept
<1> QED
  BY <1>1, Zenon DEF Advances

\* The parked registration comes back when the draft before it ends.
LEMMA Unparked ==
  ASSUME NEW q, WellFormed(q), Live(q), NEW e, NEW n, NEW s \in IdleStates,
         EffectiveState(q) = "AwaitingAuthorization",
         Reaches(q, n, s, q.parked, NoRegistration)
  PROVE  Advances(q, n, e)
<1>1. Sound(q.parked) /\ Sound(q.registration) /\ Sound(NoRegistration)
  BY NoRegistrationSound, Zenon DEF WellFormed
<1>2. q.registration.phase = "Awaiting" /\ q.registration.observation = 0
  BY <1>1, Zenon DEF WellFormed, Supports, Sound, Fresh
<1>3. Supports(s, q.parked) /\ Waits(s, NoRegistration)
  BY Zenon DEF WellFormed, Waits, Unsent, Supports, IdleStates
<1>4. WellFormed(n)
  BY <1>1, <1>3, ReachedWellFormed, Zenon
<1>5. n.registration = q.parked /\ n.parked = NoRegistration
  BY Zenon DEF Reaches
<1>6. Kept(q, n)
  <2>1. SUFFICES ASSUME NEW d, d \in Committed(q)
                 PROVE  d \in Committed(n)
    BY Zenon DEF Kept
  <2> QED
    BY <1>2, <1>5, <2>1, CommittedIn, ZenonT(60)
<1>7. ASSUME NEW d \in Drafts, NEW k \in Nat, Behind(q, d, k)
      PROVE  Behind(n, d, k)
  <2>1. d # None
    BY Absent, Zenon
  <2>2. q.parked.observation \in Nat
    BY <1>1, RegistrationFields, Zenon DEF Sound
  <2>3. k <= 0 => k <= q.parked.observation
    BY <2>2, SMT
  <2> QED
    BY <1>2, <1>5, <1>7, <2>1, <2>3, NoRegistrationSound, Zenon DEF Behind
<1> QED
  BY <1>4, <1>6, <1>7, Zenon DEF Advances

-----------------------------------------------------------------------------
(* One lemma per event.                                                    *)


\* The parts of a well-formed projection.
LEMMA Parts ==
  ASSUME NEW q, WellFormed(q)
  PROVE  /\ q \in Projections /\ Resumable(q) /\ Identified(q)
         /\ Sound(q.registration) /\ Sound(q.parked)
         /\ q.registration \in Registrations /\ q.parked \in Registrations
BY Zenon DEF WellFormed, Sound

\* The eligibility a projection falls back to is an idle, working state.
LEMMA EligibilityIdle ==
  ASSUME NEW q
  PROVE  LatestEligibility(q) \in IdleStates /\ LatestEligibility(q) \in Working
BY Zenon DEF LatestEligibility, IdleStates, Working

\* A preparation that replaces the active registration.
LEMMA PreparedDressed ==
  ASSUME NEW q \in Projections, NEW v \in Nat, NEW r \in Registrations
  PROVE  Dressed(q, [q EXCEPT !.preparation = v, !.registration = r], r, q.parked)
<1> DEFINE m == [q EXCEPT !.preparation = v, !.registration = r]
<1>1. m \in Projections
  BY Zenon DEF Projections
<1>2. /\ m.registration = r /\ m.parked = q.parked /\ m.state = q.state
      /\ m.resume = q.resume /\ m.identity = q.identity /\ m.checkpoint = q.checkpoint
  BY Zenon DEF Projections
<1> QED
  BY <1>1, <1>2, Zenon DEF Dressed

\* A preparation that parks the active registration.
LEMMA ParkedDressed ==
  ASSUME NEW q \in Projections, NEW v \in Nat, NEW r \in Registrations
  PROVE  LET k == IF Abandoned(q) THEN q.registration ELSE q.parked
         IN  Dressed(q, [q EXCEPT !.preparation = v,
                                  !.parked = IF Abandoned(q) THEN q.registration ELSE @,
                                  !.registration = r], r, k)
<1> DEFINE k == IF Abandoned(q) THEN q.registration ELSE q.parked
           m == [q EXCEPT !.preparation = v, !.parked = k, !.registration = r]
<1>0. k \in Registrations
  BY ProjectionFields, Zenon
<1> SUFFICES Dressed(q, m, r, k)
  BY Zenon
<1> HIDE DEF k
<1>1. m \in Projections
  BY <1>0, Zenon DEF Projections
<1>2. /\ m.registration = r /\ m.parked = k /\ m.state = q.state
      /\ m.resume = q.resume /\ m.identity = q.identity /\ m.checkpoint = q.checkpoint
  BY Zenon DEF Projections
<1> QED
  BY <1>1, <1>2, Zenon DEF Dressed

\* The wallet is registered already.
LEMMA AlreadyCurrentAdvances ==
  ASSUME NEW q, WellFormed(q), Live(q), NEW e, IsEvent(e),
         e.kind = "RegistrationAlreadyCurrent"
  PROVE  Advances(q, AlreadyCurrent(q, e), e)
<1> DEFINE n == AlreadyCurrent(q, e)
           m == [q EXCEPT !.preparation = e.revision, !.registration = NoRegistration]
<1> SUFFICES Advances(q, n, e)
  OBVIOUS
<1>1. CASE n = q
  BY <1>1, Unmoved, Zenon
<1>2. CASE n # q
  <2>1. EffectiveState(q) = "ActionRequired" /\ n = SetEffectiveState(m, "Ready")
    BY <1>2, Zenon DEF AlreadyCurrent
  <2>2. e.revision \in Nat
    BY Zenon DEF IsEvent, Unrevised
  <2>3. NoRegistration \in Registrations /\ Sound(NoRegistration) /\ NoRegistration.draft = None
    BY NoRegistrationSound, Zenon
  <2>4. Dressed(q, m, NoRegistration, q.parked)
    BY <2>2, <2>3, Parts, PreparedDressed, Zenon
  <2> HIDE DEF n, m
  <2>5. Reaches(q, n, "Ready", NoRegistration, q.parked)
    <3>1. "Ready" \in Working
      BY Zenon DEF Working
    <3> QED
      BY <2>1, <2>4, <3>1, Parts, EffectiveReached, Zenon
  <2>6. Supports("Ready", NoRegistration) /\ Waits("Ready", q.parked)
    BY <2>3, Zenon DEF Supports, Waits, Unsent, IdleStates
  <2>7. WellFormed(n)
    BY <2>3, <2>5, <2>6, Parts, ReachedWellFormed, Zenon
  <2>8. Kept(q, n)
    BY <2>3, <2>5, Zenon DEF Kept, Reaches
  <2>9. ASSUME NEW d \in Drafts, NEW k \in Nat, ~Replaces(q, e, d)
        PROVE  Behind(n, d, k)
    <3>1. d # None
      BY Absent, Zenon
    <3> QED
      BY <2>3, <2>5, <2>9, <3>1, Zenon DEF Behind, Replaces, Reaches
  <2> QED
    BY <2>7, <2>8, <2>9, Zenon DEF Advances
<1> QED
  BY <1>1, <1>2, Zenon

\* A new draft takes the place of an abandoned registration, which is parked.
LEMMA RequestedAdvances ==
  ASSUME NEW q, WellFormed(q), Live(q), NEW e, IsEvent(e),
         e.kind = "AuthorizationRequested"
  PROVE  Advances(q, AuthorizationRequested(q, e), e)
<1> DEFINE n == AuthorizationRequested(q, e)
           r == PendingRegistration(e.draft)
           k == IF Abandoned(q) THEN q.registration ELSE q.parked
<1> SUFFICES Advances(q, n, e)
  OBVIOUS
<1>1. e.revision \in Nat /\ e.draft \in Drafts
  BY Zenon DEF IsEvent, Unrevised, OfDraft
<1>2. r \in Registrations /\ r.draft = e.draft /\ r.phase = "Awaiting" /\ Fresh(r) /\ Sound(r)
  BY <1>1, PendingFields, Zenon
<1>3. Supports("AwaitingAuthorization", r)
  BY <1>1, <1>2, Absent, Zenon DEF Supports, IdleStates
<1>0. "AwaitingAuthorization" \in Working
  BY Zenon DEF Working
<1>4. CASE /\ EffectiveState(q) = "ActionRequired"
           /\ ~HasSubmitted(q) \/ Abandoned(q)
           /\ ~HasParked(q) /\ e.revision > q.preparation
  <2> DEFINE m == [q EXCEPT !.preparation = e.revision,
                            !.parked = IF Abandoned(q) THEN q.registration ELSE @,
                            !.registration = PendingRegistration(e.draft)]
  <2>1. n = SetEffectiveState(m, "AwaitingAuthorization")
    BY <1>4, Zenon DEF AuthorizationRequested
  <2>2. Dressed(q, m, r, k)
    BY <1>1, <1>2, Parts, ParkedDressed, Zenon
  <2>3. Sound(k)
    BY Parts, Zenon
  <2>4. Waits("AwaitingAuthorization", k)
    <3>1. CASE Abandoned(q)
      BY <1>4, <3>1, Zenon DEF WellFormed, Supports, IdleStates, Waits, Unsent
    <3>2. CASE ~Abandoned(q)
      BY <1>4, <3>2, Zenon DEF Waits, Unsent, HasParked
    <3> QED
      BY <3>1, <3>2, Zenon
  <2>5. q.parked.draft = None
    BY <1>4, Zenon DEF HasParked
  <2>6. ~Abandoned(q) => q.registration.draft = None
    <3>1. SUFFICES ASSUME ~Abandoned(q), q.registration.draft # None
                   PROVE  FALSE
      BY Zenon
    <3>2. q.registration.phase = "Submitted"
      BY <1>4, <3>1, Zenon DEF WellFormed, Supports, IdleStates
    <3> QED
      BY <1>4, <3>1, <3>2, Parts, Zenon DEF HasSubmitted, Sound, Sent
  <2>7. k = q.registration \/ (k = q.parked /\ q.registration.draft = None)
    BY <2>6, Zenon
  <2>8. Abandoned(q) => q.registration.abandonment # 0
    <3>1. q.registration.abandonment \in Nat
      BY Parts, RegistrationFields, Zenon
    <3> QED
      BY <3>1, SMT DEF Abandoned
  <2>9. Abandoned(q) => k = q.registration
    BY Zenon
  <2> HIDE DEF n, m, r, k
  <2>10. Reaches(q, n, "AwaitingAuthorization", r, k)
    BY <1>0, <2>1, <2>2, Parts, EffectiveReached, Zenon
  <2>11. WellFormed(n)
    BY <1>2, <1>3, <2>3, <2>4, <2>10, ReachedWellFormed, Zenon
  <2>12. n.registration = r /\ n.parked = k
    BY <2>10, Zenon DEF Reaches
  <2>13. Kept(q, n)
    <3>1. SUFFICES ASSUME NEW d, d \in Committed(q)
                   PROVE  d \in Committed(n)
      BY Zenon DEF Kept
    <3> QED
      BY <2>5, <2>7, <2>12, <3>1, CommittedIn, Zenon
  <2>14. ASSUME NEW d \in Drafts, NEW j \in Nat, Behind(q, d, j), ~Replaces(q, e, d)
         PROVE  Behind(n, d, j)
    <3>1. d # None /\ d # e.draft
      BY <2>14, Absent, Zenon DEF Replaces
    <3>2. CASE Abandoned(q)
      <4>1. k = q.registration
        BY <2>9, <3>2, Zenon
      <4> QED
        BY <1>2, <2>8, <2>12, <2>14, <3>1, <3>2, <4>1, Zenon DEF Behind
    <3>3. CASE ~Abandoned(q)
      BY <1>2, <2>5, <2>6, <2>7, <2>12, <3>1, <3>3, Zenon DEF Behind
    <3> QED
      BY <3>2, <3>3, Zenon
  <2> QED
    BY <2>11, <2>13, <2>14, Zenon DEF Advances
<1>5. CASE /\ EffectiveState(q) = "AwaitingAuthorization" /\ ~HasDraft(q, e.draft)
           /\ LatestEligibility(q) = "ActionRequired" /\ e.revision > q.preparation
  <2> DEFINE m == [q EXCEPT !.preparation = e.revision,
                            !.registration = PendingRegistration(e.draft)]
  <2>1. n = m
    BY <1>5, Zenon DEF AuthorizationRequested
  <2>2. Dressed(q, m, r, q.parked)
    BY <1>1, <1>2, Parts, PreparedDressed, Zenon
  <2>3. q.registration.phase = "Awaiting" /\ q.registration.observation = 0
    BY <1>5, Parts, Zenon DEF WellFormed, Supports, Sound, Fresh
  <2>4. Waits("AwaitingAuthorization", q.parked)
    BY <1>5, Zenon DEF WellFormed
  <2> HIDE DEF n, m, r
  <2>5. Reaches(q, n, "AwaitingAuthorization", r, q.parked)
    BY <1>5, <2>1, <2>2, Parts, StateReached, Zenon
  <2>6. WellFormed(n)
    BY <1>2, <1>3, <2>4, <2>5, Parts, ReachedWellFormed, Zenon
  <2>7. n.registration = r /\ n.parked = q.parked
    BY <2>5, Zenon DEF Reaches
  <2>8. Kept(q, n)
    <3>1. SUFFICES ASSUME NEW d, d \in Committed(q)
                   PROVE  d \in Committed(n)
      BY Zenon DEF Kept
    <3> QED
      BY <2>3, <2>7, <3>1, CommittedIn, ZenonT(60)
  <2>9. ASSUME NEW d \in Drafts, NEW j \in Nat, Behind(q, d, j), ~Replaces(q, e, d)
        PROVE  Behind(n, d, j)
    <3>1. d # e.draft
      BY <2>9, Zenon DEF Replaces
    <3> QED
      BY <1>2, <2>3, <2>7, <2>9, <3>1, Zenon DEF Behind, Fresh
  <2> QED
    BY <2>6, <2>8, <2>9, Zenon DEF Advances
<1>6. CASE n = q
  BY <1>6, Unmoved, Zenon
<1> QED
  BY <1>4, <1>5, <1>6, Zenon DEF AuthorizationRequested

\* Other registrations and nothing else.
LEMMA PlaceDressed ==
  ASSUME NEW q \in Projections, NEW r \in Registrations, NEW k \in Registrations
  PROVE  Dressed(q, [q EXCEPT !.registration = r, !.parked = k], r, k)
<1> DEFINE m == [q EXCEPT !.registration = r, !.parked = k]
<1>1. m \in Projections
  BY Zenon DEF Projections
<1>2. /\ m.registration = r /\ m.parked = k /\ m.state = q.state
      /\ m.resume = q.resume /\ m.identity = q.identity /\ m.checkpoint = q.checkpoint
  BY Zenon DEF Projections
<1> QED
  BY <1>1, <1>2, Zenon DEF Dressed

\* Unpark brings the parked registration back into an idle state.
LEMMA UnparkReaches ==
  ASSUME NEW q, WellFormed(q), Live(q), NEW s \in IdleStates
  PROVE  Reaches(q, Unpark(q, s), s, q.parked, NoRegistration)
<1> DEFINE m == [q EXCEPT !.registration = q.parked, !.parked = NoRegistration]
<1>1. Dressed(q, m, q.parked, NoRegistration)
  BY Parts, NoRegistrationSound, PlaceDressed, Zenon
<1>2. s \in Working
  BY Zenon DEF IdleStates, Working
<1>3. Unpark(q, s) = SetEffectiveState(m, s)
  BY Zenon DEF Unpark
<1> HIDE DEF m
<1> QED
  BY <1>1, <1>2, <1>3, Parts, EffectiveReached, Zenon

\* An authorized draft is handed to submission.
LEMMA SubmittingSound ==
  ASSUME NEW r, Sound(r), r.draft # None, r.phase = "Awaiting"
  PROVE  LET n == [r EXCEPT !.phase = "Submitting"]
         IN  n \in Registrations /\ Sound(n) /\ Supports("Submitting", n) /\ Follows(r, n)
<1> DEFINE n == [r EXCEPT !.phase = "Submitting"]
<1> SUFFICES n \in Registrations /\ Sound(n) /\ Supports("Submitting", n) /\ Follows(r, n)
  BY Zenon
<1>1. r \in Registrations /\ Fresh(r)
  BY Zenon DEF Sound
<1>2. n \in Registrations
  BY <1>1, Zenon DEF Registrations, Phases
<1>3. /\ n.draft = r.draft /\ n.phase = "Submitting" /\ n.tx = r.tx
      /\ n.observation = r.observation /\ n.finality = r.finality
      /\ n.reconciliation = r.reconciliation /\ n.dust = r.dust
      /\ n.dustObservation = r.dustObservation /\ n.dustReady = r.dustReady
      /\ n.included = r.included /\ n.abandonment = r.abandonment
  BY <1>1, Zenon DEF Registrations
<1> HIDE DEF n
<1>4. Fresh(n)
  BY <1>1, <1>3, Zenon DEF Fresh
<1>5. Sound(n)
  BY <1>2, <1>3, <1>4, Zenon DEF Sound
<1>6. Supports("Submitting", n)
  BY <1>3, Zenon DEF Supports, IdleStates
<1>7. r.observation = 0 /\ r.abandonment = 0 /\ 0 <= 0
  BY <1>1, SMT DEF Fresh
<1>8. Follows(r, n)
  BY <1>3, <1>7, Zenon DEF Follows
<1> QED
  BY <1>2, <1>5, <1>6, <1>8, Zenon

\* A broadcast draft has its transaction.
LEMMA SubmittedSound ==
  ASSUME NEW r, Sound(r), r.draft # None, r.phase = "Submitting"
  PROVE  LET n == [r EXCEPT !.phase = "Submitted", !.tx = r.draft]
         IN  n \in Registrations /\ Sound(n) /\ Supports("Confirming", n) /\ Follows(r, n)
<1> DEFINE n == [r EXCEPT !.phase = "Submitted", !.tx = r.draft]
<1> SUFFICES n \in Registrations /\ Sound(n) /\ Supports("Confirming", n) /\ Follows(r, n)
  BY Zenon
<1>1. r \in Registrations /\ Fresh(r)
  BY Zenon DEF Sound
<1>2. n \in Registrations
  BY <1>1, Zenon DEF Registrations, Phases
<1>3. /\ n.draft = r.draft /\ n.phase = "Submitted" /\ n.tx = r.draft
      /\ n.observation = r.observation /\ n.finality = r.finality
      /\ n.reconciliation = r.reconciliation /\ n.dust = r.dust
      /\ n.dustObservation = r.dustObservation /\ n.dustReady = r.dustReady
      /\ n.included = r.included /\ n.abandonment = r.abandonment
  BY <1>1, Zenon DEF Registrations
<1> HIDE DEF n
<1>4. Biggest(0, 0) = 0
  BY Zenon DEF Biggest
<1>5. Sent(n)
  BY <1>1, <1>3, <1>4, Zenon DEF Fresh, Sent
<1>6. Sound(n)
  BY <1>2, <1>3, <1>5, Zenon DEF Sound
<1>7. Supports("Confirming", n)
  BY <1>1, <1>3, Zenon DEF Supports, IdleStates, Fresh
<1>8. r.observation = 0 /\ r.abandonment = 0 /\ 0 <= 0
  BY <1>1, SMT DEF Fresh
<1>9. Follows(r, n)
  BY <1>3, <1>8, Zenon DEF Follows
<1> QED
  BY <1>2, <1>6, <1>7, <1>9, Zenon

\* The draft is authorized: it is submitted, or ends when the wallet is no
\* longer eligible.
LEMMA SucceededAdvances ==
  ASSUME NEW q, WellFormed(q), Live(q), NEW e
  PROVE  Advances(q, AuthorizationSucceeded(q, e), e)
<1> DEFINE n == AuthorizationSucceeded(q, e)
<1> SUFFICES Advances(q, n, e)
  OBVIOUS
<1>1. CASE Awaits(q, e.draft) /\ LatestEligibility(q) = "NotEligible"
  <2>1. n = Unpark(q, "NotEligible")
    BY <1>1, Zenon DEF AuthorizationSucceeded
  <2>2. "NotEligible" \in IdleStates /\ EffectiveState(q) = "AwaitingAuthorization"
    BY <1>1, Zenon DEF IdleStates, Awaits
  <2> HIDE DEF n
  <2>3. Reaches(q, n, "NotEligible", q.parked, NoRegistration)
    BY <2>1, <2>2, UnparkReaches, Zenon
  <2> QED
    BY <2>2, <2>3, Unparked, Zenon
<1>2. CASE Awaits(q, e.draft) /\ LatestEligibility(q) # "NotEligible"
  <2> DEFINE r == [q.registration EXCEPT !.phase = "Submitting"]
             m == [q EXCEPT !.registration.phase = "Submitting"]
  <2>1. n = SetEffectiveState(m, "Submitting")
    BY <1>2, Zenon DEF AuthorizationSucceeded
  <2>2. q.registration.draft # None /\ q.registration.phase = "Awaiting"
    BY <1>2, Zenon DEF Awaits, HasDraft, HasRegistration, WellFormed, Supports
  <2>3. r \in Registrations /\ Sound(r) /\ Supports("Submitting", r)
        /\ Follows(q.registration, r)
    BY <2>2, Parts, SubmittingSound, Zenon
  <2>4. m = [q EXCEPT !.registration = r, !.parked = q.parked]
    <3>1. q \in Projections
      BY Parts, Zenon
    <3> QED
      BY <3>1, Zenon DEF Projections
  <2> HIDE DEF n, m, r
  <2>5. Dressed(q, m, r, q.parked)
    BY <2>3, <2>4, Parts, PlaceDressed, Zenon
  <2>6. "Submitting" \in Working
    BY Zenon DEF Working
  <2>7. Reaches(q, n, "Submitting", r, q.parked)
    BY <2>1, <2>5, <2>6, Parts, EffectiveReached, Zenon
  <2>8. EffectiveState(q) \in Unsent
    BY <1>2, Zenon DEF Awaits, Unsent
  <2> QED
    BY <2>3, <2>7, <2>8, Followed, Zenon
<1>3. CASE n = q
  BY <1>3, Unmoved, Zenon
<1> QED
  BY <1>1, <1>2, <1>3, Zenon DEF AuthorizationSucceeded

\* A rejected authorization gives up its draft only.
LEMMA RejectedAdvances ==
  ASSUME NEW q, WellFormed(q), Live(q), NEW e
  PROVE  Advances(q, AuthorizationRejected(q, e), e)
<1> DEFINE n == AuthorizationRejected(q, e)
           s == LatestEligibility(q)
<1> SUFFICES Advances(q, n, e)
  OBVIOUS
<1>1. CASE Awaits(q, e.draft)
  <2>1. n = Unpark(q, s)
    BY <1>1, Zenon DEF AuthorizationRejected
  <2>2. s \in IdleStates /\ EffectiveState(q) = "AwaitingAuthorization"
    BY <1>1, EligibilityIdle, Zenon DEF Awaits
  <2> HIDE DEF n, s
  <2>3. Reaches(q, n, s, q.parked, NoRegistration)
    BY <2>1, <2>2, UnparkReaches, Zenon
  <2> QED
    BY <2>2, <2>3, Unparked, Zenon
<1>2. CASE ~Awaits(q, e.draft)
  <2>1. n = q
    BY <1>2, Zenon DEF AuthorizationRejected
  <2> QED
    BY <2>1, Unmoved, Zenon
<1> QED
  BY <1>1, <1>2, Zenon

\* An accepted submission keeps its draft and names its transaction.
LEMMA AcceptedAdvances ==
  ASSUME NEW q, WellFormed(q), Live(q), NEW e, IsEvent(e), e.kind = "SubmissionAccepted"
  PROVE  Advances(q, SubmissionAccepted(q, e), e)
<1> DEFINE n == SubmissionAccepted(q, e)
           r == [q.registration EXCEPT !.phase = "Submitted", !.tx = q.registration.draft]
           m == [q EXCEPT !.registration.phase = "Submitted", !.registration.tx = e.tx]
<1> SUFFICES Advances(q, n, e)
  OBVIOUS
<1>1. CASE EffectiveState(q) = "Submitting" /\ HasDraft(q, e.draft)
  <2>1. n = SetEffectiveState(m, "Confirming")
    BY <1>1, Zenon DEF SubmissionAccepted
  <2>2. q.registration.draft # None /\ q.registration.phase = "Submitting"
        /\ e.tx = q.registration.draft
    BY <1>1, Zenon DEF HasDraft, HasRegistration, WellFormed, Supports, IsEvent
  <2>3. r \in Registrations /\ Sound(r) /\ Supports("Confirming", r)
        /\ Follows(q.registration, r)
    BY <2>2, Parts, SubmittedSound, Zenon
  <2>4. m = [q EXCEPT !.registration = r, !.parked = q.parked]
    <3>1. q \in Projections /\ q.registration \in Registrations
      BY Parts, Zenon
    <3> QED
      BY <2>2, <3>1, Zenon DEF Projections, Registrations
  <2> HIDE DEF n, m, r
  <2>5. Dressed(q, m, r, q.parked)
    BY <2>3, <2>4, Parts, PlaceDressed, Zenon
  <2>6. "Confirming" \in Working
    BY Zenon DEF Working
  <2>7. Reaches(q, n, "Confirming", r, q.parked)
    BY <2>1, <2>5, <2>6, Parts, EffectiveReached, Zenon
  <2> QED
    BY <2>3, <2>7, Followed, Zenon DEF Unsent
<1>2. CASE ~(EffectiveState(q) = "Submitting" /\ HasDraft(q, e.draft))
  <2>1. n = q
    BY <1>2, Zenon DEF SubmissionAccepted
  <2> QED
    BY <2>1, Unmoved, Zenon
<1> QED
  BY <1>1, <1>2, Zenon

\* A dropped registration is given up after its last observation.
LEMMA AbandonedSound ==
  ASSUME NEW r, Sound(r), r.phase = "Submitted", ~r.included, NEW v \in Nat \ {0},
         r.observation < v, NEW s \in IdleStates
  PROVE  LET n == [r EXCEPT !.abandonment = v]
         IN  n \in Registrations /\ Sound(n) /\ Supports(s, n) /\ Follows(r, n)
<1> DEFINE n == [r EXCEPT !.abandonment = v]
<1> SUFFICES n \in Registrations /\ Sound(n) /\ Supports(s, n) /\ Follows(r, n)
  BY Zenon
<1>0. v \in Nat
  OBVIOUS
<1>1. r \in Registrations /\ Sent(r)
  BY Zenon DEF Sound
<1>2. n \in Registrations
  BY <1>0, <1>1, Zenon DEF Registrations
<1>3. /\ n.draft = r.draft /\ n.phase = r.phase /\ n.tx = r.tx
      /\ n.observation = r.observation /\ n.finality = r.finality
      /\ n.reconciliation = r.reconciliation /\ n.dust = r.dust
      /\ n.dustObservation = r.dustObservation /\ n.dustReady = r.dustReady
      /\ n.included = r.included /\ n.abandonment = v
  BY <1>1, Zenon DEF Registrations
<1> HIDE DEF n
<1>4. Sent(n)
  BY <1>1, <1>3, Zenon DEF Sent
<1>5. Sound(n)
  BY <1>2, <1>3, <1>4, Zenon DEF Sound
<1>6. Supports(s, n)
  BY <1>3, Zenon DEF Supports, IdleStates
<1>7. r.observation \in Nat
  BY <1>1, RegistrationFields, Zenon
<1>8. Follows(r, n)
  BY <1>3, <1>7, NatOrder, Zenon DEF Follows
<1> QED
  BY <1>2, <1>5, <1>6, <1>8, Zenon

\* A dropped registration that is given up stays known.
LEMMA AbandonedAdvances ==
  ASSUME NEW q, WellFormed(q), Live(q), NEW e, IsEvent(e),
         e.kind = "DroppedRegistrationAbandoned"
  PROVE  Advances(q, DroppedRegistrationAbandoned(q, e), e)
<1> DEFINE n == DroppedRegistrationAbandoned(q, e)
           r == [q.registration EXCEPT !.abandonment = e.after]
           G == /\ EffectiveState(q) = "ActionRequired" /\ HasTransaction(q, e.tx)
                /\ q.registration.observation < e.after
                /\ q.registration.dustObservation <= e.after
<1> SUFFICES Advances(q, n, e)
  OBVIOUS
<1>1. CASE G
  <2>1. n = [q EXCEPT !.registration.abandonment = e.after]
    BY <1>1, Zenon DEF DroppedRegistrationAbandoned
  <2>2. e.after \in Nat \ {0} /\ "ActionRequired" \in IdleStates
    BY Zenon DEF IsEvent, IdleStates
  <2>3. q.registration.draft # None
    BY <1>1, Parts, Zenon DEF HasTransaction, Sound, Sent, Fresh
  <2>4. q.registration.phase = "Submitted" /\ ~q.registration.included
    BY <1>1, <2>3, Zenon DEF WellFormed, Supports, IdleStates
  <2>5. r \in Registrations /\ Sound(r) /\ Supports("ActionRequired", r)
        /\ Follows(q.registration, r)
    BY <1>1, <2>2, <2>4, Parts, AbandonedSound, Zenon
  <2>6. n = [q EXCEPT !.registration = r, !.parked = q.parked]
    <3>1. q \in Projections
      BY Parts, Zenon
    <3> QED
      BY <2>1, <3>1, Zenon DEF Projections
  <2>7. EffectiveState(q) = "ActionRequired"
    BY <1>1, Zenon
  <2> HIDE DEF n, r
  <2>8. Dressed(q, n, r, q.parked)
    BY <2>5, <2>6, Parts, PlaceDressed, Zenon
  <2>9. Reaches(q, n, "ActionRequired", r, q.parked)
    BY <2>7, <2>8, Parts, StateReached, Zenon
  <2> QED
    BY <2>5, <2>9, Followed, Zenon DEF Unsent
<1>2. CASE ~G
  <2>1. n = q
    BY <1>2, Zenon DEF DroppedRegistrationAbandoned
  <2> QED
    BY <2>1, Unmoved, Zenon
<1> QED
  BY <1>1, <1>2, Zenon

\* A projection that ends has no registrations left.
LEMMA EndedWellFormed ==
  ASSUME NEW q, q \in Projections, q.identity # NoIdentity, Identified(q),
         q.registration = NoRegistration, q.parked.draft = None, Sound(q.parked),
         NEW s \in {"Unavailable", "Cancelled"}
  PROVE  WellFormed(SetState(q, s)) /\ SetState(q, s).identity = q.identity
         /\ SetState(q, s).state = s
         /\ \A d \in Drafts : \A k \in Nat : Behind(SetState(q, s), d, k)
<1> DEFINE n == SetState(q, s)
<1>1. s \in States /\ ~Recoverable(s) /\ s \notin Working
  BY Zenon DEF States, Recoverable, RecoverableStates, Working
<1>2. /\ n \in Projections /\ n.state = s /\ n.resume = None
      /\ n.registration = q.registration /\ n.parked = q.parked
      /\ n.identity = q.identity /\ n.checkpoint = q.checkpoint
  BY <1>1, StateFields
<1> HIDE DEF n
<1>3. EffectiveState(n) = s /\ Resumable(n) /\ Identified(n)
  BY <1>1, <1>2, Zenon DEF EffectiveState, Resumable, Identified
<1>4. NoRegistration.draft = None /\ Sound(NoRegistration)
  BY NoRegistrationSound, Zenon
<1>5. Supports(s, NoRegistration) /\ Waits(s, q.parked)
  BY <1>1, <1>4, Zenon DEF Supports, Waits, Unsent, Working, IdleStates
<1>6. WellFormed(n)
  BY <1>2, <1>3, <1>4, <1>5, Zenon DEF WellFormed
<1>7. ASSUME NEW d \in Drafts, NEW k \in Nat
      PROVE  Behind(n, d, k)
  BY <1>2, <1>4, Absent, Zenon DEF Behind
<1> QED
  BY <1>2, <1>6, <1>7, Zenon DEF n

\* The active registration alone is cleared.
LEMMA ClearedDressed ==
  ASSUME NEW q \in Projections
  PROVE  Dressed(q, [q EXCEPT !.registration = NoRegistration], NoRegistration, q.parked)
<1> DEFINE m == [q EXCEPT !.registration = NoRegistration]
<1>1. m \in Projections
  BY NoRegistrationSound, Zenon DEF Projections
<1>2. /\ m.registration = NoRegistration /\ m.parked = q.parked /\ m.state = q.state
      /\ m.resume = q.resume /\ m.identity = q.identity /\ m.checkpoint = q.checkpoint
  BY Zenon DEF Projections
<1> QED
  BY <1>1, <1>2, Zenon DEF Dressed

\* The superseded projection of a realm ends.
LEMMA SupersededAdvances ==
  ASSUME NEW q, WellFormed(q), q.identity # NoIdentity, NEW e
  PROVE  Advances(q, Superseded(q), e)
<1> DEFINE m == [q EXCEPT !.registration = NoRegistration, !.parked = NoRegistration]
           n == SetState(m, "Unavailable")
<1>1. Superseded(q) = n
  BY Zenon DEF Superseded
<1>2. Dressed(q, m, NoRegistration, NoRegistration)
  BY Parts, NoRegistrationSound, PlaceDressed, Zenon
<1> HIDE DEF m
<1>3. /\ m \in Projections /\ m.identity # NoIdentity /\ Identified(m)
      /\ m.registration = NoRegistration /\ m.parked.draft = None /\ Sound(m.parked)
  BY <1>2, Parts, NoRegistrationSound, Zenon DEF Dressed, Identified
<1>4. /\ WellFormed(n) /\ n.state = "Unavailable"
      /\ \A d \in Drafts : \A k \in Nat : Behind(n, d, k)
  BY <1>3, EndedWellFormed, Zenon
<1> HIDE DEF n
<1> QED
  BY <1>1, <1>4, Zenon DEF Advances

\* Cancelling ends the projection, or brings the parked registration back.
LEMMA CancelAdvances ==
  ASSUME NEW q, WellFormed(q), Live(q), NEW e
  PROVE  Advances(q, Cancel(q, e), e)
<1> DEFINE n == Cancel(q, e)
<1> SUFFICES Advances(q, n, e)
  OBVIOUS
<1>1. CASE ~(CanCancel(q) /\ HasDraft(q, e.draft))
  <2>1. n = q
    BY <1>1, Zenon DEF Cancel
  <2> QED
    BY <2>1, Unmoved, Zenon
<1>2. CASE CanCancel(q) /\ HasDraft(q, e.draft)
  <2>1. EffectiveState(q) \in PreSubmission /\ q.registration.draft # None
        /\ q.registration.tx = None
    <3>1. q.state \in PreSubmission => ~Recoverable(q.state)
      BY Zenon DEF PreSubmission, Recoverable, RecoverableStates
    <3>2. None \notin PreSubmission
      BY Zenon DEF None, PreSubmission
    <3> QED
      BY <1>2, <3>1, <3>2, Zenon DEF CanCancel, HasSubmitted, EffectiveState, HasDraft,
         HasRegistration
  <2>2. EffectiveState(q) = "AwaitingAuthorization"
    <3>1. EffectiveState(q) # "ActionRequired"
      BY <2>1, Zenon DEF WellFormed, Supports, IdleStates, Sound, Sent
    <3> QED
      BY <2>1, <3>1, Zenon DEF PreSubmission
  <2>3. CASE HasParked(q)
    <3> DEFINE s == LatestEligibility(q)
    <3>1. n = Unpark(q, s)
      BY <1>2, <2>3, Zenon DEF Cancel
    <3>2. s \in IdleStates
      BY EligibilityIdle, Zenon
    <3> HIDE DEF n, s
    <3>3. Reaches(q, n, s, q.parked, NoRegistration)
      BY <3>1, <3>2, UnparkReaches, Zenon
    <3> QED
      BY <2>2, <3>2, <3>3, Unparked, Zenon
  <2>4. CASE ~HasParked(q)
    <3> DEFINE m == [q EXCEPT !.registration = NoRegistration]
    <3>1. n = SetState(m, "Cancelled")
      BY <1>2, <2>4, Zenon DEF Cancel
    <3>2. Dressed(q, m, NoRegistration, q.parked)
      BY Parts, ClearedDressed, Zenon
    <3> HIDE DEF m, n
    <3>3. /\ m \in Projections /\ m.identity # NoIdentity /\ Identified(m)
          /\ m.registration = NoRegistration /\ m.parked.draft = None /\ Sound(m.parked)
      BY <2>4, <3>2, Parts, Zenon DEF Dressed, Identified, Live, HasParked
    <3>4. /\ WellFormed(n) /\ n.state = "Cancelled"
          /\ \A d \in Drafts : \A k \in Nat : Behind(n, d, k)
      BY <3>1, <3>3, EndedWellFormed, Zenon
    <3>5. Kept(q, n)
      <4>1. q.registration.phase = "Awaiting" /\ q.parked.draft = None
        BY <2>2, <2>4, Zenon DEF WellFormed, Supports, HasParked
      <4>2. SUFFICES ASSUME NEW d, d \in Committed(q)
                     PROVE  FALSE
        BY Zenon DEF Kept
      <4> QED
        BY <4>1, <4>2, CommittedIn, Zenon
    <3> QED
      BY <3>4, <3>5, Zenon DEF Advances
  <2> QED
    BY <2>3, <2>4, Zenon
<1> QED
  BY <1>1, <1>2, Zenon

\* The parked draft moves on, or is given up before it was committed.
LEMMA ParkedFollowed ==
  ASSUME NEW q, WellFormed(q), Live(q), NEW e, NEW n, NEW k,
         Reaches(q, n, EffectiveState(q), q.registration, k), Sound(k),
         Waits(EffectiveState(q), k), q.parked.abandonment = 0,
         \/ k.draft = None /\ q.parked.phase = "Awaiting"
         \/ k.draft = q.parked.draft /\ (q.parked.phase # "Awaiting" => k.phase # "Awaiting")
  PROVE  Advances(q, n, e)
<1>1. Supports(EffectiveState(q), q.registration)
  BY Zenon DEF WellFormed
<1>2. WellFormed(n)
  BY <1>1, Parts, ReachedWellFormed, Zenon
<1>3. n.registration = q.registration /\ n.parked = k
  BY Zenon DEF Reaches
<1>4. Kept(q, n)
  <2>1. SUFFICES ASSUME NEW d, d \in Committed(q)
                 PROVE  d \in Committed(n)
    BY Zenon DEF Kept
  <2> QED
    BY <1>3, <2>1, CommittedIn, ZenonT(60)
<1>5. ASSUME NEW d \in Drafts, NEW j \in Nat, Behind(q, d, j)
      PROVE  Behind(n, d, j)
  <2>1. d # None
    BY Absent, Zenon
  <2> QED
    BY <1>3, <1>5, <2>1, Zenon DEF Behind
<1> QED
  BY <1>2, <1>4, <1>5, Zenon DEF Advances

\* Only the parked registration changes.
LEMMA AsideDressed ==
  ASSUME NEW q \in Projections, NEW k \in Registrations
  PROVE  Dressed(q, [q EXCEPT !.parked = k], q.registration, k)
<1> DEFINE m == [q EXCEPT !.parked = k]
<1>1. m \in Projections
  BY Zenon DEF Projections
<1>2. /\ m.registration = q.registration /\ m.parked = k /\ m.state = q.state
      /\ m.resume = q.resume /\ m.identity = q.identity /\ m.checkpoint = q.checkpoint
  BY Zenon DEF Projections
<1> QED
  BY <1>1, <1>2, Zenon DEF Dressed

\* An event for the parked draft leaves the active registration alone.
LEMMA ParkedAdvances ==
  ASSUME NEW q, WellFormed(q), q.identity # NoIdentity, NEW e, IsEvent(e), ParkedEvent(q, e)
  PROVE  Advances(q, ReduceParked(q, e), e)
<1> DEFINE n == ReduceParked(q, e)
           s == EffectiveState(q)
<1> SUFFICES Advances(q, n, e)
  OBVIOUS
<1>1. /\ q.parked.draft # None /\ q.parked.draft = e.draft
      /\ q.parked.phase = IF e.kind = "SubmissionAccepted" THEN "Submitting" ELSE "Awaiting"
  BY Zenon DEF ParkedEvent, ForParked, HasParked
<1>2. Live(q)
  BY <1>1, Zenon DEF WellFormed, Live
<1>3. q.parked.phase # "Submitted"
  BY <1>1, Zenon
<1>4. s \notin Unsent
  BY <1>1, <1>3, Zenon DEF WellFormed, Waits, Unsent
<1>5. q.parked.abandonment = 0
  BY <1>3, Parts, Zenon DEF Sound, Fresh
<1>6. \A k : Waits(s, k)
  BY <1>4, Zenon DEF Waits, Unsent
<1> SUFFICES
               \E k : /\ Sound(k) /\ Dressed(q, n, q.registration, k)
                           /\ \/ k.draft = None /\ q.parked.phase = "Awaiting"
                              \/ k.draft = q.parked.draft
                                 /\ (q.parked.phase # "Awaiting" => k.phase # "Awaiting")
  <2>1. PICK k : /\ Sound(k) /\ Dressed(q, n, q.registration, k)
                 /\ \/ k.draft = None /\ q.parked.phase = "Awaiting"
                    \/ k.draft = q.parked.draft
                       /\ (q.parked.phase # "Awaiting" => k.phase # "Awaiting")
    BY Zenon
  <2> HIDE DEF n
  <2>2. Reaches(q, n, s, q.registration, k)
    BY <1>2, <2>1, Parts, StateReached, Zenon
  <2> QED
    BY <1>2, <1>5, <1>6, <2>1, <2>2, ParkedFollowed, Zenon
<1>7. CASE e.kind = "SubmissionAccepted"
  <2> DEFINE k == [q.parked EXCEPT !.phase = "Submitted", !.tx = q.parked.draft]
  <2>1. n = [q EXCEPT !.parked.phase = "Submitted", !.parked.tx = e.tx]
    BY <1>7, Zenon DEF ReduceParked
  <2>2. e.tx = q.parked.draft
    BY <1>1, <1>7, Zenon DEF IsEvent
  <2>3. k \in Registrations /\ Sound(k) /\ Follows(q.parked, k)
    BY <1>1, <1>7, Parts, SubmittedSound, Zenon
  <2>4. n = [q EXCEPT !.parked = k]
    <3>1. q \in Projections /\ q.parked \in Registrations
      BY Parts, Zenon
    <3> QED
      BY <2>1, <2>2, <3>1, Zenon DEF Projections, Registrations
  <2> HIDE DEF n, k
  <2>5. Dressed(q, n, q.registration, k)
    BY <2>3, <2>4, Parts, AsideDressed, Zenon
  <2> QED
    BY <2>3, <2>5, Zenon DEF Follows
<1>8. CASE e.kind = "AuthorizationSucceeded" /\ LatestEligibility(q) # "NotEligible"
  <2> DEFINE k == [q.parked EXCEPT !.phase = "Submitting"]
  <2>1. n = [q EXCEPT !.parked.phase = "Submitting"]
    BY <1>8, Zenon DEF ReduceParked
  <2>3. k \in Registrations /\ Sound(k) /\ Follows(q.parked, k)
    BY <1>1, <1>8, Parts, SubmittingSound, Zenon
  <2>4. n = [q EXCEPT !.parked = k]
    <3>1. q \in Projections /\ q.parked \in Registrations
      BY Parts, Zenon
    <3> QED
      BY <2>1, <3>1, Zenon DEF Projections, Registrations
  <2> HIDE DEF n, k
  <2>5. Dressed(q, n, q.registration, k)
    BY <2>3, <2>4, Parts, AsideDressed, Zenon
  <2> QED
    BY <2>3, <2>5, Zenon DEF Follows
<1>9. CASE /\ e.kind # "SubmissionAccepted"
           /\ ~(e.kind = "AuthorizationSucceeded" /\ LatestEligibility(q) # "NotEligible")
  <2>1. n = [q EXCEPT !.parked = NoRegistration]
    BY <1>9, Zenon DEF ReduceParked
  <2>2. NoRegistration \in Registrations /\ Sound(NoRegistration) /\ NoRegistration.draft = None
    BY NoRegistrationSound, Zenon
  <2> HIDE DEF n
  <2>3. Dressed(q, n, q.registration, NoRegistration)
    BY <2>1, <2>2, Parts, AsideDressed, Zenon
  <2>4. q.parked.phase = "Awaiting"
    BY <1>1, <1>9, Zenon
  <2> QED
    BY <2>2, <2>3, <2>4, Zenon
<1> QED
  BY <1>7, <1>8, <1>9, Zenon

-----------------------------------------------------------------------------
(* The observations of a broadcast transaction.                            *)

\* A newer version of the active registration is reached, which has seen
\* revision v.
Moved(q, n, v) ==
  \E s, r : /\ Reaches(q, n, s, r, q.parked) /\ Sound(r) /\ Supports(s, r)
            /\ Follows(q.registration, r) /\ s \notin Unsent
            /\ v <= r.observation

\* What an observation starts from: a well-formed projection, or one whose
\* parked registration was just made active.
Observing(q) ==
  /\ q \in Projections /\ Resumable(q) /\ Identified(q) /\ Live(q)
  /\ Sound(q.registration) /\ Sound(q.parked)
  /\ Supports(EffectiveState(q), q.registration) \/ EffectiveState(q) \in IdleStates

\* Biggest bounds both of its arguments.
LEMMA BiggestFacts ==
  ASSUME NEW a \in Nat, NEW b \in Nat
  PROVE  Biggest(a, b) \in Nat /\ a <= Biggest(a, b) /\ b <= Biggest(a, b)
BY SMT DEF Biggest

\* A registration whose finality was observed at revision v.
LEMMA FinalizedSound ==
  ASSUME NEW r, Sound(r), r.phase = "Submitted", NEW v \in Nat \ {0}, v > r.finality
  PROVE  LET n == Finalized(r, v)
         IN  /\ n \in Registrations /\ Sound(n) /\ Follows(r, n) /\ n.phase = "Submitted"
             /\ n.abandonment = 0 /\ n.finality = v /\ n.reconciliation = r.reconciliation
             /\ n.included = r.included /\ v <= n.observation /\ n.observation # 0
<1> DEFINE n == Finalized(r, v)
<1> SUFFICES /\ n \in Registrations /\ Sound(n) /\ Follows(r, n) /\ n.phase = "Submitted"
             /\ n.abandonment = 0 /\ n.finality = v /\ n.reconciliation = r.reconciliation
             /\ n.included = r.included /\ v <= n.observation /\ n.observation # 0
  BY Zenon
<1>0. v \in Nat /\ 0 \in Nat /\ v # 0
  OBVIOUS
<1>1. r \in Registrations /\ Sent(r)
  BY Zenon DEF Sound
<1>2. r.observation \in Nat /\ r.finality \in Nat /\ r.reconciliation \in Nat
  BY <1>1, RegistrationFields, Zenon
<1>3. Biggest(r.observation, v) \in Nat
  BY <1>0, <1>2, BiggestFacts, Zenon
<1>4. n \in Registrations
  BY <1>0, <1>1, <1>3, Zenon DEF Registrations, Finalized
<1>5. /\ n.draft = r.draft /\ n.phase = r.phase /\ n.tx = r.tx
      /\ n.observation = Biggest(r.observation, v) /\ n.finality = v
      /\ n.reconciliation = r.reconciliation /\ n.dust = r.dust
      /\ n.dustObservation = r.dustObservation /\ n.dustReady = r.dustReady
      /\ n.included = r.included /\ n.abandonment = 0
  BY <1>1, Zenon DEF Registrations, Finalized
<1> HIDE DEF n
<1>6. r.observation = Biggest(r.finality, r.reconciliation)
  BY <1>1, Zenon DEF Sent
<1>7. n.observation = Biggest(v, r.reconciliation)
  BY <1>0, <1>2, <1>5, <1>6, SMT DEF Biggest
<1>8. v <= n.observation /\ r.observation <= n.observation /\ n.observation # 0
  BY <1>0, <1>2, <1>5, SMT DEF Biggest
<1>9. Sent(n)
  BY <1>1, <1>5, <1>7, Zenon DEF Sent
<1>10. Sound(n)
  BY <1>4, <1>5, <1>9, Zenon DEF Sound
<1>11. Follows(r, n)
  BY <1>5, <1>8, Zenon DEF Follows
<1> QED
  BY <1>4, <1>5, <1>8, <1>10, <1>11, Zenon

\* The transaction is final: the registration is reconciled anew, unless it
\* is already current, or the observation is older than the reconciliation.
LEMMA FinalityMoves ==
  ASSUME NEW q, Observing(q), NEW e, IsEvent(e), e.kind = "FinalityObserved",
         Observes(q, e), e.revision > q.registration.finality,
         e.revision > q.registration.abandonment,
         EffectiveState(q) \notin IdleStates \/ e.revision > q.registration.reconciliation
  PROVE  Moved(q, FinalityObserved(q, e), e.revision)
<1> DEFINE v == e.revision
           was == EffectiveState(q)
           r == Finalized(q.registration, v)
           m == [q EXCEPT !.registration = r, !.parked = q.parked]
           n == FinalityObserved(q, e)
           again == was = "Ready" \/ (was \in IdleStates \cup {"Confirming"}
                                      /\ v >= q.registration.reconciliation)
<1> SUFFICES Moved(q, n, v)
  OBVIOUS
<1>1. v \in Nat \ {0} /\ v \in Nat
  BY Zenon DEF IsEvent, Unrevised
<1>2. /\ q \in Projections /\ Resumable(q) /\ Identified(q) /\ Live(q)
      /\ Sound(q.registration)
  BY Zenon DEF Observing
<1>3. q.registration.phase = "Submitted" /\ was \in ObservableStates
  BY <1>2, Zenon DEF Observes, HasTransaction, Sound, Fresh
<1>4. /\ r \in Registrations /\ Sound(r) /\ Follows(q.registration, r)
      /\ r.phase = "Submitted" /\ r.abandonment = 0 /\ r.finality = v
      /\ r.reconciliation = q.registration.reconciliation
      /\ r.included = q.registration.included /\ v <= r.observation /\ r.observation # 0
  BY <1>1, <1>2, <1>3, FinalizedSound, Zenon
<1>5. [q EXCEPT !.registration.abandonment = 0, !.registration.finality = v,
                !.registration.observation = Biggest(@, v)] = m
  BY <1>1, <1>2, FinalizedNext, Zenon
<1>6. q.parked \in Registrations
  BY <1>2, ProjectionFields, Zenon
<1>7. Dressed(q, m, r, q.parked)
  BY <1>2, <1>4, <1>6, PlaceDressed, Zenon
<1>8. RegistrationReady(m) <=> Current(r)
  <2>1. m.registration = r
    BY <1>7, Zenon DEF Dressed
  <2> HIDE DEF m, r
  <2> QED
    BY <2>1, Zenon DEF RegistrationReady, Current
<1> HIDE DEF m, r
<1>9. n = IF RegistrationReady(m) THEN SetEffectiveState(m, "Ready")
          ELSE IF again THEN SetEffectiveState(m, "Reconciling") ELSE m
  BY <1>5, SMT DEF FinalityObserved
<1> HIDE DEF n
<1>10. CASE Current(r)
  <2>1. n = SetEffectiveState(m, "Ready") /\ "Ready" \in Working
    BY <1>8, <1>9, <1>10, Zenon DEF Working
  <2>2. Reaches(q, n, "Ready", r, q.parked)
    BY <1>2, <1>7, <2>1, EffectiveReached, Zenon
  <2>3. Supports("Ready", r)
    BY <1>4, <1>10, Zenon DEF Supports, IdleStates
  <2> QED
    BY <1>4, <2>2, <2>3, Zenon DEF Moved, Unsent
<1>11. CASE ~Current(r) /\ again
  <2>1. n = SetEffectiveState(m, "Reconciling") /\ "Reconciling" \in Working
    BY <1>8, <1>9, <1>11, Zenon DEF Working
  <2>2. Reaches(q, n, "Reconciling", r, q.parked)
    BY <1>2, <1>7, <2>1, EffectiveReached, Zenon
  <2>3. was = "Ready" => q.registration.included
    <3>1. was = "Ready" => Supports(was, q.registration)
      BY Zenon DEF Observing, IdleStates
    <3>2. q.registration.draft # None
      BY <1>2, <1>3, Zenon DEF Sound, Sent
    <3> QED
      BY <3>1, <3>2, Zenon DEF Supports, Current
  <2>4. r.included \/ r.finality >= r.reconciliation
    BY <1>4, <1>11, <2>3, Zenon
  <2>5. Supports("Reconciling", r)
    BY <1>4, <1>11, <2>4, Zenon DEF Supports, IdleStates
  <2> QED
    BY <1>4, <2>2, <2>5, Zenon DEF Moved, Unsent
<1>12. CASE ~Current(r) /\ ~again
  <2>1. n = m
    BY <1>8, <1>9, <1>12, Zenon
  <2>2. Reaches(q, n, was, r, q.parked)
    BY <1>2, <1>7, <2>1, StateReached, Zenon
  <2>3. /\ q.registration.finality \in Nat /\ q.registration.reconciliation \in Nat
    BY <1>2, RegistrationFields, Zenon DEF Sound
  <2>4. was \in {"Confirming", "Reconciling"}
    <3>1. was \notin IdleStates
      <4>1. v > q.registration.reconciliation => v >= q.registration.reconciliation
        BY <1>1, <2>3, SMT
      <4> QED
        BY <1>12, <4>1, Zenon
    <3> QED
      BY <1>3, <1>12, <3>1, Zenon DEF ObservableStates
  <2>5. Supports(was, q.registration)
    BY <2>4, Zenon DEF Observing, IdleStates
  <2>6. CASE was = "Confirming"
    <3>1. v < q.registration.reconciliation
      <4>1. ~(v >= q.registration.reconciliation)
        BY <1>12, <2>6, Zenon
      <4> QED
        BY <1>1, <2>3, <4>1, SMT
    <3>2. Supports("Confirming", r)
      BY <1>4, <2>5, <2>6, <3>1, Zenon DEF Supports, IdleStates
    <3> QED
      BY <1>4, <2>2, <2>6, <3>2, Zenon DEF Moved, Unsent
  <2>7. CASE was = "Reconciling"
    <3>1. q.registration.finality >= q.registration.reconciliation
            => v >= q.registration.reconciliation
      BY <1>1, <2>3, SMT
    <3>2. Supports("Reconciling", r)
      BY <1>4, <1>12, <2>5, <2>7, <3>1, Zenon DEF Supports, IdleStates
    <3> QED
      BY <1>4, <2>2, <2>7, <3>2, Zenon DEF Moved, Unsent
  <2> QED
    BY <2>4, <2>6, <2>7, Zenon
<1> QED
  BY <1>10, <1>11, <1>12, Zenon

\* The nested updates of RegistrationReconciled, as an update of the
\* registration.
Reconciled(r, k, b) ==
  [r EXCEPT !.abandonment = 0, !.reconciliation = k, !.observation = Biggest(r.observation, k),
            !.included = b]

\* A registration that was reconciled at revision v.
LEMMA ReconciledSound ==
  ASSUME NEW r, Sound(r), r.phase = "Submitted", NEW v \in Nat \ {0}, v > r.reconciliation,
         NEW b \in BOOLEAN
  PROVE  LET n == Reconciled(r, v, b)
         IN  /\ n \in Registrations /\ Sound(n) /\ Follows(r, n) /\ n.phase = "Submitted"
             /\ n.abandonment = 0 /\ n.finality = r.finality /\ n.reconciliation = v
             /\ n.included = b /\ v <= n.observation /\ n.observation # 0
<1> DEFINE n == Reconciled(r, v, b)
<1> SUFFICES /\ n \in Registrations /\ Sound(n) /\ Follows(r, n) /\ n.phase = "Submitted"
             /\ n.abandonment = 0 /\ n.finality = r.finality /\ n.reconciliation = v
             /\ n.included = b /\ v <= n.observation /\ n.observation # 0
  BY Zenon
<1>0. v \in Nat /\ 0 \in Nat /\ v # 0
  OBVIOUS
<1>1. r \in Registrations /\ Sent(r)
  BY Zenon DEF Sound
<1>2. r.observation \in Nat /\ r.finality \in Nat /\ r.reconciliation \in Nat
  BY <1>1, RegistrationFields, Zenon
<1>3. Biggest(r.observation, v) \in Nat
  BY <1>0, <1>2, BiggestFacts, Zenon
<1>4. n \in Registrations
  BY <1>0, <1>1, <1>3, Zenon DEF Registrations, Reconciled
<1>5. /\ n.draft = r.draft /\ n.phase = r.phase /\ n.tx = r.tx
      /\ n.observation = Biggest(r.observation, v) /\ n.finality = r.finality
      /\ n.reconciliation = v /\ n.dust = r.dust
      /\ n.dustObservation = r.dustObservation /\ n.dustReady = r.dustReady
      /\ n.included = b /\ n.abandonment = 0
  BY <1>1, Zenon DEF Registrations, Reconciled
<1> HIDE DEF n
<1>6. r.observation = Biggest(r.finality, r.reconciliation)
  BY <1>1, Zenon DEF Sent
<1>7. n.observation = Biggest(r.finality, v)
  BY <1>0, <1>2, <1>5, <1>6, SMT DEF Biggest
<1>8. v <= n.observation /\ r.observation <= n.observation /\ n.observation # 0
  BY <1>0, <1>2, <1>5, SMT DEF Biggest
<1>9. Sent(n)
  BY <1>0, <1>1, <1>5, <1>7, Zenon DEF Sent
<1>10. Sound(n)
  BY <1>4, <1>5, <1>9, Zenon DEF Sound
<1>11. Follows(r, n)
  BY <1>5, <1>8, Zenon DEF Follows
<1> QED
  BY <1>4, <1>5, <1>8, <1>10, <1>11, Zenon

\* The verdict on a transaction decides between ready, reconciling, confirming
\* and idle, whatever the state was.
LEMMA ReconciledMoves ==
  ASSUME NEW q, Observing(q), NEW e, IsEvent(e), e.kind = "RegistrationReconciled",
         Observes(q, e), e.revision > q.registration.reconciliation,
         e.revision > q.registration.abandonment,
         e.verdict # "Dropped" \/ e.revision >= q.registration.finality
  PROVE  Moved(q, RegistrationReconciled(q, e), e.revision)
<1> DEFINE v == e.revision
           b == (e.verdict = "Included")
           r == Reconciled(q.registration, v, b)
           m == [q EXCEPT !.registration = r, !.parked = q.parked]
           n == RegistrationReconciled(q, e)
           s == IF e.verdict = "Included"
                  THEN IF RegistrationReady(m) THEN "Ready" ELSE "Reconciling"
                ELSE IF e.verdict = "Pending"
                  THEN IF q.registration.finality >= v THEN "Reconciling" ELSE "Confirming"
                ELSE LatestEligibility(q)
<1> SUFFICES Moved(q, n, v)
  OBVIOUS
<1>1. /\ v \in Nat \ {0} /\ v \in Nat /\ b \in BOOLEAN
      /\ e.verdict \in {"Included", "Pending", "Dropped"}
  BY Zenon DEF IsEvent, Unrevised
<1> HIDE DEF b
<1>2. /\ q \in Projections /\ Resumable(q) /\ Identified(q) /\ Live(q)
      /\ Sound(q.registration)
  BY Zenon DEF Observing
<1>3. q.registration.phase = "Submitted"
  BY <1>2, Zenon DEF Observes, HasTransaction, Sound, Fresh
<1>4. /\ r \in Registrations /\ Sound(r) /\ Follows(q.registration, r)
      /\ r.phase = "Submitted" /\ r.abandonment = 0 /\ r.finality = q.registration.finality
      /\ r.reconciliation = v /\ r.included = b /\ v <= r.observation /\ r.observation # 0
  BY <1>1, <1>2, <1>3, ReconciledSound, SMT
<1>5. [q EXCEPT !.registration.abandonment = 0, !.registration.reconciliation = v,
                !.registration.observation = Biggest(@, v), !.registration.included = b] = m
  BY <1>1, <1>2, Zenon DEF Projections, Registrations, Reconciled
<1>6. q.parked \in Registrations
  BY <1>2, ProjectionFields, Zenon
<1>7. Dressed(q, m, r, q.parked)
  BY <1>2, <1>4, <1>6, PlaceDressed, Zenon
<1>8. RegistrationReady(m) <=> Current(r)
  <2>1. m.registration = r
    BY <1>7, Zenon DEF Dressed
  <2> HIDE DEF m, r
  <2> QED
    BY <2>1, Zenon DEF RegistrationReady, Current
<1> HIDE DEF m, r
<1>9. n = SetEffectiveState(m, s)
  BY <1>1, <1>5, SMT DEF RegistrationReconciled, b
<1>10. s \in Working /\ s \notin Unsent
  BY EligibilityIdle, Zenon DEF Working, IdleStates, Unsent
<1>11. Supports(s, r)
  <2>1. CASE e.verdict = "Included"
    BY <1>4, <1>8, <2>1, Zenon DEF Supports, IdleStates, b
  <2>2. CASE e.verdict = "Pending"
    <3>1. ~r.included /\ ~Current(r)
      BY <1>4, <2>2, Zenon DEF Current, b
    <3>2. q.registration.finality \in Nat
      BY <1>2, RegistrationFields, Zenon DEF Sound
    <3>3. ~(q.registration.finality >= v) => q.registration.finality < v
      BY <1>1, <3>2, SMT
    <3> QED
      BY <1>4, <2>2, <3>1, <3>3, Zenon DEF Supports, IdleStates
  <2>3. CASE e.verdict = "Dropped"
    <3>1. ~r.included /\ s = LatestEligibility(q)
      BY <1>4, <2>3, Zenon DEF b
    <3>2. s \in IdleStates
      BY <3>1, EligibilityIdle, Zenon
    <3> HIDE DEF s
    <3> QED
      BY <1>4, <3>1, <3>2, Zenon DEF Supports, IdleStates
  <2> QED
    BY <1>1, <2>1, <2>2, <2>3, Zenon
<1> HIDE DEF n, s
<1>12. Reaches(q, n, s, r, q.parked)
  BY <1>2, <1>7, <1>9, <1>10, EffectiveReached, Zenon
<1> QED
  BY <1>4, <1>10, <1>11, <1>12, Zenon DEF Moved

\* The nested updates of DustRefreshed, as an update of the registration.
Refreshed(r, k, a, b) == [r EXCEPT !.dust = k, !.dustObservation = a, !.dustReady = b]

\* A registration whose DUST was read at revision v, after observation a.
LEMMA RefreshedSound ==
  ASSUME NEW r, Sound(r), r.phase = "Submitted", NEW v \in Nat \ {0}, NEW a \in Nat,
         NEW b \in BOOLEAN
  PROVE  LET n == Refreshed(r, v, a, b)
         IN  /\ n \in Registrations /\ Sound(n) /\ Follows(r, n) /\ n.phase = "Submitted"
             /\ n.abandonment = r.abandonment /\ n.finality = r.finality
             /\ n.reconciliation = r.reconciliation /\ n.included = r.included
             /\ n.observation = r.observation
<1> DEFINE n == Refreshed(r, v, a, b)
<1> SUFFICES /\ n \in Registrations /\ Sound(n) /\ Follows(r, n) /\ n.phase = "Submitted"
             /\ n.abandonment = r.abandonment /\ n.finality = r.finality
             /\ n.reconciliation = r.reconciliation /\ n.included = r.included
             /\ n.observation = r.observation
  BY Zenon
<1>0. v \in Nat /\ v # 0
  OBVIOUS
<1>1. r \in Registrations /\ Sent(r)
  BY Zenon DEF Sound
<1>2. n \in Registrations
  BY <1>0, <1>1, Zenon DEF Registrations, Refreshed
<1>3. /\ n.draft = r.draft /\ n.phase = r.phase /\ n.tx = r.tx
      /\ n.observation = r.observation /\ n.finality = r.finality
      /\ n.reconciliation = r.reconciliation /\ n.dust = v
      /\ n.dustObservation = a /\ n.dustReady = b
      /\ n.included = r.included /\ n.abandonment = r.abandonment
  BY <1>1, Zenon DEF Registrations, Refreshed
<1> HIDE DEF n
<1>4. Sent(n)
  BY <1>0, <1>1, <1>3, Zenon DEF Sent
<1>5. Sound(n)
  BY <1>2, <1>3, <1>4, Zenon DEF Sound
<1>6. r.observation \in Nat
  BY <1>1, RegistrationFields, Zenon
<1>7. Follows(r, n)
  BY <1>3, <1>6, NatOrder, Zenon DEF Follows
<1> QED
  BY <1>2, <1>3, <1>5, <1>7, Zenon

\* The DUST of the wallet was read: a current registration is ready, and one
\* that was ready is not ready any more unless it still is current.
LEMMA RefreshedMoves ==
  ASSUME NEW q, WellFormed(q), Live(q), NEW e, IsEvent(e), e.kind = "DustRefreshed",
         Observes(q, e), e.revision > q.registration.dust
  PROVE  Moved(q, DustRefreshed(q, e), 0)
<1> DEFINE was == EffectiveState(q)
           r == Refreshed(q.registration, e.revision, e.after, e.ready)
           m == [q EXCEPT !.registration = r, !.parked = q.parked]
           n == DustRefreshed(q, e)
<1> SUFFICES Moved(q, n, 0)
  OBVIOUS
<1>1. /\ e.revision \in Nat \ {0} /\ e.revision \in Nat /\ e.after \in Nat
      /\ e.ready \in BOOLEAN
  BY Zenon DEF IsEvent, Unrevised
<1>2. /\ q \in Projections /\ Resumable(q) /\ Identified(q)
      /\ Sound(q.registration) /\ q.parked \in Registrations
      /\ Supports(was, q.registration)
  BY Parts, Zenon DEF WellFormed
<1>3. q.registration.phase = "Submitted" /\ was \in ObservableStates
      /\ q.registration.draft # None
  BY <1>2, Zenon DEF Observes, HasTransaction, Sound, Fresh, Sent
<1>4. /\ r \in Registrations /\ Sound(r) /\ Follows(q.registration, r)
      /\ r.phase = "Submitted" /\ r.abandonment = q.registration.abandonment
      /\ r.finality = q.registration.finality
      /\ r.reconciliation = q.registration.reconciliation
      /\ r.included = q.registration.included
      /\ r.observation = q.registration.observation
  BY <1>1, <1>2, <1>3, RefreshedSound, SMT
<1>5. [q EXCEPT !.registration.dust = e.revision, !.registration.dustObservation = e.after,
                !.registration.dustReady = e.ready] = m
  BY <1>2, Zenon DEF Projections, Registrations, Refreshed
<1>6. 0 <= r.observation
  BY <1>4, RegistrationFields, NatOrder, Zenon
<1>7. Dressed(q, m, r, q.parked)
  BY <1>2, <1>4, PlaceDressed, Zenon
<1>8. RegistrationReady(m) <=> Current(r)
  <2>1. m.registration = r
    BY <1>7, Zenon DEF Dressed
  <2> HIDE DEF m, r
  <2> QED
    BY <2>1, Zenon DEF RegistrationReady, Current
<1> HIDE DEF m, r
<1>9. n = IF RegistrationReady(m) THEN SetEffectiveState(m, "Ready")
          ELSE IF was = "Ready" THEN SetEffectiveState(m, "Reconciling") ELSE m
  BY <1>5, SMT DEF DustRefreshed
<1> HIDE DEF n
<1>10. CASE Current(r)
  <2>1. n = SetEffectiveState(m, "Ready") /\ "Ready" \in Working
    BY <1>8, <1>9, <1>10, Zenon DEF Working
  <2>2. Reaches(q, n, "Ready", r, q.parked)
    BY <1>2, <1>7, <2>1, EffectiveReached, Zenon
  <2>3. q.registration.included
    BY <1>4, <1>10, Zenon DEF Current
  <2>4. was \in {"Reconciling", "Ready"}
    BY <1>2, <1>3, <2>3, Zenon DEF ObservableStates, IdleStates, Supports
  <2>5. Supports("Ready", r)
    BY <1>2, <1>3, <1>4, <1>10, <2>4, Zenon DEF Supports, IdleStates
  <2> QED
    BY <1>4, <1>6, <2>2, <2>5, Zenon DEF Moved, Unsent
<1>11. CASE ~Current(r) /\ was = "Ready"
  <2>1. n = SetEffectiveState(m, "Reconciling") /\ "Reconciling" \in Working
    BY <1>8, <1>9, <1>11, Zenon DEF Working
  <2>2. Reaches(q, n, "Reconciling", r, q.parked)
    BY <1>2, <1>7, <2>1, EffectiveReached, Zenon
  <2>3. q.registration.included /\ q.registration.abandonment = 0
    BY <1>2, <1>3, <1>11, Zenon DEF Supports, Current
  <2>4. Supports("Reconciling", r)
    BY <1>4, <1>11, <2>3, Zenon DEF Supports, IdleStates
  <2> QED
    BY <1>4, <1>6, <2>2, <2>4, Zenon DEF Moved, Unsent
<1>12. CASE ~Current(r) /\ was # "Ready"
  <2>1. n = m
    BY <1>8, <1>9, <1>12, Zenon
  <2>2. Reaches(q, n, was, r, q.parked)
    BY <1>2, <1>7, <2>1, StateReached, Zenon
  <2>3. Supports(was, r) /\ was \notin Unsent
    BY <1>2, <1>3, <1>4, <1>12, Zenon DEF Supports, ObservableStates, IdleStates, Unsent
  <2> QED
    BY <1>4, <1>6, <2>2, <2>3, Zenon DEF Moved
<1> QED
  BY <1>10, <1>11, <1>12, Zenon

\* An observation that is taken in keeps what the projection promises.
LEMMA MovedAdvances ==
  ASSUME NEW q, WellFormed(q), Live(q), NEW e, NEW n, NEW v, Moved(q, n, v)
  PROVE  Advances(q, n, e)
<1>1. PICK s, r : /\ Reaches(q, n, s, r, q.parked) /\ Sound(r) /\ Supports(s, r)
                  /\ Follows(q.registration, r) /\ s \notin Unsent
  BY Zenon DEF Moved
<1> QED
  BY <1>1, Followed, Zenon

\* The parked registration becomes the active one.
LEMMA Swapped ==
  ASSUME NEW q, WellFormed(q), Live(q)
  PROVE  LET m == SwapParked(q)
         IN  /\ Observing(m) /\ EffectiveState(m) \in IdleStates /\ Live(m)
             /\ m.registration = q.parked /\ m.parked = q.registration
             /\ m.identity = q.identity
<1> DEFINE m == SwapParked(q)
           k == [q EXCEPT !.registration = q.parked, !.parked = q.registration]
           s == LatestEligibility(q)
<1> SUFFICES /\ Observing(m) /\ EffectiveState(m) \in IdleStates /\ Live(m)
             /\ m.registration = q.parked /\ m.parked = q.registration
             /\ m.identity = q.identity
  BY Zenon
<1>1. m = SetEffectiveState(k, s)
  BY Zenon DEF SwapParked
<1>2. Dressed(q, k, q.parked, q.registration)
  BY Parts, PlaceDressed, Zenon
<1>3. s \in IdleStates /\ s \in Working
  BY EligibilityIdle, Zenon
<1> HIDE DEF m, k, s
<1>4. Reaches(q, m, s, q.parked, q.registration)
  BY <1>1, <1>2, <1>3, Parts, EffectiveReached, Zenon
<1>5. Identified(m) /\ Live(m)
  BY <1>4, Zenon DEF Reaches, Identified, Live
<1> QED
  BY <1>3, <1>4, <1>5, Parts, Zenon DEF Reaches, Observing

\* After the swap, what was active is parked and nothing is lost.
LEMMA SwapAdvances ==
  ASSUME NEW q, WellFormed(q), Live(q), NEW e, NEW m, NEW n, NEW v \in Nat,
         m.registration = q.parked, m.parked = q.registration, m.identity = q.identity,
         Live(m), Moved(m, n, v), v > q.registration.observation
  PROVE  Advances(q, n, e)
<1>1. PICK s, r : /\ Reaches(m, n, s, r, m.parked) /\ Sound(r) /\ Supports(s, r)
                  /\ Follows(m.registration, r) /\ s \notin Unsent
                  /\ v <= r.observation
  BY Zenon DEF Moved
<1>2. Waits(s, m.parked) /\ Sound(m.parked)
  BY <1>1, Parts, Zenon DEF Waits, Unsent
<1>3. WellFormed(n)
  BY <1>1, <1>2, ReachedWellFormed, Zenon
<1>4. n.registration = r /\ n.parked = q.registration
  BY <1>1, Zenon DEF Reaches
<1>5. Kept(q, n)
  <2>1. SUFFICES ASSUME NEW d, d \in Committed(q)
                 PROVE  d \in Committed(n)
    BY Zenon DEF Kept
  <2>2. r.draft = q.parked.draft /\ (q.parked.phase # "Awaiting" => r.phase # "Awaiting")
    BY <1>1, Zenon DEF Follows
  <2> QED
    BY <1>4, <2>1, <2>2, CommittedIn, ZenonT(60)
<1>6. ASSUME NEW d \in Drafts, NEW k \in Nat, Behind(q, d, k)
      PROVE  Behind(n, d, k)
  <2>1. /\ q.registration.observation \in Nat /\ q.parked.observation \in Nat
        /\ r.observation \in Nat
    BY <1>1, Parts, RegistrationFields, Zenon DEF Sound
  <2>2. k <= q.registration.observation => k <= r.observation
    BY <1>1, <2>1, SMT
  <2>3. k <= q.parked.observation => k <= r.observation
    <3>1. q.parked.observation <= r.observation
      BY <1>1, Zenon DEF Follows
    <3> QED
      BY <2>1, <3>1, SMT
  <2>4. r.draft = q.parked.draft
    BY <1>1, Zenon DEF Follows
  <2> QED
    BY <1>4, <1>6, <2>2, <2>3, <2>4, Zenon DEF Behind
<1> QED
  BY <1>3, <1>5, <1>6, Zenon DEF Advances

\* The active registration of an event, after the swap if there is one.
Facing(q, e) == IF SupersedesParked(q, e) THEN SwapParked(q) ELSE q

\* Finality of the active transaction, or of the parked one.
LEMMA FinalityAdvances ==
  ASSUME NEW q, WellFormed(q), Live(q), NEW e, IsEvent(e), e.kind = "FinalityObserved"
  PROVE  Advances(q, FinalityObserved(Facing(q, e), e), e)
<1>1. e.revision \in Nat
  BY Zenon DEF IsEvent, Unrevised
<1>2. CASE SupersedesParked(q, e)
  <2> DEFINE m == SwapParked(q)
             n == FinalityObserved(m, e)
  <2>1. /\ Observing(m) /\ EffectiveState(m) \in IdleStates /\ Live(m)
        /\ m.registration = q.parked /\ m.parked = q.registration
        /\ m.identity = q.identity
    BY Swapped, Zenon
  <2> HIDE DEF m
  <2>2. /\ q.parked.tx # None /\ e.tx = q.parked.tx
        /\ e.revision > q.registration.observation /\ e.revision > q.parked.finality
        /\ e.revision > q.parked.reconciliation /\ e.revision > q.parked.abandonment
    BY <1>2, Zenon DEF SupersedesParked
  <2>3. Observes(m, e)
    BY <2>1, <2>2, Zenon DEF Observes, HasTransaction, ObservableStates
  <2>4. Moved(m, n, e.revision)
    BY <2>1, <2>2, <2>3, FinalityMoves, Zenon
  <2>5. Advances(q, n, e)
    BY <1>1, <2>1, <2>2, <2>4, SwapAdvances, Zenon
  <2> QED
    BY <1>2, <2>5, Zenon DEF Facing, m
<1>3. CASE ~SupersedesParked(q, e)
  <2> DEFINE A == /\ Observes(q, e) /\ e.revision > q.registration.finality
                  /\ e.revision > q.registration.abandonment
                  /\ \/ EffectiveState(q) \notin IdleStates
                     \/ e.revision > q.registration.reconciliation
             n == FinalityObserved(q, e)
  <2>1. Facing(q, e) = q
    BY <1>3, Zenon DEF Facing
  <2>2. CASE A
    <3>1. Observing(q)
      BY Parts, Zenon DEF Observing, WellFormed
    <3>2. Moved(q, n, e.revision)
      BY <2>2, <3>1, FinalityMoves, Zenon
    <3> QED
      BY <2>1, <3>2, MovedAdvances, Zenon
  <2>3. CASE ~A
    <3>1. n = q
      BY <2>3, Zenon DEF FinalityObserved
    <3> QED
      BY <2>1, <3>1, Unmoved, Zenon
  <2> QED
    BY <2>2, <2>3, Zenon
<1> QED
  BY <1>2, <1>3, Zenon

\* A reconciliation of the active transaction, or of the parked one.
LEMMA ReconciledAdvances ==
  ASSUME NEW q, WellFormed(q), Live(q), NEW e, IsEvent(e), e.kind = "RegistrationReconciled"
  PROVE  Advances(q, RegistrationReconciled(Facing(q, e), e), e)
<1>1. e.revision \in Nat
  BY Zenon DEF IsEvent, Unrevised
<1>2. CASE SupersedesParked(q, e)
  <2> DEFINE m == SwapParked(q)
             n == RegistrationReconciled(m, e)
  <2>1. /\ Observing(m) /\ EffectiveState(m) \in IdleStates /\ Live(m)
        /\ m.registration = q.parked /\ m.parked = q.registration
        /\ m.identity = q.identity
    BY Swapped, Zenon
  <2> HIDE DEF m
  <2>2. /\ q.parked.tx # None /\ e.tx = q.parked.tx
        /\ e.revision > q.registration.observation
        /\ e.revision > q.parked.reconciliation /\ e.revision > q.parked.abandonment
        /\ e.verdict # "Dropped" \/ e.revision >= q.parked.finality
    BY <1>2, Zenon DEF SupersedesParked
  <2>3. Observes(m, e)
    BY <2>1, <2>2, Zenon DEF Observes, HasTransaction, ObservableStates
  <2>4. Moved(m, n, e.revision)
    BY <2>1, <2>2, <2>3, ReconciledMoves, Zenon
  <2>5. Advances(q, n, e)
    BY <1>1, <2>1, <2>2, <2>4, SwapAdvances, Zenon
  <2> QED
    BY <1>2, <2>5, Zenon DEF Facing, m
<1>3. CASE ~SupersedesParked(q, e)
  <2> DEFINE A == /\ Observes(q, e) /\ e.revision > q.registration.reconciliation
                  /\ e.revision > q.registration.abandonment
                  /\ e.verdict # "Dropped" \/ e.revision >= q.registration.finality
             n == RegistrationReconciled(q, e)
  <2>1. Facing(q, e) = q
    BY <1>3, Zenon DEF Facing
  <2>2. CASE A
    <3>1. Observing(q)
      BY Parts, Zenon DEF Observing, WellFormed
    <3>2. Moved(q, n, e.revision)
      BY <2>2, <3>1, ReconciledMoves, Zenon
    <3> QED
      BY <2>1, <3>2, MovedAdvances, Zenon
  <2>3. CASE ~A
    <3>1. n = q
      BY <2>3, Zenon DEF RegistrationReconciled
    <3> QED
      BY <2>1, <3>1, Unmoved, Zenon
  <2> QED
    BY <2>2, <2>3, Zenon
<1> QED
  BY <1>2, <1>3, Zenon

\* A refresh of DUST, of a registration that is not parked.
LEMMA RefreshedAdvances ==
  ASSUME NEW q, WellFormed(q), Live(q), NEW e, IsEvent(e), e.kind = "DustRefreshed"
  PROVE  Advances(q, DustRefreshed(q, e), e)
<1> DEFINE n == DustRefreshed(q, e)
           A == Observes(q, e) /\ e.revision > q.registration.dust
<1>1. CASE A
  <2>1. Moved(q, n, 0)
    BY <1>1, RefreshedMoves, Zenon
  <2> QED
    BY <2>1, MovedAdvances, Zenon
<1>2. CASE ~A
  <2>1. n = q
    BY <1>2, Zenon DEF DustRefreshed
  <2> QED
    BY <2>1, Unmoved, Zenon
<1> QED
  BY <1>1, <1>2, Zenon

-----------------------------------------------------------------------------
(* Eligibility and recovery.                                               *)

\* The work continues with the same registrations.
Resettled(q, n) ==
  \E s, r : /\ Reaches(q, n, s, r, q.parked) /\ Sound(r) /\ Supports(s, r)
            /\ Follows(q.registration, r)
            /\ s \in Unsent => EffectiveState(q) \in Unsent

\* Recovery keeps what the projection promises.
LEMMA ResettledAdvances ==
  ASSUME NEW q, WellFormed(q), Live(q), NEW e, NEW n, Resettled(q, n)
  PROVE  Advances(q, n, e)
<1>1. PICK s, r : /\ Reaches(q, n, s, r, q.parked) /\ Sound(r) /\ Supports(s, r)
                  /\ Follows(q.registration, r)
                  /\ s \in Unsent => EffectiveState(q) \in Unsent
  BY Zenon DEF Resettled
<1> QED
  BY <1>1, Followed, Zenon

\* Recovery leaves a projection that is well formed and at work.
LEMMA ResettledWellFormed ==
  ASSUME NEW q, WellFormed(q), Live(q), NEW n, Resettled(q, n)
  PROVE  WellFormed(n) /\ Live(n)
<1>1. PICK s, r : /\ Reaches(q, n, s, r, q.parked) /\ Sound(r) /\ Supports(s, r)
                  /\ s \in Unsent => EffectiveState(q) \in Unsent
  BY Zenon DEF Resettled
<1>2. Waits(s, q.parked)
  BY <1>1, Zenon DEF WellFormed, Waits, Unsent
<1>3. WellFormed(n)
  BY <1>1, <1>2, Parts, ReachedWellFormed, Zenon
<1>4. Live(n)
  BY <1>1, Zenon DEF Live, Reaches
<1> QED
  BY <1>3, <1>4, Zenon

\* Two recoveries in a row are one.
LEMMA ResettledTwice ==
  ASSUME NEW q, WellFormed(q), NEW x, Resettled(q, x), NEW n, Resettled(x, n)
  PROVE  Resettled(q, n)
<1>1. PICK s, r : /\ Reaches(q, x, s, r, q.parked) /\ Sound(r)
                  /\ Follows(q.registration, r)
                  /\ s \in Unsent => EffectiveState(q) \in Unsent
  BY Zenon DEF Resettled
<1>2. PICK t, k : /\ Reaches(x, n, t, k, x.parked) /\ Sound(k) /\ Supports(t, k)
                  /\ Follows(x.registration, k)
                  /\ t \in Unsent => EffectiveState(x) \in Unsent
  BY Zenon DEF Resettled
<1>3. x.parked = q.parked /\ x.registration = r /\ x.identity = q.identity
      /\ EffectiveState(x) = s
  BY <1>1, Zenon DEF Reaches
<1>4. Reaches(q, n, t, k, q.parked)
  BY <1>2, <1>3, Zenon DEF Reaches
<1>5. /\ q.registration.observation \in Nat /\ r.observation \in Nat
      /\ k.observation \in Nat
  BY <1>1, <1>2, Parts, RegistrationFields, Zenon DEF Sound
<1>6. q.registration.observation <= r.observation /\ r.observation <= k.observation
  BY <1>1, <1>2, <1>3, Zenon DEF Follows
<1>7. q.registration.observation <= k.observation
  BY <1>5, <1>6, SMT
<1>8. Follows(q.registration, k)
  BY <1>1, <1>2, <1>3, <1>7, Zenon DEF Follows
<1> QED
  BY <1>1, <1>2, <1>3, <1>4, <1>8, Zenon DEF Resettled

\* A registration that is left alone follows itself.
LEMMA FollowsItself ==
  ASSUME NEW r, Sound(r)
  PROVE  Follows(r, r)
<1>1. r.observation \in Nat
  BY RegistrationFields, Zenon DEF Sound
<1> QED
  BY <1>1, NatOrder, Zenon DEF Follows

\* A change of counters alone.
LEMMA Redressed ==
  ASSUME NEW q, WellFormed(q), Live(q), NEW m, Dressed(q, m, q.registration, q.parked)
  PROVE  Resettled(q, m)
<1>1. Reaches(q, m, EffectiveState(q), q.registration, q.parked)
  BY Parts, StateReached, Zenon
<1>2. Follows(q.registration, q.registration)
  BY Parts, FollowsItself, Zenon
<1> QED
  BY <1>1, <1>2, Parts, Zenon DEF Resettled, WellFormed

\* A registration without a transaction, in an idle state, is none.
LEMMA IdleRegistration ==
  ASSUME NEW r, Sound(r), NEW s \in IdleStates, Supports(s, r), r.tx = None
  PROVE  Follows(r, NoRegistration) /\ Supports(s, NoRegistration)
<1>1. r.draft = None
  BY Zenon DEF Supports, Sound, Sent
<1>2. r.phase = "Awaiting" /\ r.observation = 0
  BY <1>1, Zenon DEF Sound, Fresh
<1>3. NoRegistration.draft = None /\ NoRegistration.observation = 0
  BY SMT DEF NoRegistration
<1>4. 0 <= 0
  BY SMT
<1>5. Follows(r, NoRegistration)
  BY <1>1, <1>2, <1>3, <1>4, Zenon DEF Follows
<1>6. Supports(s, NoRegistration)
  BY <1>3, Zenon DEF Supports, IdleStates
<1> QED
  BY <1>5, <1>6, Zenon

\* The state resume_recoverable_state chooses, and the registration it keeps.
ResumedState(q) ==
  LET fallback == LatestEligibility(q)
      r == q.registration
  IN  CASE q.resume \in {"Ready", "NotEligible"} -> q.resume
        [] q.resume \in {"Submitting", "AwaitingAuthorization"}
           /\ HasRegistration(q) /\ r.tx = None -> q.resume
        [] q.resume \in {"Confirming", "Reconciling"} /\ r.tx # None ->
             IF r.included \/ (r.finality > 0 /\ r.finality >= r.reconciliation)
               THEN "Reconciling" ELSE "Confirming"
        [] OTHER -> fallback

\* It is the interrupted state, or an idle state after an idle one.
LEMMA ResumedSupported ==
  ASSUME NEW q, q.resume \in Working, Sound(q.registration),
         Supports(q.resume, q.registration)
  PROVE  /\ ResumedState(q) = q.resume \/ {ResumedState(q), q.resume} \subseteq IdleStates
         /\ Supports(ResumedState(q), q.registration)
<1> DEFINE s == ResumedState(q)
           r == q.registration
<1>0. /\ r.finality \in Nat /\ r.reconciliation \in Nat /\ r.observation \in Nat
  BY RegistrationFields, Zenon DEF Sound
<1>1. s = q.resume \/ {s, q.resume} \subseteq IdleStates
  <2>1. CASE q.resume \in {"Ready", "NotEligible"}
    BY <2>1, Zenon DEF ResumedState
  <2>2. CASE q.resume \in {"Submitting", "AwaitingAuthorization"}
    <3>1. HasRegistration(q) /\ r.tx = None
      BY <2>2, Zenon DEF HasRegistration, Supports, Sound, Fresh
    <3> QED
      BY <2>2, <3>1, Zenon DEF ResumedState
  <2>3. CASE q.resume = "Confirming"
    <3>1. r.tx # None /\ ~r.included /\ r.observation = Biggest(r.finality, r.reconciliation)
      BY <2>3, Zenon DEF Supports, Sound, Sent
    <3>2. r.observation = 0 \/ r.finality < r.reconciliation
      BY <2>3, Zenon DEF Supports
    <3>3. ~(r.finality > 0 /\ r.finality >= r.reconciliation)
      BY <1>0, <3>1, <3>2, SMT DEF Biggest
    <3> QED
      BY <2>3, <3>1, <3>3, Zenon DEF ResumedState
  <2>4. CASE q.resume = "Reconciling"
    <3>1. r.tx # None /\ r.observation = Biggest(r.finality, r.reconciliation)
      BY <2>4, Zenon DEF Supports, Sound, Sent
    <3>2. r.included \/ (r.observation # 0 /\ r.finality >= r.reconciliation)
      BY <2>4, Zenon DEF Supports
    <3>3. r.included \/ (r.finality > 0 /\ r.finality >= r.reconciliation)
      BY <1>0, <3>1, <3>2, SMT DEF Biggest
    <3> QED
      BY <2>4, <3>1, <3>3, Zenon DEF ResumedState
  <2>5. CASE q.resume = "ActionRequired"
    <3>1. s = LatestEligibility(q)
      BY <2>5, Zenon DEF ResumedState
    <3> QED
      BY <2>5, <3>1, EligibilityIdle, Zenon DEF IdleStates
  <2> QED
    BY <2>1, <2>2, <2>3, <2>4, <2>5, Zenon DEF Working
<1> HIDE DEF s
<1>2. Supports(s, r)
  <2>1. CASE s = q.resume
    BY <2>1, Zenon
  <2>2. CASE s \in IdleStates /\ q.resume \in IdleStates
    BY <2>2, Zenon DEF Supports, IdleStates
  <2> QED
    BY <1>1, <2>1, <2>2, Zenon
<1> QED
  BY <1>1, <1>2, Zenon DEF s

\* resume_recoverable_state goes back to work the registration supports.
LEMMA Resumes ==
  ASSUME NEW q, WellFormed(q), Live(q), Recoverable(q.state),
         NEW m, Dressed(q, m, q.registration, q.parked)
  PROVE  Resettled(q, ResumeRecoverable(m))
<1> DEFINE s == ResumedState(m)
           r == IF s \in IdleStates /\ m.registration.tx = None
                  THEN NoRegistration ELSE m.registration
           n == ResumeRecoverable(m)
<1> SUFFICES Resettled(q, n)
  OBVIOUS
<1>1. /\ m \in Projections /\ m.resume = q.resume /\ m.registration = q.registration
      /\ m.parked = q.parked /\ m.identity = q.identity
      /\ m.checkpoint.identity = q.identity
  BY Parts, Zenon DEF Dressed, Identified, Live
<1>2. q.resume \in Working /\ q.resume # None /\ EffectiveState(q) = q.resume
  BY Parts, WorkingStates, Zenon DEF Resumable, EffectiveState
<1>3. Sound(q.registration) /\ Supports(q.resume, q.registration)
  BY <1>2, Zenon DEF WellFormed
<1>4. /\ s = q.resume \/ {s, q.resume} \subseteq IdleStates
      /\ Supports(s, q.registration)
  BY <1>1, <1>2, <1>3, ResumedSupported, Zenon
<1>5. n = [m EXCEPT !.state = s, !.resume = None, !.registration = r]
  BY <1>1, <1>2, SMT DEF ResumeRecoverable, ResumedState, IdleStates
<1> HIDE DEF s
<1>6. s \in Working
  BY <1>2, <1>4, Zenon DEF IdleStates, Working
<1>7. r \in Registrations /\ Sound(r) /\ Supports(s, r) /\ Follows(q.registration, r)
  <2>1. CASE s \in IdleStates /\ m.registration.tx = None
    BY <1>1, <1>3, <1>4, <2>1, IdleRegistration, NoRegistrationSound, Zenon
  <2>2. CASE ~(s \in IdleStates /\ m.registration.tx = None)
    BY <1>1, <1>3, <1>4, <2>2, Parts, FollowsItself, Zenon
  <2> QED
    BY <2>1, <2>2, Zenon
<1> HIDE DEF r, n
<1>8. /\ n \in Projections /\ n.state = s /\ n.resume = None
      /\ n.registration = r /\ n.parked = m.parked
      /\ n.identity = m.identity /\ n.checkpoint = m.checkpoint
  <2>1. s \in States /\ r \in Registrations /\ m \in Projections
    BY <1>1, <1>6, <1>7, WorkingStates, Zenon
  <2>2. n \in Projections
    BY <1>5, <2>1, Zenon DEF Projections
  <2>3. /\ n.state = s /\ n.resume = None /\ n.registration = r /\ n.parked = m.parked
        /\ n.identity = m.identity /\ n.checkpoint = m.checkpoint
    BY <1>5, <2>1, Zenon DEF Projections
  <2> QED
    BY <2>2, <2>3, Zenon
<1>9. Reaches(q, n, s, r, q.parked)
  BY <1>1, <1>6, <1>8, WorkingStates, Zenon DEF Reaches, Resumable, Ended, EffectiveState
<1>10. s \in Unsent => EffectiveState(q) \in Unsent
  BY <1>2, <1>4, Zenon DEF IdleStates, Unsent
<1> QED
  BY <1>7, <1>9, <1>10, Zenon DEF Resettled

\* A change of the two recovery counters.
LEMMA CountersDressed ==
  ASSUME NEW q \in Projections, NEW v \in Nat, NEW w \in Nat
  PROVE  /\ Dressed(q, [q EXCEPT !.recovery = v], q.registration, q.parked)
         /\ Dressed(q, [q EXCEPT !.pendingRetry = w], q.registration, q.parked)
         /\ Dressed(q, [q EXCEPT !.recovery = v, !.pendingRetry = w], q.registration, q.parked)
<1>1. /\ [q EXCEPT !.recovery = v] \in Projections
      /\ [q EXCEPT !.pendingRetry = w] \in Projections
      /\ [q EXCEPT !.recovery = v, !.pendingRetry = w] \in Projections
  BY Zenon DEF Projections
<1>2. Dressed(q, [q EXCEPT !.recovery = v], q.registration, q.parked)
  BY <1>1, Zenon DEF Projections, Dressed
<1>3. Dressed(q, [q EXCEPT !.pendingRetry = w], q.registration, q.parked)
  BY <1>1, Zenon DEF Projections, Dressed
<1>4. Dressed(q, [q EXCEPT !.recovery = v, !.pendingRetry = w], q.registration, q.parked)
  BY <1>1, Zenon DEF Projections, Dressed
<1> QED
  BY <1>2, <1>3, <1>4, Zenon

\* A retry that waited for its state continues the work.
LEMMA Settles ==
  ASSUME NEW q, WellFormed(q), Live(q)
  PROVE  Resettled(q, SettlePendingRetry(q))
<1> DEFINE n == SettlePendingRetry(q)
           c == [q EXCEPT !.pendingRetry = 0]
           m == [q EXCEPT !.recovery = q.pendingRetry, !.pendingRetry = 0]
<1> SUFFICES Resettled(q, n)
  OBVIOUS
<1>1. q \in Projections /\ q.pendingRetry \in Nat /\ 0 \in Nat
  BY Parts, ProjectionFields, Zenon
<1>2. /\ Dressed(q, c, q.registration, q.parked)
      /\ Dressed(q, m, q.registration, q.parked)
  BY <1>1, CountersDressed, Zenon
<1>3. n = q \/ n = c \/ (Recoverable(q.state) /\ n = ResumeRecoverable(m))
  BY SMT DEF SettlePendingRetry
<1>4. Dressed(q, q, q.registration, q.parked)
  BY <1>1, Zenon DEF Dressed
<1> HIDE DEF n, m, c
<1>5. CASE n = q \/ n = c
  BY <1>2, <1>4, <1>5, Redressed, Zenon
<1>6. CASE Recoverable(q.state) /\ n = ResumeRecoverable(m)
  BY <1>2, <1>6, Resumes, Zenon
<1> QED
  BY <1>3, <1>5, <1>6, Zenon

\* A failure interrupts the work and remembers it.
LEMMA Enters ==
  ASSUME NEW q, WellFormed(q), Live(q), NEW m, Dressed(q, m, q.registration, q.parked),
         NEW s \in RecoverableStates
  PROVE  Resettled(q, EnterRecoverable(m, q, s))
<1> DEFINE n == EnterRecoverable(m, q, s)
           t == IF q.resume = None THEN q.state ELSE q.resume
<1>1. /\ m \in Projections /\ m.resume = q.resume /\ m.registration = q.registration
      /\ m.parked = q.parked /\ m.identity = q.identity
      /\ m.checkpoint.identity = q.identity
  BY Parts, Zenon DEF Dressed, Identified, Live
<1>2. n = [m EXCEPT !.resume = t, !.state = s]
  BY <1>1, Zenon DEF EnterRecoverable, Projections
<1>3. t \in Working /\ EffectiveState(q) = t
  <2>1. EffectiveState(q) \in Working
    BY Parts, LiveWorks, Zenon DEF Live
  <2>2. EffectiveState(q) = t
    BY Parts, WorkingStates, Zenon DEF EffectiveState, Resumable
  <2> QED
    BY <2>1, <2>2, Zenon
<1> HIDE DEF n, t
<1>4. t \in States /\ s \in States /\ t # None /\ Recoverable(s)
      /\ s \notin {"Unavailable", "Cancelled"}
  BY <1>3, WorkingStates, Zenon DEF States, Recoverable, RecoverableStates
<1>5. n \in Projections
  BY <1>1, <1>2, <1>4, Zenon DEF Projections
<1>6. /\ n.state = s /\ n.resume = t /\ n.registration = m.registration
      /\ n.parked = m.parked /\ n.identity = m.identity /\ n.checkpoint = m.checkpoint
  BY <1>1, <1>2, Zenon DEF Projections
<1>7. Resumable(n) /\ ~Ended(n) /\ EffectiveState(n) = t
  BY <1>3, <1>4, <1>6, Zenon DEF Resumable, Ended, EffectiveState
<1>8. Reaches(q, n, t, q.registration, q.parked)
  BY <1>1, <1>5, <1>6, <1>7, Zenon DEF Reaches
<1>9. Sound(q.registration) /\ Supports(t, q.registration)
  BY <1>3, Zenon DEF WellFormed
<1>10. Follows(q.registration, q.registration)
  BY <1>9, FollowsItself, Zenon
<1>11. Resettled(q, n)
  BY <1>3, <1>8, <1>9, <1>10, Zenon DEF Resettled
<1> QED
  BY <1>11, Zenon DEF n

\* Failures, resumptions and retries keep the work.
LEMMA RecoverAdvances ==
  ASSUME NEW q, WellFormed(q), Live(q), NEW e, IsEvent(e), e.kind \in RecoveryKinds
  PROVE  Advances(q, Recover(q, e), e)
<1> DEFINE n == Recover(q, e)
           m == [q EXCEPT !.recovery = e.revision]
           w == [q EXCEPT !.pendingRetry = Biggest(q.pendingRetry, e.revision)]
           x == IF Recoverable(q.state) THEN ResumeRecoverable(m) ELSE m
           y == EnterRecoverable(m, q, e.kind)
<1> SUFFICES Advances(q, n, e)
  OBVIOUS
<1>1. e.revision \in Nat
  BY Zenon DEF IsEvent, Unrevised, RecoveryKinds, RecoverableStates
<1>2. q \in Projections /\ q.pendingRetry \in Nat
  BY Parts, ProjectionFields, Zenon
<1>3. Biggest(q.pendingRetry, e.revision) \in Nat
  BY <1>1, <1>2, BiggestFacts, Zenon
<1>4. /\ Dressed(q, m, q.registration, q.parked)
      /\ Dressed(q, w, q.registration, q.parked)
  BY <1>1, <1>2, <1>3, CountersDressed, Zenon
<1>5. \/ n = q \/ n = w \/ n = x
      \/ n = SettlePendingRetry(x)
      \/ n = SettlePendingRetry(y) /\ e.kind \in RecoverableStates
  <2>1. w = [q EXCEPT !.pendingRetry = Biggest(@, e.revision)]
    BY Zenon
  <2>2. e.kind \in RecoverableStates \/ e.kind \in {"Resumed", "Retry"}
    BY Zenon DEF RecoveryKinds
  <2>3. q.recovery \in Nat
    BY <1>2, ProjectionFields, Zenon
  <2>4. CASE e.revision <= q.recovery
    <3>1. ~(e.revision > q.recovery)
      BY <1>1, <2>3, <2>4, SMT
    <3> QED
      BY <2>4, <3>1, SMT DEF Recover
  <2>5. CASE ~(e.revision <= q.recovery)
    <3>1. e.revision > q.recovery
      BY <1>1, <2>3, <2>5, SMT
    <3>2. CASE e.kind = "Retry"
      BY <2>5, <3>1, <3>2, Zenon DEF Recover
    <3>3. CASE e.kind = "Resumed"
      BY <2>5, <3>1, <3>3, Zenon DEF Recover
    <3>4. CASE e.kind \notin {"Resumed", "Retry"}
      BY <2>2, <2>5, <3>1, <3>4, Zenon DEF Recover
    <3> QED
      BY <3>2, <3>3, <3>4, Zenon
  <2> QED
    BY <2>4, <2>5, Zenon
<1>6. Resettled(q, x)
  BY <1>4, Redressed, Resumes, Zenon
<1>7. e.kind \in RecoverableStates => Resettled(q, y)
  BY <1>4, Enters, Zenon
<1> HIDE DEF n, m, w, x, y
<1>8. CASE n = q
  BY <1>8, Unmoved, Zenon
<1>9. CASE n = w
  BY <1>4, <1>9, Redressed, ResettledAdvances, Zenon
<1>10. CASE n = x
  BY <1>6, <1>10, ResettledAdvances, Zenon
<1>11. ASSUME NEW z, Resettled(q, z), n = SettlePendingRetry(z)
       PROVE  Advances(q, n, e)
  <2>1. WellFormed(z) /\ Live(z)
    BY <1>11, ResettledWellFormed, Zenon
  <2>2. Resettled(z, n)
    BY <1>11, <2>1, Settles, Zenon
  <2>3. Resettled(q, n)
    BY <1>11, <2>2, ResettledTwice, Zenon
  <2> QED
    BY <2>3, ResettledAdvances, Zenon
<1> QED
  BY <1>5, <1>6, <1>7, <1>8, <1>9, <1>10, <1>11, Zenon

-----------------------------------------------------------------------------
(* Eligibility.                                                            *)

\* The projection of a process that knows of nothing.
LEMMA NoProjectionFacts ==
  /\ NoProjection \in Projections /\ NoProjection.identity = NoIdentity
  /\ NoProjection.state = "Unavailable" /\ NoProjection.resume = None
  /\ NoProjection.registration = NoRegistration /\ NoProjection.parked = NoRegistration
  /\ WellFormed(NoProjection) /\ Ended(NoProjection)
<1>1. NoProjection.registration \in Registrations /\ NoProjection.parked \in Registrations
  BY NoRegistrationSound, Zenon DEF NoProjection
<1>2. NoProjection \in Projections
  BY NoRegistrationSound, SMT DEF NoProjection, Projections, Checkpoints, States
<1>3. /\ NoProjection.identity = NoIdentity
      /\ NoProjection.state = "Unavailable" /\ NoProjection.resume = None
      /\ NoProjection.registration = NoRegistration /\ NoProjection.parked = NoRegistration
  BY Zenon DEF NoProjection
<1>4. Ended(NoProjection)
  BY <1>3, Zenon DEF Ended
<1>5. ~Recoverable("Unavailable")
  BY Zenon DEF Recoverable, RecoverableStates
<1>6. Resumable(NoProjection) /\ EffectiveState(NoProjection) = "Unavailable"
  BY <1>3, <1>5, Zenon DEF Resumable, EffectiveState
<1>7. Supports("Unavailable", NoRegistration) /\ Waits("Unavailable", NoRegistration)
  BY Zenon DEF Supports, Waits, Unsent, IdleStates
<1> QED
  BY <1>2, <1>3, <1>4, <1>6, <1>7, NoRegistrationSound, Zenon DEF WellFormed, Identified

\* The first eligibility of an identity starts a new projection.
LEMMA StartAdvances ==
  ASSUME NEW q, NEW e, IsEvent(e), e.kind = "Eligibility", q.identity # e.identity,
         NEW c \in Checkpoints, c.identity = e.identity
  PROVE  Advances(q, SetState([NoProjection EXCEPT !.identity = e.identity,
                                 !.registration = NoRegistration, !.checkpoint = c],
                              EligibilityState(e.eligible)), e)
<1> DEFINE m == [NoProjection EXCEPT !.identity = e.identity,
                                     !.registration = NoRegistration, !.checkpoint = c]
           t == EligibilityState(e.eligible)
           n == SetState(m, t)
<1> SUFFICES Advances(q, n, e)
  OBVIOUS
<1>1. e.identity \in Identities /\ e.identity # NoIdentity
  BY Absent, Zenon DEF IsEvent
<1>2. m \in Projections
  BY <1>1, NoProjectionFacts, NoRegistrationSound, Zenon DEF Projections
<1>3. /\ m.registration = NoRegistration /\ m.parked = NoRegistration
      /\ m.identity = e.identity /\ m.checkpoint = c
  BY NoProjectionFacts, Zenon DEF Projections
<1>4. t \in Working /\ t \in IdleStates
  BY Zenon DEF EligibilityState, Working, IdleStates
<1> HIDE DEF m, t
<1>5. t \in States /\ ~Recoverable(t) /\ t \notin {"Unavailable", "Cancelled"}
  BY <1>4, WorkingStates, Zenon
<1>6. /\ n \in Projections /\ n.state = t /\ n.resume = None
      /\ n.registration = NoRegistration /\ n.parked = NoRegistration
      /\ n.identity = e.identity /\ n.checkpoint.identity = e.identity
  BY <1>2, <1>3, <1>5, StateFields, Zenon
<1> HIDE DEF n
<1>7. Resumable(n) /\ EffectiveState(n) = t /\ ~Ended(n) /\ Identified(n)
  BY <1>1, <1>5, <1>6, Zenon DEF Resumable, EffectiveState, Ended, Identified
<1>8. Supports(t, NoRegistration) /\ Waits(t, NoRegistration)
  BY <1>4, NoRegistrationSound, Zenon DEF Supports, Waits, Unsent, IdleStates
<1>9. WellFormed(n)
  BY <1>6, <1>7, <1>8, NoRegistrationSound, Zenon DEF WellFormed
<1>10. \A d \in Drafts : \A k \in Nat : Behind(n, d, k)
  BY <1>6, NoRegistrationSound, Absent, Zenon DEF Behind
<1> QED
  BY <1>6, <1>9, <1>10, Zenon DEF Advances

\* Eligibility moves an idle projection between its two idle states.
LEMMA AppliedAdvances ==
  ASSUME NEW q, WellFormed(q), Live(q), NEW e, NEW m, NEW b,
         Dressed(q, m, q.registration, q.parked)
  PROVE  Advances(q, ApplyEligibility(m, b), e)
<1> DEFINE n == ApplyEligibility(m, b)
           s == EffectiveState(q)
           u == IF Recoverable(m.state) THEN m.resume ELSE m.state
           t == CASE u = "NotEligible" /\ b -> "ActionRequired"
                  [] u = "ActionRequired" /\ ~b -> "NotEligible"
                  [] OTHER -> u
<1> SUFFICES Advances(q, n, e)
  OBVIOUS
<1>1. n = IF Recoverable(m.state) THEN [m EXCEPT !.resume = t] ELSE [m EXCEPT !.state = t]
  BY Zenon DEF ApplyEligibility
<1>2. /\ m \in Projections /\ m.state = q.state /\ m.resume = q.resume
      /\ m.registration = q.registration /\ m.parked = q.parked /\ m.identity = q.identity
      /\ m.checkpoint.identity = q.identity
  BY Parts, Zenon DEF Dressed, Live, Identified
<1>3. s \in Working
  BY Parts, LiveWorks, Zenon DEF Live
<1>4. u = s
  BY <1>2, Parts, WorkingStates, Zenon DEF Resumable, EffectiveState
<1>5. t = s \/ (s \in IdleStates /\ t \in IdleStates)
  <2> HIDE DEF s, u
  <2> QED
    BY <1>4, SMT DEF IdleStates
<1> HIDE DEF n, t, u
<1>6. IdleStates \subseteq Working
  BY Zenon DEF IdleStates, Working
<1>7. t \in Working /\ (t \in Unsent => s \in Unsent)
  BY <1>3, <1>5, <1>6, Zenon DEF IdleStates, Unsent
<1>8. t \in States /\ ~Recoverable(t) /\ t # None /\ t \notin {"Unavailable", "Cancelled"}
  BY <1>7, WorkingStates, Zenon
<1>9. Reaches(q, n, t, q.registration, q.parked)
  <2>1. CASE Recoverable(m.state)
    <3>1. n = [m EXCEPT !.resume = t]
      BY <1>1, <2>1, Zenon
    <3>2. /\ n \in Projections /\ n.state = m.state /\ n.resume = t
          /\ n.registration = m.registration /\ n.parked = m.parked
          /\ n.identity = m.identity /\ n.checkpoint = m.checkpoint
      BY <1>2, <1>8, <3>1, ResumeFields, Zenon
    <3>3. m.state \notin {"Unavailable", "Cancelled"}
      BY <1>2, Zenon DEF Live, Ended
    <3>4. Resumable(n) /\ EffectiveState(n) = t /\ ~Ended(n)
      BY <1>7, <1>8, <2>1, <3>2, <3>3, Zenon DEF Resumable, EffectiveState, Ended
    <3> QED
      BY <1>2, <3>2, <3>4, Zenon DEF Reaches
  <2>2. CASE ~Recoverable(m.state)
    <3>1. n = [m EXCEPT !.state = t]
      BY <1>1, <2>2, Zenon
    <3>2. n \in Projections
      BY <1>2, <1>8, <3>1, Zenon DEF Projections
    <3>3. /\ n.state = t /\ n.resume = m.resume
          /\ n.registration = m.registration /\ n.parked = m.parked
          /\ n.identity = m.identity /\ n.checkpoint = m.checkpoint
      BY <1>2, <3>1, Zenon DEF Projections
    <3>4. m.resume = None
      BY <1>2, <2>2, Parts, Zenon DEF Resumable
    <3>5. Resumable(n) /\ EffectiveState(n) = t /\ ~Ended(n)
      BY <1>8, <3>3, <3>4, Zenon DEF Resumable, EffectiveState, Ended
    <3> QED
      BY <1>2, <3>2, <3>3, <3>5, Zenon DEF Reaches
  <2> QED
    BY <2>1, <2>2, Zenon
<1>10. Sound(q.registration) /\ Supports(s, q.registration)
  BY Zenon DEF WellFormed
<1>11. Supports(t, q.registration)
  <2>1. ASSUME t \in IdleStates, s \in IdleStates PROVE Supports(t, q.registration)
    BY <1>10, <2>1, Zenon DEF Supports, IdleStates
  <2> QED
    BY <1>5, <1>10, <2>1, Zenon
<1>12. Follows(q.registration, q.registration)
  BY <1>10, FollowsItself, Zenon
<1> QED
  BY <1>7, <1>9, <1>10, <1>11, <1>12, Followed, Zenon

\* An eligibility report starts a projection or moves an idle one.
LEMMA EligibilityAdvances ==
  ASSUME NEW q, WellFormed(q), NEW e, IsEvent(e), e.kind = "Eligibility", ~Ignored(q, e)
  PROVE  Advances(q, Eligibility(q, e), e)
<1> DEFINE c == [revision |-> e.revision, eligible |-> e.eligible, identity |-> e.identity]
           n == Eligibility(q, e)
<1> SUFFICES Advances(q, n, e)
  OBVIOUS
<1>1. e.identity \in Identities /\ e.identity # NoIdentity /\ e.revision \in Nat
      /\ e.eligible \in BOOLEAN
  BY Absent, Zenon DEF IsEvent, Unrevised
<1>2. c \in Checkpoints /\ c.identity = e.identity
  BY <1>1, Zenon DEF Checkpoints
<1>3. CASE q.identity = NoIdentity \/ ReplacesGeneration(q, e)
  <2>1. q.identity # e.identity
    BY <1>1, <1>3, Zenon DEF ReplacesGeneration
  <2>2. (IF ReplacesGeneration(q, e) THEN NoProjection ELSE q) = NoProjection
    BY <1>3, Parts, Zenon DEF Identified
  <2>3. NoProjection.identity = NoIdentity
    BY NoProjectionFacts, Zenon
  <2>4. n = SetState([NoProjection EXCEPT !.identity = e.identity,
                        !.registration = NoRegistration, !.checkpoint = c],
                     EligibilityState(e.eligible))
    <3>1. ASSUME NEW f, f = NoProjection
          PROVE  (CASE f.identity = NoIdentity ->
                        SetState([f EXCEPT !.identity = e.identity,
                                           !.registration = NoRegistration, !.checkpoint = c],
                                 EligibilityState(e.eligible))
                    [] f.identity # NoIdentity /\ e.revision <= q.checkpoint.revision -> q
                    [] OTHER -> ApplyEligibility([f EXCEPT !.checkpoint = c], e.eligible))
                 = SetState([NoProjection EXCEPT !.identity = e.identity,
                               !.registration = NoRegistration, !.checkpoint = c],
                            EligibilityState(e.eligible))
      BY <2>3, <3>1, Zenon
    <3> QED
      BY <2>2, <3>1, Zenon DEF Eligibility
  <2> QED
    BY <1>2, <2>1, <2>4, StartAdvances, Zenon
<1>4. CASE ~(q.identity = NoIdentity \/ ReplacesGeneration(q, e))
  <2> DEFINE m == [q EXCEPT !.checkpoint = c]
  <2>1. Live(q) /\ e.identity = q.identity
    BY <1>4, Zenon DEF Ignored, Live, Ended
  <2>2. n = q \/ n = ApplyEligibility(m, e.eligible)
    BY <1>4, SMT DEF Eligibility
  <2>3. q \in Projections /\ q.checkpoint.identity = q.identity
    BY <2>1, Parts, Zenon DEF Identified, Live
  <2>4. m \in Projections
    BY <1>2, <2>3, Zenon DEF Projections
  <2>5. /\ m.registration = q.registration /\ m.parked = q.parked /\ m.state = q.state
        /\ m.resume = q.resume /\ m.identity = q.identity /\ m.checkpoint = c
    BY <2>3, Zenon DEF Projections
  <2> HIDE DEF m, c
  <2>6. Dressed(q, m, q.registration, q.parked)
    BY <1>2, <2>1, <2>3, <2>4, <2>5, Zenon DEF Dressed
  <2> HIDE DEF n
  <2> QED
    BY <2>1, <2>2, <2>6, AppliedAdvances, Unmoved, Zenon
<1> QED
  BY <1>3, <1>4, Zenon

-----------------------------------------------------------------------------
(* The reducer.                                                            *)

\* The arms of the reducer's match.
LEMMA Matched ==
  ASSUME NEW q, NEW e
  PROVE  /\ e.kind = "Eligibility" => Match(q, e) = Eligibility(q, e)
         /\ e.kind = "RegistrationAlreadyCurrent" => Match(q, e) = AlreadyCurrent(q, e)
         /\ e.kind = "AuthorizationRequested" => Match(q, e) = AuthorizationRequested(q, e)
         /\ e.kind = "AuthorizationSucceeded" => Match(q, e) = AuthorizationSucceeded(q, e)
         /\ e.kind = "AuthorizationRejected" => Match(q, e) = AuthorizationRejected(q, e)
         /\ e.kind = "SubmissionAccepted" => Match(q, e) = SubmissionAccepted(q, e)
         /\ e.kind = "FinalityObserved" => Match(q, e) = FinalityObserved(q, e)
         /\ e.kind = "RegistrationReconciled" => Match(q, e) = RegistrationReconciled(q, e)
         /\ e.kind = "DustRefreshed" => Match(q, e) = DustRefreshed(q, e)
         /\ e.kind = "DroppedRegistrationAbandoned" =>
              Match(q, e) = DroppedRegistrationAbandoned(q, e)
         /\ e.kind = "Cancel" => Match(q, e) = Cancel(q, e)
         /\ e.kind = "Superseded" => Match(q, e) = Superseded(q)
         /\ e.kind \in RecoveryKinds => Match(q, e) = Recover(q, e)
<1>1. e.kind = "Eligibility" => Match(q, e) = Eligibility(q, e)
  BY SMT DEF Match, RecoveryKinds, RecoverableStates
<1>2. e.kind = "RegistrationAlreadyCurrent" => Match(q, e) = AlreadyCurrent(q, e)
  BY SMT DEF Match, RecoveryKinds, RecoverableStates
<1>3. e.kind = "AuthorizationRequested" => Match(q, e) = AuthorizationRequested(q, e)
  BY SMT DEF Match, RecoveryKinds, RecoverableStates
<1>4. e.kind = "AuthorizationSucceeded" => Match(q, e) = AuthorizationSucceeded(q, e)
  BY SMT DEF Match, RecoveryKinds, RecoverableStates
<1>5. e.kind = "AuthorizationRejected" => Match(q, e) = AuthorizationRejected(q, e)
  BY SMT DEF Match, RecoveryKinds, RecoverableStates
<1>6. e.kind = "SubmissionAccepted" => Match(q, e) = SubmissionAccepted(q, e)
  BY SMT DEF Match, RecoveryKinds, RecoverableStates
<1>7. e.kind = "FinalityObserved" => Match(q, e) = FinalityObserved(q, e)
  BY SMT DEF Match, RecoveryKinds, RecoverableStates
<1>8. e.kind = "RegistrationReconciled" => Match(q, e) = RegistrationReconciled(q, e)
  BY SMT DEF Match, RecoveryKinds, RecoverableStates
<1>9. e.kind = "DustRefreshed" => Match(q, e) = DustRefreshed(q, e)
  BY SMT DEF Match, RecoveryKinds, RecoverableStates
<1>10. e.kind = "DroppedRegistrationAbandoned" => Match(q, e) = DroppedRegistrationAbandoned(q, e)
  BY SMT DEF Match, RecoveryKinds, RecoverableStates
<1>11. e.kind = "Cancel" => Match(q, e) = Cancel(q, e)
  BY SMT DEF Match, RecoveryKinds, RecoverableStates
<1>12. e.kind = "Superseded" => Match(q, e) = Superseded(q)
  BY SMT DEF Match, RecoveryKinds, RecoverableStates
<1>13. e.kind \in RecoveryKinds => Match(q, e) = Recover(q, e)
  BY SMT DEF Match, RecoveryKinds, RecoverableStates
<1> QED
  BY <1>1, <1>2, <1>3, <1>4, <1>5, <1>6, <1>7, <1>8, <1>9, <1>10, <1>11, <1>12, <1>13, Zenon

\* Only an observation of its transaction brings a parked registration back.
LEMMA FacingItself ==
  ASSUME NEW q, NEW e,
         e.kind \notin {"FinalityObserved", "RegistrationReconciled"},
         e.kind = "DustRefreshed" => ~SupersedesParked(q, e)
  PROVE  Facing(q, e) = q
BY Zenon DEF Facing, SupersedesParked

\* Every event that the reducer does not ignore finds a projection at work,
\* except for the two that may replace or retire it.
LEMMA NotIgnored ==
  ASSUME NEW q, NEW e, ~Ignored(q, e), e.kind # "Eligibility"
  PROVE  /\ q.identity # NoIdentity
         /\ e.kind # "Superseded" => Live(q)
BY Zenon DEF Ignored, ReplacesGeneration, Live, Ended

\* reduce_wallet_dust_registration_settlement, whatever the event.  The DUST
\* refreshes that are under way never bring a parked registration back.
LEMMA ReduceAdvances ==
  ASSUME NEW q, WellFormed(q), NEW e, IsEvent(e),
         e.kind = "DustRefreshed" => ~SupersedesParked(q, e)
  PROVE  Advances(q, Reduce(q, e), e)
<1> DEFINE n == Reduce(q, e)
<1> SUFFICES Advances(q, n, e)
  OBVIOUS
<1>1. CASE Ignored(q, e)
  <2>1. n = q
    BY <1>1, Zenon DEF Reduce
  <2> QED
    BY <2>1, Unmoved, Zenon
<1>2. CASE ~Ignored(q, e) /\ ParkedEvent(q, e)
  <2>1. n = ReduceParked(q, e)
    BY <1>2, Zenon DEF Reduce
  <2>2. q.identity # NoIdentity
    BY <1>2, NotIgnored, Zenon DEF ParkedEvent
  <2> QED
    BY <1>2, <2>1, <2>2, ParkedAdvances, Zenon
<1>3. CASE ~Ignored(q, e) /\ ~ParkedEvent(q, e)
  <2>1. n = Match(Facing(q, e), e)
    BY <1>3, Zenon DEF Reduce, Facing
  <2>2. e.kind # "Eligibility" => q.identity # NoIdentity
    BY <1>3, NotIgnored, Zenon
  <2>3. e.kind \notin {"Eligibility", "Superseded"} => Live(q)
    BY <1>3, NotIgnored, Zenon
  <2>4. e.kind \notin {"FinalityObserved", "RegistrationReconciled"} => Facing(q, e) = q
    BY FacingItself, Zenon
  <2> HIDE DEF n
  <2>5. CASE e.kind = "Eligibility"
    BY <1>3, <2>1, <2>4, <2>5, Matched, EligibilityAdvances, Zenon
  <2>6. CASE e.kind = "RegistrationAlreadyCurrent"
    BY <2>1, <2>3, <2>4, <2>6, Matched, AlreadyCurrentAdvances, Zenon
  <2>7. CASE e.kind = "AuthorizationRequested"
    BY <2>1, <2>3, <2>4, <2>7, Matched, RequestedAdvances, Zenon
  <2>8. CASE e.kind = "AuthorizationSucceeded"
    BY <2>1, <2>3, <2>4, <2>8, Matched, SucceededAdvances, Zenon
  <2>9. CASE e.kind = "AuthorizationRejected"
    BY <2>1, <2>3, <2>4, <2>9, Matched, RejectedAdvances, Zenon
  <2>10. CASE e.kind = "SubmissionAccepted"
    BY <2>1, <2>3, <2>4, <2>10, Matched, AcceptedAdvances, Zenon
  <2>11. CASE e.kind = "FinalityObserved"
    BY <2>1, <2>3, <2>11, Matched, FinalityAdvances, Zenon
  <2>12. CASE e.kind = "RegistrationReconciled"
    BY <2>1, <2>3, <2>12, Matched, ReconciledAdvances, Zenon
  <2>13. CASE e.kind = "DustRefreshed"
    BY <2>1, <2>3, <2>4, <2>13, Matched, RefreshedAdvances, Zenon
  <2>14. CASE e.kind = "DroppedRegistrationAbandoned"
    BY <2>1, <2>3, <2>4, <2>14, Matched, AbandonedAdvances, Zenon
  <2>15. CASE e.kind = "Cancel"
    BY <2>1, <2>3, <2>4, <2>15, Matched, CancelAdvances, Zenon
  <2>16. CASE e.kind = "Superseded"
    BY <2>1, <2>2, <2>4, <2>16, Matched, SupersededAdvances, Zenon
  <2>17. CASE e.kind \in RecoveryKinds
    <3>1. e.kind \notin {"Eligibility", "Superseded", "FinalityObserved",
                         "RegistrationReconciled"}
      BY <2>17, Zenon DEF RecoveryKinds, RecoverableStates
    <3> QED
      BY <2>1, <2>3, <2>4, <2>17, <3>1, Matched, RecoverAdvances, Zenon
  <2>18. e.kind \in Kinds
    BY Zenon DEF IsEvent
  <2> QED
    BY <2>5, <2>6, <2>7, <2>8, <2>9, <2>10, <2>11, <2>12, <2>13, <2>14, <2>15, <2>16,
       <2>17, <2>18, Zenon DEF Kinds
<1> QED
  BY <1>1, <1>2, <1>3, Zenon

\* A refresh that is behind its draft does not bring it back.
LEMMA BehindStays ==
  ASSUME NEW q, WellFormed(q), NEW e, IsEvent(e), e.kind = "DustRefreshed",
         Behind(q, e.tx, e.after)
  PROVE  ~SupersedesParked(q, e)
<1> DEFINE r == q.parked
           seen == q.registration.observation
<1> SUFFICES ASSUME SupersedesParked(q, e) PROVE FALSE
  OBVIOUS
<1>1. r.draft # None /\ r.tx # None /\ e.tx = r.tx /\ e.after > seen /\ e.after > r.abandonment
  BY Zenon DEF SupersedesParked, HasParked
<1>2. Sound(r) /\ r \in Registrations /\ q.registration \in Registrations
  BY Parts, Zenon
<1>3. r.tx = r.draft /\ (r.abandonment # 0 => r.observation < r.abandonment)
  BY <1>1, <1>2, Zenon DEF Sound, Sent, Fresh
<1>4. e.after <= seen \/ (r.abandonment # 0 /\ e.after <= r.observation)
  BY <1>1, <1>3, Zenon DEF Behind
<1>5. r.observation \in Nat /\ r.abandonment \in Nat /\ seen \in Nat
  BY <1>2, RegistrationFields, Zenon
<1>6. e.after \in Nat
  BY Zenon DEF IsEvent
<1> HIDE DEF r, seen
<1> QED
  BY <1>1, <1>3, <1>4, <1>5, <1>6, SMT

-----------------------------------------------------------------------------
(* The effect.                                                             *)

\* What an effect says about its projection: a preparation is asked for only
\* when nothing is parked, and what is to be authorized or submitted is a draft.
Asked(q, f) ==
  /\ f.kind = "Prepare" => q.parked.draft = None
  /\ f.kind \in {"Authorize", "Submit"} => f.subject \in Drafts

\* The fields of an effect.
LEMMA EffectFields ==
  ASSUME NEW q, NEW k, NEW s
  PROVE  EffectOf(q, k, s).kind = k /\ EffectOf(q, k, s).subject = s
BY Zenon DEF EffectOf

\* The absent effect asks for nothing.
LEMMA NoEffectAsked ==
  ASSUME NEW q
  PROVE  Asked(q, NoEffect)
BY Zenon DEF Asked, NoEffect, None

\* The effect of a registration is about its draft or its transaction.
LEMMA RegistrationAsked ==
  ASSUME NEW q, NEW r \in Registrations, r.draft # None
  PROVE  Asked(q, RegistrationEffect(q, r))
<1> DEFINE f == RegistrationEffect(q, r)
<1> SUFFICES Asked(q, f)
  OBVIOUS
<1>1. r.draft \in Drafts
  BY RegistrationFields, Zenon
<1>2. \/ f = EffectOf(q, "Authorize", r.draft)
      \/ f = EffectOf(q, "Submit", r.draft)
      \/ f = NoEffect
      \/ f = EffectOf(q, "Refresh", r.tx)
      \/ f = EffectOf(q, "Observe", r.tx)
  BY SMT DEF RegistrationEffect
<1> HIDE DEF f
<1>3. CASE f = EffectOf(q, "Authorize", r.draft) \/ f = EffectOf(q, "Submit", r.draft)
  BY <1>1, <1>3, EffectFields, SMT DEF Asked
<1>4. CASE f = NoEffect
  BY <1>4, NoEffectAsked, Zenon
<1>5. CASE f = EffectOf(q, "Refresh", r.tx) \/ f = EffectOf(q, "Observe", r.tx)
  BY <1>5, EffectFields, SMT DEF Asked
<1> QED
  BY <1>2, <1>3, <1>4, <1>5, Zenon

\* A preparation is the last resort of a projection that requires action.
LEMMA ActionAsked ==
  ASSUME NEW q, WellFormed(q), NEW a, NEW b
  PROVE  Asked(q, ActionEffect(q, a, b))
<1> DEFINE f == ActionEffect(q, a, b)
<1> SUFFICES Asked(q, f)
  OBVIOUS
<1>1. \/ f = NoEffect
      \/ HasParked(q) /\ f = RegistrationEffect(q, q.parked)
      \/ HasRegistration(q) /\ f = RegistrationEffect(q, q.registration)
      \/ ~HasParked(q) /\ f = EffectOf(q, "Prepare", None)
  BY SMT DEF ActionEffect
<1> HIDE DEF f
<1>2. q.registration \in Registrations /\ q.parked \in Registrations
  BY Parts, Zenon
<1>3. CASE f = NoEffect
  BY <1>3, NoEffectAsked, Zenon
<1>4. CASE HasParked(q) /\ f = RegistrationEffect(q, q.parked)
  BY <1>2, <1>4, RegistrationAsked, Zenon DEF HasParked
<1>5. CASE HasRegistration(q) /\ f = RegistrationEffect(q, q.registration)
  BY <1>2, <1>5, RegistrationAsked, Zenon DEF HasRegistration
<1>6. CASE ~HasParked(q) /\ f = EffectOf(q, "Prepare", None)
  BY <1>6, EffectFields, SMT DEF Asked, HasParked
<1> QED
  BY <1>1, <1>3, <1>4, <1>5, <1>6, Zenon

\* The states in which a submission is under way.
InFlight == {"Submitting", "Confirming", "Reconciling"}

\* The effect of a submission under way depends on its registration only.
FlightEffect(q) ==
  IF q.state = "Submitting" THEN EffectOf(q, "Submit", q.registration.draft)
  ELSE EffectOf(q, IF q.state = "Reconciling" /\ q.registration.included
                     THEN "Refresh" ELSE "Observe", q.registration.tx)

\* A submission under way has a draft, and beyond Submitting a transaction.
LEMMA InFlightFacts ==
  ASSUME NEW q, WellFormed(q), q.state \in InFlight
  PROVE  /\ q.identity # NoIdentity /\ HasRegistration(q) /\ EffectiveState(q) = q.state
         /\ q.state # "Submitting" => q.registration.tx # None
<1>1. ~Recoverable(q.state) /\ q.state # "Unavailable"
  BY Zenon DEF InFlight, Recoverable, RecoverableStates
<1>2. EffectiveState(q) = q.state
  BY <1>1, Zenon DEF EffectiveState
<1>3. q.identity # NoIdentity
  BY <1>1, NoProjectionFacts, Parts, Zenon DEF Identified
<1>4. Supports(q.state, q.registration) /\ Sound(q.registration)
  BY <1>2, Zenon DEF WellFormed
<1>5. CASE q.state = "Submitting"
  BY <1>2, <1>3, <1>4, <1>5, Zenon DEF Supports, HasRegistration
<1>6. CASE q.state # "Submitting"
  <2>1. q.registration.phase = "Submitted"
    BY <1>4, <1>6, Zenon DEF Supports, InFlight
  <2>2. Sent(q.registration)
    BY <1>4, <2>1, Zenon DEF Sound
  <2> QED
    BY <1>2, <1>3, <2>2, Zenon DEF Sent, HasRegistration
<1> QED
  BY <1>5, <1>6, Zenon

\* No hint of the event changes the effect of a submission under way.
LEMMA FlightEffectAsked ==
  ASSUME NEW q, WellFormed(q), q.state \in InFlight, NEW a, NEW b
  PROVE  NextEffect(q, a, b) = FlightEffect(q)
<1>1. /\ q.identity # NoIdentity /\ HasRegistration(q)
      /\ q.state # "Submitting" => q.registration.tx # None
  BY InFlightFacts, Zenon
<1>2. CASE q.state = "Submitting"
  BY <1>1, <1>2, Zenon DEF NextEffect, FlightEffect
<1>3. CASE q.state \in {"Confirming", "Reconciling"}
  BY <1>1, <1>3, Zenon DEF NextEffect, FlightEffect
<1> QED
  BY <1>2, <1>3, Zenon DEF InFlight

\* The coordinator's next_effect.
LEMMA NextAsked ==
  ASSUME NEW q, WellFormed(q), NEW a, NEW b
  PROVE  Asked(q, NextEffect(q, a, b))
<1> DEFINE f == NextEffect(q, a, b)
           r == q.registration
<1> SUFFICES Asked(q, f)
  OBVIOUS
<1>1. \/ f = NoEffect
      \/ f = ActionEffect(q, a, b)
      \/ HasRegistration(q) /\ f = EffectOf(q, "Authorize", r.draft)
      \/ HasRegistration(q) /\ f = EffectOf(q, "Submit", r.draft)
      \/ f = EffectOf(q, "Refresh", r.tx)
      \/ f = EffectOf(q, "Observe", r.tx)
  BY SMT DEF NextEffect
<1>2. HasRegistration(q) => r.draft \in Drafts
  BY Parts, RegistrationFields, Zenon DEF HasRegistration
<1> HIDE DEF f, r
<1>3. CASE f = NoEffect \/ f = ActionEffect(q, a, b)
  BY <1>3, NoEffectAsked, ActionAsked, Zenon
<1>4. CASE \/ HasRegistration(q) /\ f = EffectOf(q, "Authorize", r.draft)
           \/ HasRegistration(q) /\ f = EffectOf(q, "Submit", r.draft)
  BY <1>2, <1>4, EffectFields, SMT DEF Asked
<1>5. CASE f = EffectOf(q, "Refresh", r.tx) \/ f = EffectOf(q, "Observe", r.tx)
  BY <1>5, EffectFields, SMT DEF Asked
<1> QED
  BY <1>1, <1>3, <1>4, <1>5, Zenon

\* The effect of a coordinator that is consistent with its projection.
Consistent(c) ==
  /\ Asked(c.projection, c.effect)
  /\ c.projection.state \in InFlight => c.effect = FlightEffect(c.projection)

\* The invariant of the effect, in terms of the coordinator.
LEMMA EffectConsistent ==
  ASSUME WellFormed(p)
  PROVE  EffectInv <=> Consistent(policy)
<1>1. p.state \in InFlight => NextEffect(p, FALSE, FALSE) = FlightEffect(p)
  BY FlightEffectAsked, Zenon
<1> QED
  BY <1>1, Zenon DEF EffectInv, Consistent, Asked, InFlight, p

\* The coordinator of a well-formed projection is consistent.
LEMMA AskedConsistent ==
  ASSUME NEW q, WellFormed(q), NEW a, NEW b
  PROVE  Consistent([projection |-> q, effect |-> NextEffect(q, a, b)])
<1> DEFINE c == [projection |-> q, effect |-> NextEffect(q, a, b)]
<1> SUFFICES Consistent(c)
  OBVIOUS
<1>1. c.projection = q /\ c.effect = NextEffect(q, a, b)
  BY Zenon
<1> HIDE DEF c
<1> QED
  <2>1. Asked(c.projection, c.effect)
    BY <1>1, NextAsked, Zenon
  <2>2. c.projection.state \in InFlight => c.effect = FlightEffect(c.projection)
    BY <1>1, FlightEffectAsked, Zenon
  <2> QED
    BY <2>1, <2>2, Zenon DEF Consistent

\* What WalletDustRegistrationRuntime::observe leaves behind.
LEMMA ObservedConsistent ==
  ASSUME NEW c, Consistent(c), NEW e, WellFormed(Reduce(c.projection, e))
  PROVE  /\ Consistent(Observed(c, e))
         /\ Observed(c, e).projection = Reduce(c.projection, e)
<1> DEFINE n == Reduce(c.projection, e)
           a == n # c.projection /\ e.kind = "Eligibility" /\ e.eligible
           b == n # c.projection /\ e.kind \in {"AuthorizationRejected", "Cancel"}
           x == [projection |-> n, effect |-> NextEffect(n, a, b)]
<1>1. Observed(c, e) = IF x.projection = c.projection THEN c ELSE x
  BY Zenon DEF Observed, Changing, Coordinated, CoordinatedTo
<1>2. x.projection = n
  BY Zenon
<1>3. Consistent(x)
  <2>1. WellFormed(n)
    BY Zenon
  <2> HIDE DEF n, a, b
  <2> QED
    BY <2>1, AskedConsistent, SMT
<1> SUFFICES Consistent(Observed(c, e)) /\ Observed(c, e).projection = n
  OBVIOUS
<1> HIDE DEF x, n
<1> QED
  BY <1>1, <1>2, <1>3, Zenon

-----------------------------------------------------------------------------
(* Records and reports.                                                    *)

\* The record of a projection, field by field.
LEMMA RecordFields ==
  ASSUME NEW q \in Projections
  PROVE  LET m == RecordOf(q)
         IN  /\ m \in Projections /\ m.state = q.state /\ m.resume = None
             /\ m.registration = q.registration /\ m.parked = NoRegistration
             /\ m.identity = q.identity /\ m.checkpoint = q.checkpoint
<1> DEFINE m == RecordOf(q)
<1>1. m \in Projections
  BY NoRegistrationSound, Zenon DEF RecordOf, Projections
<1>2. /\ m.state = q.state /\ m.resume = None
      /\ m.registration = q.registration /\ m.parked = NoRegistration
      /\ m.identity = q.identity /\ m.checkpoint = q.checkpoint
  BY Zenon DEF RecordOf, Projections
<1> QED
  BY <1>1, <1>2, Zenon

\* A record that the validator accepts is of a working state.
LEMMA ValidWorks ==
  ASSUME NEW q, ValidRecord(q)
  PROVE  q.state \in Working
BY SMT DEF ValidRecord, Working, IdleStates

\* What a process restores from a record is well formed.
LEMMA RestoredWellFormed ==
  ASSUME NEW q, WellFormed(q), HasRecord(q)
  PROVE  WellFormed(RecordOf(q))
<1> DEFINE m == RecordOf(q)
<1> SUFFICES WellFormed(m)
  OBVIOUS
<1>1. q \in Projections /\ Resumable(q) /\ Sound(q.registration)
      /\ Supports(EffectiveState(q), q.registration)
  BY Zenon DEF WellFormed
<1>2. /\ m \in Projections /\ m.state = q.state /\ m.resume = None
      /\ m.registration = q.registration /\ m.parked = NoRegistration
      /\ m.identity = q.identity /\ m.checkpoint = q.checkpoint
  BY <1>1, RecordFields, Zenon
<1>3. ValidRecord(m) /\ q.identity # NoIdentity /\ q.checkpoint.identity = q.identity
  BY Zenon DEF HasRecord
<1> HIDE DEF m
<1>4. m.state \in Working
  BY <1>3, ValidWorks, Zenon
<1>5. ~Recoverable(m.state) /\ m.state \notin {"Unavailable", "Cancelled"}
  BY <1>4, WorkingStates, Zenon
<1>6. Resumable(m) /\ Identified(m) /\ ~Ended(m) /\ EffectiveState(m) = EffectiveState(q)
  BY <1>2, <1>3, <1>5, Zenon DEF Resumable, Identified, Ended, EffectiveState
<1>7. Sound(NoRegistration) /\ \A s : Waits(s, NoRegistration)
  BY NoRegistrationSound, Zenon DEF Waits, Unsent
<1> QED
  BY <1>1, <1>2, <1>6, <1>7, Zenon DEF WellFormed

\* A record is its own record.
LEMMA RecordTwice ==
  ASSUME NEW q \in Projections
  PROVE  RecordOf(RecordOf(q)) = RecordOf(q)
BY Zenon DEF RecordOf, Projections

\* The empty store counts as a record of nothing.
LEMMA EmptyRecord ==
  RecordOf(NoProjection) = NoProjection /\ ~HasRecord(NoProjection)
<1>1. ~HasRecord(NoProjection)
  BY NoProjectionFacts, Zenon DEF HasRecord
<1>2. NoProjection.pendingRetry = 0
  BY Zenon DEF NoProjection
<1>3. RecordOf(NoProjection) = NoProjection
  BY <1>2, NoProjectionFacts, Zenon DEF RecordOf, Projections
<1> QED
  BY <1>1, <1>3, Zenon

\* What the observer of a published projection leaves in the store.
LEMMA StoreStep ==
  ASSUME IInv, WellFormed(p'),
         stored' = IF HasRecord(p') THEN RecordOf(p') ELSE stored
  PROVE  StoreInv'
<1>1. CASE HasRecord(p')
  <2>1. stored' = RecordOf(p')
    BY <1>1, Zenon
  <2>2. WellFormed(RecordOf(p'))
    BY <1>1, RestoredWellFormed, Zenon
  <2>3. RecordOf(RecordOf(p')) = RecordOf(p')
    BY RecordTwice, Zenon DEF WellFormed
  <2> QED
    BY <2>1, <2>2, <2>3, Zenon DEF StoreInv
<1>2. CASE ~HasRecord(p')
  <2>1. stored' = stored
    BY <1>2, Zenon
  <2> QED
    BY <1>2, <2>1, Zenon DEF StoreInv, IInv
<1> QED
  BY <1>1, <1>2, Zenon

\* What Reports says about an event.
Told(e) ==
  /\ IsEvent(e)
  /\ e.kind = "DustRefreshed" => e.tx \in submitted /\ e.after = p.registration.observation
  /\ e.kind = "AuthorizationRequested" => e.draft \notin submitted
  /\ e.kind = "RegistrationAlreadyCurrent" => policy.effect.kind = "Prepare"

\* An answer of the executor is about the effect it executes.
LEMMA AnswersTold ==
  ASSUME clock \in Nat, submitted \subseteq Drafts, EffectInv,
         NEW i \in Identities, NEW e \in Answers(i)
  PROVE  Told(e)
<1> DEFINE f == policy.effect
           v == clock + 1
<1>1. v \in Nat \ {0}
  BY SMT
<1>2. \/ e \in [kind: {"AuthorizationRequested"}, identity: {i}, draft: Drafts \ submitted,
                revision: {v}]
      \/ f.kind = "Prepare" /\ e \in [kind: {"RegistrationAlreadyCurrent"}, identity: {i},
                                      revision: {v}]
      \/ f.kind = "Authorize"
         /\ e \in [kind: {"AuthorizationSucceeded", "AuthorizationRejected", "Cancel"},
                   identity: {i}, draft: {f.subject}]
      \/ f.kind = "Submit"
         /\ e = [kind |-> "SubmissionAccepted", identity |-> i, draft |-> f.subject,
                 tx |-> f.subject]
  BY SMT DEF Answers
<1>3. f.kind \in {"Authorize", "Submit"} => f.subject \in Drafts
  BY Zenon DEF EffectInv
<1> HIDE DEF f, v
<1>4. CASE e \in [kind: {"AuthorizationRequested"}, identity: {i}, draft: Drafts \ submitted,
                  revision: {v}]
  <2>1. e.kind = "AuthorizationRequested" /\ e.identity = i /\ e.draft \in Drafts \ submitted
        /\ e.revision = v
    BY <1>4, Zenon
  <2>2. IsEvent(e)
    BY <1>1, <2>1, SMT DEF IsEvent, Kinds, Unrevised, OfDraft, OfTransaction
  <2> QED
    BY <2>1, <2>2, Zenon DEF Told
<1>5. CASE f.kind = "Prepare" /\ e \in [kind: {"RegistrationAlreadyCurrent"}, identity: {i},
                                        revision: {v}]
  <2>1. e.kind = "RegistrationAlreadyCurrent" /\ e.identity = i /\ e.revision = v
    BY <1>5, Zenon
  <2>2. IsEvent(e)
    BY <1>1, <2>1, SMT DEF IsEvent, Kinds, Unrevised, OfDraft, OfTransaction
  <2> QED
    BY <1>5, <2>1, <2>2, Zenon DEF Told, f
<1>6. CASE f.kind = "Authorize"
           /\ e \in [kind: {"AuthorizationSucceeded", "AuthorizationRejected", "Cancel"},
                     identity: {i}, draft: {f.subject}]
  <2>1. e.kind \in {"AuthorizationSucceeded", "AuthorizationRejected", "Cancel"}
        /\ e.identity = i /\ e.draft \in Drafts
    BY <1>3, <1>6, Zenon
  <2>2. IsEvent(e)
    BY <2>1, SMT DEF IsEvent, Kinds, Unrevised, OfDraft, OfTransaction
  <2> QED
    BY <2>1, <2>2, Zenon DEF Told
<1>7. CASE f.kind = "Submit"
           /\ e = [kind |-> "SubmissionAccepted", identity |-> i, draft |-> f.subject,
                   tx |-> f.subject]
  <2>1. e.kind = "SubmissionAccepted" /\ e.identity = i /\ e.draft \in Drafts /\ e.tx = e.draft
    BY <1>3, <1>7, Zenon
  <2>2. IsEvent(e)
    BY <2>1, SMT DEF IsEvent, Kinds, Unrevised, OfDraft, OfTransaction
  <2> QED
    BY <2>1, <2>2, Zenon DEF Told
<1> QED
  BY <1>2, <1>4, <1>5, <1>6, <1>7, Zenon

\* An observer reports on what was submitted.
LEMMA ObservationsTold ==
  ASSUME clock \in Nat, submitted \subseteq Drafts, WellFormed(p),
         NEW i \in Identities, NEW e \in Observations(i)
  PROVE  Told(e)
<1> DEFINE v == clock + 1
           k == p.registration.observation
<1>1. v \in Nat \ {0}
  BY SMT
<1>2. k \in Nat
  BY Parts, RegistrationFields, Zenon
<1>3. \/ e \in [kind: {"Eligibility"}, identity: {i}, revision: {v}, eligible: BOOLEAN]
      \/ e \in [kind: {"Resumed", "Retry"} \cup Outages, identity: {i}, revision: {v}]
      \/ e \in [kind: {"FinalityObserved"}, identity: {i}, tx: submitted, revision: {v}]
      \/ e \in [kind: {"RegistrationReconciled"}, identity: {i}, tx: submitted, revision: {v},
                verdict: {"Included", "Pending", "Dropped"}]
      \/ e \in [kind: {"DustRefreshed"}, identity: {i}, tx: submitted, revision: {v},
                after: {k}, ready: BOOLEAN]
      \/ e \in [kind: {"DroppedRegistrationAbandoned"}, identity: {i}, tx: submitted,
                after: {v}]
      \/ e \in [kind: {"Superseded"}, identity: {i}]
  BY Zenon DEF Observations, p
<1> HIDE DEF v, k
<1>4. CASE e \in [kind: {"Eligibility"}, identity: {i}, revision: {v}, eligible: BOOLEAN]
  <2>1. e.kind = "Eligibility" /\ e.identity = i /\ e.revision = v /\ e.eligible \in BOOLEAN
    BY <1>4, Zenon
  <2> QED
    BY <1>1, <2>1, Zenon DEF Told, IsEvent, Kinds, OfDraft, OfTransaction
<1>5. CASE e \in [kind: {"Resumed", "Retry"} \cup Outages, identity: {i}, revision: {v}]
  <2>1. e.kind \in RecoveryKinds /\ e.identity = i /\ e.revision = v
    BY <1>5, EventsAssumption, Zenon DEF RecoveryKinds
  <2>2. e.kind \in Kinds /\ e.kind \notin OfDraft /\ e.kind \notin OfTransaction
        /\ e.kind \notin {"Eligibility", "RegistrationAlreadyCurrent"}
    BY <2>1, Zenon DEF Kinds, RecoveryKinds, RecoverableStates, OfDraft, OfTransaction
  <2> QED
    BY <1>1, <2>1, <2>2, Zenon DEF Told, IsEvent, OfDraft, OfTransaction
<1>6. CASE e \in [kind: {"FinalityObserved"}, identity: {i}, tx: submitted, revision: {v}]
  <2>1. e.kind = "FinalityObserved" /\ e.identity = i /\ e.revision = v /\ e.tx \in Drafts
    BY <1>6, Zenon
  <2> QED
    BY <1>1, <2>1, Zenon DEF Told, IsEvent, Kinds, OfDraft
<1>7. CASE e \in [kind: {"RegistrationReconciled"}, identity: {i}, tx: submitted,
                  revision: {v}, verdict: {"Included", "Pending", "Dropped"}]
  <2>1. e.kind = "RegistrationReconciled" /\ e.identity = i /\ e.revision = v /\ e.tx \in Drafts
        /\ e.verdict \in {"Included", "Pending", "Dropped"}
    BY <1>7, Zenon
  <2> QED
    BY <1>1, <2>1, Zenon DEF Told, IsEvent, Kinds, OfDraft
<1>8. CASE e \in [kind: {"DustRefreshed"}, identity: {i}, tx: submitted, revision: {v},
                  after: {k}, ready: BOOLEAN]
  <2>1. e.kind = "DustRefreshed" /\ e.identity = i /\ e.revision = v /\ e.tx \in submitted
        /\ e.tx \in Drafts /\ e.after = k /\ e.ready \in BOOLEAN
    BY <1>8, Zenon
  <2>2. IsEvent(e)
    BY <1>1, <1>2, <2>1, Zenon DEF IsEvent, Kinds, OfDraft
  <2> QED
    BY <2>1, <2>2, Zenon DEF Told, k
<1>9. CASE e \in [kind: {"DroppedRegistrationAbandoned"}, identity: {i}, tx: submitted,
                  after: {v}]
  <2>1. e.kind = "DroppedRegistrationAbandoned" /\ e.identity = i /\ e.after = v
        /\ e.tx \in Drafts
    BY <1>9, Zenon
  <2> QED
    BY <1>1, <2>1, Zenon DEF Told, IsEvent, Kinds, OfDraft, Unrevised
<1>10. CASE e \in [kind: {"Superseded"}, identity: {i}]
  <2>1. e.kind = "Superseded" /\ e.identity = i
    BY <1>10, Zenon
  <2> QED
    BY <2>1, Zenon DEF Told, IsEvent, Kinds, OfDraft, OfTransaction, Unrevised
<1> QED
  BY <1>3, <1>4, <1>5, <1>6, <1>7, <1>8, <1>9, <1>10, Zenon

\* Every report is an event about what was offered or submitted.
LEMMA ReportsTold ==
  ASSUME IInv, NEW i \in Identities, NEW e \in Reports(i)
  PROVE  Told(e)
BY AnswersTold, ObservationsTold, Zenon DEF Reports, IInv

-----------------------------------------------------------------------------
(* The steps.                                                              *)

\* An event that arrives, now or late.
LEMMA EventKeeps ==
  ASSUME IInv, NEW e, IsEvent(e), e.kind = "DustRefreshed" => Behind(p, e.tx, e.after)
  PROVE  LET c == Observed(policy, e)
         IN  Advances(p, c.projection, e) /\ Consistent(c)
<1>1. WellFormed(p) /\ EffectInv
  BY Zenon DEF IInv
<1>2. Consistent(policy)
  BY <1>1, EffectConsistent, Zenon
<1>3. e.kind = "DustRefreshed" => ~SupersedesParked(p, e)
  BY <1>1, BehindStays, Zenon
<1>4. Advances(p, Reduce(p, e), e)
  BY <1>1, <1>3, ReduceAdvances, Zenon
<1>5. WellFormed(Reduce(policy.projection, e))
  BY <1>4, Zenon DEF Advances, p
<1> QED
  BY <1>2, <1>4, <1>5, ObservedConsistent, Zenon DEF p

\* A report on the projection as it is.
LEMMA ToldBehind ==
  ASSUME IInv, NEW e, Told(e), e.kind = "DustRefreshed"
  PROVE  Behind(p, e.tx, e.after)
<1>1. e.after = p.registration.observation /\ p.registration.observation \in Nat
  BY Parts, RegistrationFields, Zenon DEF Told, IInv
<1>2. p.registration.observation <= p.registration.observation
  BY <1>1, SMT
<1> QED
  BY <1>1, <1>2, Zenon DEF Behind

\* The next state is consistent.
LEMMA ConsistentNext ==
  ASSUME WellFormed(p'), Consistent(policy')
  PROVE  EffectInv'
<1>1. p' = policy'.projection
  BY Zenon DEF p
<1>2. p'.state \in InFlight => NextEffect(p', FALSE, FALSE) = FlightEffect(p')
  BY FlightEffectAsked, Zenon
<1> HIDE DEF p
<1> QED
  BY <1>1, <1>2, Zenon DEF EffectInv, Consistent, Asked, InFlight

\* A late refresh stays behind.
LEMMA LateKept ==
  ASSUME IInv, NEW e, NEW n, Advances(p, n, e), late.kind = "DustRefreshed",
         ~Replaces(p, e, late.tx)
  PROVE  Behind(n, late.tx, late.after)
<1>1. late # NoEvent
  <2>1. NoEvent.kind # "DustRefreshed"
    BY Zenon DEF NoEvent, None
  <2> QED
    BY <2>1, Zenon
<1>2. IsEvent(late) /\ Behind(p, late.tx, late.after)
  BY <1>1, Zenon DEF IInv, LateInv
<1>3. late.tx \in Drafts /\ late.after \in Nat
  BY <1>2, Zenon DEF IsEvent, OfTransaction
<1> QED
  BY <1>2, <1>3, Zenon DEF Advances

\* A report that is delivered at once.
LEMMA DeliverStep ==
  ASSUME IInv, NEW i \in Identities, NEW e \in Reports(i), Deliver(e)
  PROVE  IInv' /\ Advances(p, p', e)
<1>1. Told(e) /\ IsEvent(e)
  BY ReportsTold, Zenon DEF Told
<1>2. policy' = Observed(policy, e) /\ late' = late /\ Issue(e)
      /\ stored' = IF HasRecord(p') THEN RecordOf(p') ELSE stored
  BY Zenon DEF Deliver, Observe, p
<1>3. e.kind = "DustRefreshed" => Behind(p, e.tx, e.after)
  BY <1>1, ToldBehind, Zenon
<1>4. Advances(p, p', e) /\ Consistent(policy')
  BY <1>1, <1>2, <1>3, EventKeeps, Zenon DEF p
<1>5. WellFormed(p')
  BY <1>4, Zenon DEF Advances
<1>6. EffectInv'
  BY <1>4, <1>5, ConsistentNext, Zenon
<1>7. clock' \in Nat
  BY <1>2, SMT DEF Issue, IInv
<1>8. submitted' \subseteq Drafts /\ submitted \subseteq submitted'
  BY <1>1, <1>2, Zenon DEF Issue, IInv, IsEvent, OfDraft
<1>9. LateInv'
  <2>1. late' # NoEvent => IsEvent(late')
    BY <1>2, Zenon DEF IInv, LateInv
  <2>2. ASSUME late.kind = "DustRefreshed"
        PROVE  late.tx \in submitted' /\ Behind(p', late.tx, late.after)
    <3>1. late.tx \in submitted
      BY <2>2, Zenon DEF IInv, LateInv
    <3>2. ~Replaces(p, e, late.tx)
      BY <1>1, <3>1, Zenon DEF Replaces, Told, IInv, EffectInv
    <3> QED
      BY <1>4, <1>8, <2>2, <3>1, <3>2, LateKept, Zenon
  <2> QED
    BY <1>2, <2>1, <2>2, Zenon DEF LateInv
<1>10. StoreInv'
  BY <1>2, <1>5, StoreStep, Zenon
<1> QED
  BY <1>4, <1>5, <1>6, <1>7, <1>8, <1>9, <1>10, Zenon DEF IInv

\* A report that is held back changes no projection.
LEMMA HoldBackStep ==
  ASSUME IInv, NEW i \in Identities, NEW e \in Reports(i), HoldBack(e)
  PROVE  IInv' /\ p' = p
<1>1. Told(e) /\ IsEvent(e)
  BY ReportsTold, Zenon DEF Told
<1>2. policy' = policy /\ stored' = stored /\ late' = e /\ Issue(e)
  BY Zenon DEF HoldBack
<1>3. p' = p
  BY <1>2, Zenon DEF p
<1>4. e.kind = "DustRefreshed" => Behind(p, e.tx, e.after)
  BY <1>1, ToldBehind, Zenon
<1>5. WellFormed(p') /\ EffectInv' /\ StoreInv'
  BY <1>2, <1>3, Zenon DEF IInv, EffectInv, StoreInv
<1>6. clock' \in Nat
  BY <1>2, SMT DEF Issue, IInv
<1>7. submitted' \subseteq Drafts /\ submitted \subseteq submitted'
  BY <1>1, <1>2, Zenon DEF Issue, IInv, IsEvent, OfDraft
<1>8. LateInv'
  BY <1>1, <1>2, <1>3, <1>4, <1>7, Zenon DEF LateInv, Told
<1> QED
  BY <1>3, <1>5, <1>6, <1>7, <1>8, Zenon DEF IInv

\* The late report arrives.
LEMMA ArriveStep ==
  ASSUME IInv, Arrive
  PROVE  IInv' /\ Advances(p, p', late)
<1>1. /\ late # NoEvent /\ policy' = Observed(policy, late) /\ late' \in {late, NoEvent}
      /\ stored' = IF HasRecord(p') THEN RecordOf(p') ELSE stored
      /\ clock' = clock /\ submitted' = submitted
  BY Zenon DEF Arrive, Observe, p
<1>2. IsEvent(late)
      /\ (late.kind = "DustRefreshed" => late.tx \in submitted /\ Behind(p, late.tx, late.after))
  BY <1>1, Zenon DEF IInv, LateInv
<1>3. Advances(p, p', late) /\ Consistent(policy')
  BY <1>1, <1>2, EventKeeps, Zenon DEF p
<1>4. WellFormed(p')
  BY <1>3, Zenon DEF Advances
<1>5. EffectInv'
  BY <1>3, <1>4, ConsistentNext, Zenon
<1>6. LateInv'
  <2>1. CASE late' = late
    <3>1. late.kind = "DustRefreshed" => ~Replaces(p, late, late.tx)
      BY Zenon DEF Replaces
    <3>2. late.kind = "DustRefreshed" => Behind(p', late.tx, late.after)
      BY <1>3, <3>1, LateKept, Zenon
    <3> QED
      BY <1>1, <1>2, <2>1, <3>2, Zenon DEF LateInv
  <2>2. CASE late' = NoEvent
    <3>1. NoEvent.kind # "DustRefreshed"
      BY Zenon DEF NoEvent, None
    <3> QED
      BY <2>2, <3>1, Zenon DEF LateInv
  <2> QED
    BY <1>1, <2>1, <2>2, Zenon
<1>7. StoreInv'
  BY <1>1, <1>4, StoreStep, Zenon
<1> QED
  BY <1>1, <1>3, <1>4, <1>5, <1>6, <1>7, Zenon DEF IInv

\* A process without a record asks for nothing.
LEMMA EmptyConsistent ==
  Consistent([projection |-> NoProjection, effect |-> NoEffect])
<1> DEFINE c == [projection |-> NoProjection, effect |-> NoEffect]
<1>1. c.projection = NoProjection /\ c.effect = NoEffect
  BY Zenon
<1>2. c.projection.state \notin InFlight
  BY <1>1, NoProjectionFacts, Zenon DEF InFlight
<1> QED
  BY <1>1, <1>2, NoEffectAsked, Zenon DEF Consistent

\* A new process takes over, with or without a record.
LEMMA RestartStep ==
  ASSUME IInv, Restart
  PROVE  IInv'
<1> DEFINE c == [projection |-> NoProjection, effect |-> NoEffect]
           record == IF stored.state = "AwaitingAuthorization" THEN NoProjection ELSE stored
<1>1. /\ late' = NoEvent /\ clock' = clock /\ submitted' = submitted /\ stored' = record
      /\ policy' = IF record = NoProjection THEN c ELSE Restored(record)
  BY Zenon DEF Restart
<1>2. WellFormed(record) /\ RecordOf(record) = record
  <2>1. WellFormed(NoProjection) /\ RecordOf(NoProjection) = NoProjection
    BY NoProjectionFacts, EmptyRecord, Zenon
  <2>2. WellFormed(stored) /\ RecordOf(stored) = stored
    BY Zenon DEF IInv, StoreInv
  <2> QED
    BY <2>1, <2>2, Zenon
<1> HIDE DEF record
<1>3. WellFormed(p') /\ Consistent(policy') /\ p' = record
  <2>1. CASE record # NoProjection
    <3>1. policy' = Restored(record)
      BY <1>1, <2>1, Zenon
    <3>2. policy'.projection = record
      BY <3>1, Zenon DEF Restored
    <3>3. Consistent(Restored(record))
      BY <1>2, AskedConsistent, Zenon DEF Restored
    <3> QED
      BY <1>2, <3>1, <3>2, <3>3, Zenon DEF p
  <2>2. CASE record = NoProjection
    <3>1. policy' = c
      BY <1>1, <2>2, Zenon
    <3>2. policy'.projection = NoProjection
      BY <3>1, Zenon
    <3> QED
      BY <2>2, <3>1, <3>2, NoProjectionFacts, EmptyConsistent, Zenon DEF p
  <2> QED
    BY <2>1, <2>2, Zenon
<1>4. EffectInv'
  BY <1>3, ConsistentNext, Zenon
<1>5. NoEvent.kind # "DustRefreshed"
  BY Zenon DEF NoEvent, None
<1>6. LateInv'
  BY <1>1, <1>5, Zenon DEF LateInv
<1>7. StoreInv'
  BY <1>1, <1>2, <1>3, Zenon DEF StoreInv
<1> QED
  BY <1>1, <1>3, <1>4, <1>6, <1>7, Zenon DEF IInv

\* The invariant holds initially.
LEMMA InitInv ==
  ASSUME Init
  PROVE  IInv
<1>1. policy = [projection |-> NoProjection, effect |-> NoEffect] /\ clock = 0
      /\ late = NoEvent /\ submitted = {} /\ stored = NoProjection
  BY Zenon DEF Init
<1>2. p = NoProjection
  BY <1>1, Zenon DEF p
<1>3. WellFormed(p) /\ Consistent(policy)
  BY <1>1, <1>2, NoProjectionFacts, EmptyConsistent, Zenon
<1>4. EffectInv
  BY <1>3, EffectConsistent, Zenon
<1>5. NoEvent.kind # "DustRefreshed"
  BY Zenon DEF NoEvent, None
<1>6. LateInv
  BY <1>1, <1>5, Zenon DEF LateInv
<1>7. clock \in Nat /\ submitted \subseteq Drafts
  BY <1>1, SMT
<1>8. StoreInv
  BY <1>1, <1>2, NoProjectionFacts, EmptyRecord, Zenon DEF StoreInv
<1> QED
  BY <1>3, <1>4, <1>6, <1>7, <1>8, Zenon DEF IInv

\* Every step keeps the invariant.
LEMMA StepInv ==
  ASSUME IInv, [Next]_vars
  PROVE  IInv'
<1>1. CASE Next
  <2>1. ASSUME NEW i \in Identities, NEW e \in Reports(i), Deliver(e) \/ HoldBack(e)
        PROVE  IInv'
    BY <2>1, DeliverStep, HoldBackStep, Zenon
  <2> QED
    BY <1>1, <2>1, ArriveStep, RestartStep, Zenon DEF Next
<1>2. CASE UNCHANGED vars
  BY <1>2, Zenon DEF vars, IInv, EffectInv, LateInv, StoreInv, p
<1> QED
  BY <1>1, <1>2, Zenon

-----------------------------------------------------------------------------
(* Duplicates.                                                             *)

\* An event that changes nothing the reducer would match on is refused.
LEMMA Refused ==
  ASSUME NEW n, NEW e, ~ParkedEvent(n, e), ~SupersedesParked(n, e), Match(n, e) = n
  PROVE  Reduce(n, e) = n
<1>1. CASE Ignored(n, e)
  BY <1>1, Zenon DEF Reduce
<1>2. CASE ~Ignored(n, e)
  BY <1>2, Zenon DEF Reduce
<1> QED
  BY <1>1, <1>2, Zenon

\* An event that is about no parked draft is refused when its match refuses it.
LEMMA PlainRefused ==
  ASSUME NEW n, NEW e, Match(n, e) = n,
         e.kind \notin {"FinalityObserved", "RegistrationReconciled", "DustRefreshed",
                        "SubmissionAccepted", "AuthorizationSucceeded",
                        "AuthorizationRejected", "Cancel"}
  PROVE  Reduce(n, e) = n
<1>1. ~ParkedEvent(n, e)
  BY Zenon DEF ParkedEvent
<1>2. ~SupersedesParked(n, e)
  BY Zenon DEF SupersedesParked
<1> QED
  BY <1>1, <1>2, Refused, Zenon

\* set_effective_state, field by field.
LEMMA EffectiveFields ==
  ASSUME NEW m \in Projections, NEW s \in Working
  PROVE  LET n == SetEffectiveState(m, s)
         IN  /\ n \in Projections /\ EffectiveState(n) = s
             /\ n.registration = m.registration /\ n.parked = m.parked
             /\ n.identity = m.identity /\ n.checkpoint = m.checkpoint
             /\ n.preparation = m.preparation /\ n.recovery = m.recovery
             /\ n.pendingRetry = m.pendingRetry
             /\ n.state = IF Recoverable(m.state) THEN m.state ELSE s
<1> DEFINE n == SetEffectiveState(m, s)
<1>1. s \in States /\ ~Recoverable(s) /\ s # None
  BY WorkingStates, Zenon
<1> SUFFICES /\ n \in Projections /\ EffectiveState(n) = s
             /\ n.registration = m.registration /\ n.parked = m.parked
             /\ n.identity = m.identity /\ n.checkpoint = m.checkpoint
             /\ n.preparation = m.preparation /\ n.recovery = m.recovery
             /\ n.pendingRetry = m.pendingRetry
             /\ n.state = IF Recoverable(m.state) THEN m.state ELSE s
  BY Zenon
<1> HIDE DEF n
<1>2. CASE Recoverable(m.state)
  <2>1. n = [m EXCEPT !.resume = s]
    BY <1>2, Zenon DEF n, SetEffectiveState
  <2>2. /\ n \in Projections /\ n.state = m.state /\ n.resume = s
        /\ n.registration = m.registration /\ n.parked = m.parked
        /\ n.identity = m.identity /\ n.checkpoint = m.checkpoint
        /\ n.preparation = m.preparation /\ n.recovery = m.recovery
        /\ n.pendingRetry = m.pendingRetry
    BY <1>1, <2>1, ResumeFields, Zenon
  <2> QED
    BY <1>1, <1>2, <2>2, Zenon DEF EffectiveState
<1>3. CASE ~Recoverable(m.state)
  <2>1. n = SetState(m, s)
    BY <1>3, Zenon DEF n, SetEffectiveState
  <2>2. /\ n \in Projections /\ n.state = s /\ n.resume = None
        /\ n.registration = m.registration /\ n.parked = m.parked
        /\ n.identity = m.identity /\ n.checkpoint = m.checkpoint
        /\ n.preparation = m.preparation /\ n.recovery = m.recovery
        /\ n.pendingRetry = m.pendingRetry
    BY <1>1, <2>1, StateFields, Zenon
  <2> QED
    BY <1>1, <1>3, <2>2, Zenon DEF EffectiveState
<1> QED
  BY <1>2, <1>3, Zenon

\* Where event e led from q to n, a second copy of e changes nothing.
Once(q, n, e) == n # q => Reduce(n, e) = n

\* A wallet that is registered already is ready, and no longer asks.
LEMMA AlreadyCurrentTwice ==
  ASSUME NEW q, WellFormed(q), NEW e, IsEvent(e), e.kind = "RegistrationAlreadyCurrent"
  PROVE  Once(q, AlreadyCurrent(q, e), e)
<1> DEFINE n == AlreadyCurrent(q, e)
           m == [q EXCEPT !.preparation = e.revision, !.registration = NoRegistration]
<1> SUFFICES ASSUME n # q PROVE Reduce(n, e) = n
  BY Zenon DEF Once
<1>1. e.revision \in Nat
  BY Zenon DEF IsEvent, Unrevised
<1>2. m \in Projections
  BY <1>1, Parts, NoRegistrationSound, PreparedDressed, Zenon DEF Dressed
<1>3. n = SetEffectiveState(m, "Ready") /\ "Ready" \in Working
  BY Zenon DEF AlreadyCurrent, Working
<1> HIDE DEF m, n
<1>4. EffectiveState(n) = "Ready"
  BY <1>2, <1>3, EffectiveFields, Zenon
<1>5. AlreadyCurrent(n, e) = n
  BY <1>4, Zenon DEF AlreadyCurrent
<1>6. Match(n, e) = n
  BY <1>5, Matched, Zenon
<1> QED
  BY <1>6, PlainRefused, Zenon

\* A draft is offered once: its preparation has been taken in.
LEMMA RequestedTwice ==
  ASSUME NEW q, WellFormed(q), NEW e, IsEvent(e), e.kind = "AuthorizationRequested"
  PROVE  Once(q, AuthorizationRequested(q, e), e)
<1> DEFINE n == AuthorizationRequested(q, e)
           r == PendingRegistration(e.draft)
           k == IF Abandoned(q) THEN q.registration ELSE q.parked
           m == [q EXCEPT !.preparation = e.revision, !.parked = k, !.registration = r]
           x == [q EXCEPT !.preparation = e.revision, !.registration = r]
<1> SUFFICES ASSUME n # q PROVE Reduce(n, e) = n
  BY Zenon DEF Once
<1>1. e.revision \in Nat /\ e.draft \in Drafts
  BY Zenon DEF IsEvent, Unrevised, OfDraft
<1>2. r \in Registrations /\ k \in Registrations /\ q \in Projections
  BY <1>1, PendingFields, Parts, Zenon
<1>3. /\ n = SetEffectiveState(m, "AwaitingAuthorization") \/ n = x
      /\ "AwaitingAuthorization" \in Working
  BY Zenon DEF AuthorizationRequested, Working
<1> HIDE DEF r, k
<1>4. m \in Projections /\ m.preparation = e.revision /\ x.preparation = e.revision
  BY <1>1, <1>2, Zenon DEF Projections
<1> HIDE DEF m, x, n
<1>5. n.preparation = e.revision
  <2>1. CASE n = SetEffectiveState(m, "AwaitingAuthorization")
    BY <1>3, <1>4, <2>1, EffectiveFields, Zenon
  <2> QED
    BY <1>3, <1>4, <2>1, Zenon
<1>6. ~(e.revision > n.preparation)
  BY <1>1, <1>5, SMT
<1>7. AuthorizationRequested(n, e) = n
  BY <1>6, Zenon DEF AuthorizationRequested
<1>8. Match(n, e) = n
  BY <1>7, Matched, Zenon
<1> QED
  BY <1>8, PlainRefused, Zenon

\* Unpark, field by field.
LEMMA UnparkFields ==
  ASSUME NEW q, WellFormed(q), NEW s \in IdleStates
  PROVE  LET n == Unpark(q, s)
         IN  /\ EffectiveState(n) = s /\ n.registration = q.parked
             /\ n.parked.draft = None
<1> DEFINE m == [q EXCEPT !.registration = q.parked, !.parked = NoRegistration]
           n == Unpark(q, s)
<1>1. Dressed(q, m, q.parked, NoRegistration)
  BY Parts, NoRegistrationSound, PlaceDressed, Zenon
<1>2. s \in Working
  BY Zenon DEF IdleStates, Working
<1>3. n = SetEffectiveState(m, s)
  BY Zenon DEF Unpark
<1>4. m \in Projections /\ m.registration = q.parked /\ m.parked = NoRegistration
  BY <1>1, Zenon DEF Dressed
<1> HIDE DEF m, n
<1>5. EffectiveState(n) = s /\ n.registration = q.parked /\ n.parked.draft = None
  BY <1>2, <1>3, <1>4, EffectiveFields, NoRegistrationSound, Zenon
<1> QED
  BY <1>5, Zenon DEF n

\* An authorization is used once: its draft is submitted, or gives way.
LEMMA SucceededTwice ==
  ASSUME NEW q, WellFormed(q), NEW e, e.kind = "AuthorizationSucceeded"
  PROVE  Once(q, AuthorizationSucceeded(q, e), e)
<1> DEFINE n == AuthorizationSucceeded(q, e)
           m == [q EXCEPT !.registration.phase = "Submitting"]
<1> SUFFICES ASSUME n # q PROVE Reduce(n, e) = n
  BY Zenon DEF Once
<1>1. /\ Awaits(q, e.draft)
      /\ \/ n = Unpark(q, "NotEligible")
         \/ n = SetEffectiveState(m, "Submitting")
  BY Zenon DEF AuthorizationSucceeded
<1>2. q \in Projections
  BY Parts, Zenon
<1>3. m \in Projections /\ m.parked = q.parked
  <2>1. [q.registration EXCEPT !.phase = "Submitting"] \in Registrations
    BY Parts, ZenonT(60) DEF Registrations, Phases
  <2> QED
    BY <1>2, <2>1, Zenon DEF Projections
<1> HIDE DEF m, n
<1>4. "NotEligible" \in IdleStates /\ "Submitting" \in Working
  BY Zenon DEF IdleStates, Working
<1>5. q.parked.draft = None \/ q.parked.phase = "Submitted"
  BY <1>1, Zenon DEF Awaits, WellFormed, Waits, Unsent
<1>6. /\ EffectiveState(n) # "AwaitingAuthorization"
      /\ n.parked.draft = None \/ n.parked.phase = "Submitted"
  <2>1. CASE n = Unpark(q, "NotEligible")
    BY <1>4, <2>1, UnparkFields, Zenon
  <2>2. CASE n = SetEffectiveState(m, "Submitting")
    BY <1>3, <1>4, <1>5, <2>2, EffectiveFields, Zenon
  <2> QED
    BY <1>1, <2>1, <2>2, Zenon
<1>7. AuthorizationSucceeded(n, e) = n
  BY <1>6, Zenon DEF AuthorizationSucceeded, Awaits
<1>8. Match(n, e) = n
  BY <1>7, Matched, Zenon
<1>9. ~ParkedEvent(n, e) /\ ~SupersedesParked(n, e)
  BY <1>6, Zenon DEF ParkedEvent, ForParked, HasParked, SupersedesParked
<1> QED
  BY <1>8, <1>9, Refused, Zenon

\* A rejected draft is not rejected again.
LEMMA RejectedTwice ==
  ASSUME NEW q, WellFormed(q), NEW e, e.kind = "AuthorizationRejected"
  PROVE  Once(q, AuthorizationRejected(q, e), e)
<1> DEFINE n == AuthorizationRejected(q, e)
<1> SUFFICES ASSUME n # q PROVE Reduce(n, e) = n
  BY Zenon DEF Once
<1>1. n = Unpark(q, LatestEligibility(q))
  BY Zenon DEF AuthorizationRejected
<1> HIDE DEF n
<1>2. EffectiveState(n) = LatestEligibility(q) /\ n.parked.draft = None
  BY <1>1, EligibilityIdle, UnparkFields, Zenon
<1>3. EffectiveState(n) # "AwaitingAuthorization"
  BY <1>2, EligibilityIdle, Zenon DEF IdleStates
<1>4. Match(n, e) = n
  BY <1>3, Matched, Zenon DEF AuthorizationRejected, Awaits
<1>5. ~ParkedEvent(n, e) /\ ~SupersedesParked(n, e)
  BY <1>2, Zenon DEF ParkedEvent, ForParked, HasParked, SupersedesParked
<1> QED
  BY <1>4, <1>5, Refused, Zenon

\* What can still be cancelled is a draft that waits for its authorization.
LEMMA Cancellable ==
  ASSUME NEW q, WellFormed(q), NEW d, CanCancel(q), HasDraft(q, d)
  PROVE  EffectiveState(q) = "AwaitingAuthorization"
<1>1. EffectiveState(q) \in PreSubmission
  BY Zenon DEF CanCancel, EffectiveState, PreSubmission, None, Recoverable, RecoverableStates
<1>2. q.registration.draft # None /\ q.registration.tx = None
  BY Zenon DEF CanCancel, HasDraft, HasRegistration, HasSubmitted
<1>3. q.registration.phase # "Submitted"
  BY <1>2, Parts, Zenon DEF Sound, Sent
<1>4. EffectiveState(q) \notin IdleStates
  BY <1>2, <1>3, Zenon DEF WellFormed, Supports
<1> QED
  BY <1>1, <1>4, Zenon DEF PreSubmission, IdleStates

\* A draft is cancelled once.
LEMMA CancelTwice ==
  ASSUME NEW q, WellFormed(q), Live(q), NEW e, IsEvent(e), e.kind = "Cancel"
  PROVE  Once(q, Cancel(q, e), e)
<1> DEFINE n == Cancel(q, e)
           m == [q EXCEPT !.registration = NoRegistration]
<1> SUFFICES ASSUME n # q PROVE Reduce(n, e) = n
  BY Zenon DEF Once
<1>1. /\ CanCancel(q) /\ HasDraft(q, e.draft)
      /\ \/ n = Unpark(q, LatestEligibility(q))
         \/ n = SetState(m, "Cancelled")
  BY Zenon DEF Cancel
<1>2. WellFormed(n)
  BY CancelAdvances, Zenon DEF Advances
<1> HIDE DEF n
<1>3. CASE n = Unpark(q, LatestEligibility(q))
  <2>1. EffectiveState(n) = LatestEligibility(q) /\ n.parked.draft = None
    BY <1>3, EligibilityIdle, UnparkFields, Zenon
  <2>2. EffectiveState(n) # "AwaitingAuthorization"
    BY <2>1, EligibilityIdle, Zenon DEF IdleStates
  <2>3. ~(CanCancel(n) /\ HasDraft(n, e.draft))
    BY <1>2, <2>2, Cancellable, Zenon
  <2>4. Match(n, e) = n
    BY <2>3, Matched, Zenon DEF Cancel
  <2>5. ~ParkedEvent(n, e) /\ ~SupersedesParked(n, e)
    BY <2>1, Zenon DEF ParkedEvent, ForParked, HasParked, SupersedesParked
  <2> QED
    BY <2>4, <2>5, Refused, Zenon
<1>4. CASE n = SetState(m, "Cancelled")
  <2>1. q \in Projections /\ NoRegistration \in Registrations /\ "Cancelled" \in States
    BY Parts, NoRegistrationSound, Zenon DEF States
  <2>2. m \in Projections
    BY <2>1, Zenon DEF Projections
  <2> HIDE DEF m
  <2>3. n.state = "Cancelled"
    BY <1>4, <2>1, <2>2, StateFields, Zenon
  <2>4. Ignored(n, e)
    BY <2>3, Zenon DEF Ignored, ReplacesGeneration
  <2> QED
    BY <2>4, Zenon DEF Reduce
<1> QED
  BY <1>1, <1>3, <1>4, Zenon

\* A submission is accepted once.
LEMMA AcceptedTwice ==
  ASSUME NEW q, WellFormed(q), NEW e, IsEvent(e), e.kind = "SubmissionAccepted",
         ~ParkedEvent(q, e)
  PROVE  Once(q, SubmissionAccepted(q, e), e)
<1> DEFINE n == SubmissionAccepted(q, e)
           m == [q EXCEPT !.registration.phase = "Submitted", !.registration.tx = e.tx]
<1> SUFFICES ASSUME n # q PROVE Reduce(n, e) = n
  BY Zenon DEF Once
<1>1. n = SetEffectiveState(m, "Confirming") /\ "Confirming" \in Working
  BY Zenon DEF SubmissionAccepted, Working
<1>2. q \in Projections /\ e.tx \in Drafts
  BY Parts, Zenon DEF IsEvent, OfDraft
<1>3. m \in Projections /\ m.parked = q.parked
  <2>1. [q.registration EXCEPT !.phase = "Submitted", !.tx = e.tx] \in Registrations
    BY <1>2, Parts, Zenon DEF Registrations, Phases
  <2> QED
    BY <1>2, <2>1, Zenon DEF Projections
<1> HIDE DEF m, n
<1>4. EffectiveState(n) = "Confirming" /\ n.parked = q.parked
  BY <1>1, <1>3, EffectiveFields, Zenon
<1>5. Match(n, e) = n
  BY <1>4, Matched, Zenon DEF SubmissionAccepted
<1>6. ~ParkedEvent(n, e) /\ ~SupersedesParked(n, e)
  BY <1>4, Zenon DEF ParkedEvent, ForParked, HasParked, SupersedesParked
<1> QED
  BY <1>5, <1>6, Refused, Zenon

\* An event for the parked draft is taken in once, and says nothing about the
\* active one: a draft that is parked before its broadcast gave way to a
\* registration that is past its own.
LEMMA ParkedTwice ==
  ASSUME NEW q, WellFormed(q), q.identity # NoIdentity, NEW e, IsEvent(e), ParkedEvent(q, e)
  PROVE  Once(q, ReduceParked(q, e), e)
<1> DEFINE n == ReduceParked(q, e)
<1> SUFFICES Reduce(n, e) = n
  BY Zenon DEF Once
<1>1. /\ q.parked.draft # None /\ q.parked.draft = e.draft
      /\ q.parked.phase = IF e.kind = "SubmissionAccepted" THEN "Submitting" ELSE "Awaiting"
      /\ e.kind \in {"SubmissionAccepted", "AuthorizationSucceeded",
                    "AuthorizationRejected", "Cancel"}
  BY Zenon DEF ParkedEvent, ForParked, HasParked
<1>2. EffectiveState(q) \notin Unsent
  BY <1>1, Zenon DEF WellFormed, Waits
<1>3. q \in Projections /\ q.parked \in Registrations
  BY Parts, Zenon
<1>4. /\ n.state = q.state /\ n.resume = q.resume
      /\ \/ n.parked.draft = None
         \/ e.kind = "SubmissionAccepted" /\ n.parked.phase = "Submitted"
         \/ e.kind = "AuthorizationSucceeded" /\ n.parked.phase = "Submitting"
  <2>1. CASE e.kind = "SubmissionAccepted"
    <3>1. n = [q EXCEPT !.parked.phase = "Submitted", !.parked.tx = e.tx]
      BY <2>1, Zenon DEF ReduceParked
    <3> HIDE DEF n
    <3>2. n.state = q.state /\ n.resume = q.resume /\ n.parked.phase = "Submitted"
      BY <1>3, <3>1, Zenon DEF Projections, Registrations
    <3> QED
      BY <2>1, <3>2, Zenon
  <2>2. CASE e.kind = "AuthorizationSucceeded" /\ LatestEligibility(q) # "NotEligible"
    <3>1. n = [q EXCEPT !.parked.phase = "Submitting"]
      BY <2>2, Zenon DEF ReduceParked
    <3> HIDE DEF n
    <3>2. n.state = q.state /\ n.resume = q.resume /\ n.parked.phase = "Submitting"
      BY <1>3, <3>1, Zenon DEF Projections, Registrations
    <3> QED
      BY <2>2, <3>2, Zenon
  <2>3. CASE /\ e.kind # "SubmissionAccepted"
             /\ ~(e.kind = "AuthorizationSucceeded" /\ LatestEligibility(q) # "NotEligible")
    <3>1. n = [q EXCEPT !.parked = NoRegistration]
      BY <2>3, Zenon DEF ReduceParked
    <3> HIDE DEF n
    <3>2. n.state = q.state /\ n.resume = q.resume /\ n.parked = NoRegistration
      BY <1>3, <3>1, Zenon DEF Projections
    <3> QED
      BY <3>2, NoRegistrationSound, Zenon
  <2> QED
    BY <2>1, <2>2, <2>3, Zenon
<1>5. WellFormed(n)
  BY ParkedAdvances, Zenon DEF Advances
<1> HIDE DEF n
<1>6. EffectiveState(n) = EffectiveState(q)
  BY <1>4, Zenon DEF EffectiveState
<1>7. EffectiveState(n) # "AwaitingAuthorization" /\ EffectiveState(n) # "Submitting"
  BY <1>2, <1>6, Zenon DEF Unsent
<1>8. ~ParkedEvent(n, e) /\ ~SupersedesParked(n, e)
  BY <1>1, <1>4, Zenon DEF ParkedEvent, ForParked, HasParked, SupersedesParked
<1>9. Match(n, e) = n
  <2>1. CASE e.kind = "SubmissionAccepted"
    BY <1>7, <2>1, Matched, Zenon DEF SubmissionAccepted
  <2>2. CASE e.kind = "AuthorizationSucceeded"
    BY <1>7, <2>2, Matched, Zenon DEF AuthorizationSucceeded, Awaits
  <2>3. CASE e.kind = "AuthorizationRejected"
    BY <1>7, <2>3, Matched, Zenon DEF AuthorizationRejected, Awaits
  <2>4. CASE e.kind = "Cancel"
    <3>1. ~(CanCancel(n) /\ HasDraft(n, e.draft))
      BY <1>5, <1>7, Cancellable, Zenon
    <3> QED
      BY <2>4, <3>1, Matched, Zenon DEF Cancel
  <2> QED
    BY <1>1, <2>1, <2>2, <2>3, <2>4, Zenon
<1> QED
  BY <1>8, <1>9, Refused, Zenon

\* A registration is abandoned once, at the same observation.
LEMMA AbandonedTwice ==
  ASSUME NEW q, WellFormed(q), NEW e, IsEvent(e), e.kind = "DroppedRegistrationAbandoned"
  PROVE  Once(q, DroppedRegistrationAbandoned(q, e), e)
<1> DEFINE n == DroppedRegistrationAbandoned(q, e)
           r == [q.registration EXCEPT !.abandonment = e.after]
<1> SUFFICES ASSUME n # q PROVE Reduce(n, e) = n
  BY Zenon DEF Once
<1>1. q \in Projections /\ q.registration \in Registrations /\ e.after \in Nat
  BY Parts, Zenon DEF IsEvent
<1>2. n = [q EXCEPT !.registration.abandonment = e.after]
  BY Zenon DEF DroppedRegistrationAbandoned
<1> HIDE DEF n
<1>3. n \in Projections /\ n.registration \in Registrations
      /\ n.registration.abandonment = e.after
  <2>1. r \in Registrations /\ r.abandonment = e.after
    BY <1>1, Zenon DEF Registrations
  <2>2. n = [q EXCEPT !.registration = r]
    BY <1>1, <1>2, Zenon DEF Projections
  <2> HIDE DEF r
  <2> QED
    BY <1>1, <2>1, <2>2, Zenon DEF Projections
<1>4. [n EXCEPT !.registration.abandonment = e.after] = n
  <2>1. [n.registration EXCEPT !.abandonment = e.after] = n.registration
    BY <1>3, Zenon DEF Registrations
  <2> QED
    BY <1>3, <2>1, Zenon DEF Projections
<1>5. DroppedRegistrationAbandoned(n, e) = n
  BY <1>4, Zenon DEF DroppedRegistrationAbandoned
<1>6. Match(n, e) = n
  BY <1>5, Matched, Zenon
<1> QED
  BY <1>6, PlainRefused, Zenon

\* A superseded projection is retired, and what is retired hears nothing.
LEMMA SupersededTwice ==
  ASSUME NEW q, WellFormed(q), q.identity # NoIdentity, NEW e, e.kind = "Superseded"
  PROVE  Once(q, Superseded(q), e)
<1> DEFINE n == Superseded(q)
           m == [q EXCEPT !.registration = NoRegistration, !.parked = NoRegistration]
<1> SUFFICES Reduce(n, e) = n
  BY Zenon DEF Once
<1>1. n = SetState(m, "Unavailable") /\ "Unavailable" \in States
  BY Zenon DEF Superseded, States
<1>2. m \in Projections /\ m.identity = q.identity
  <2>1. Dressed(q, m, NoRegistration, NoRegistration)
    BY Parts, NoRegistrationSound, PlaceDressed, Zenon
  <2> QED
    BY <2>1, Zenon DEF Dressed
<1> HIDE DEF m, n
<1>3. n.state = "Unavailable" /\ n.identity # NoIdentity
  BY <1>1, <1>2, StateFields, Zenon
<1>4. Ignored(n, e)
  BY <1>3, Zenon DEF Ignored, ReplacesGeneration
<1> QED
  BY <1>4, Zenon DEF Reduce

\* A state is set, or left, and the registrations stay.
LEMMA StaysDressed ==
  ASSUME NEW m \in Projections, NEW n,
         n = m \/ \E s \in Working : n = SetEffectiveState(m, s)
  PROVE  n.registration = m.registration /\ n.parked = m.parked
<1>1. ASSUME NEW s \in Working
      PROVE  /\ SetEffectiveState(m, s).registration = m.registration
             /\ SetEffectiveState(m, s).parked = m.parked
  BY <1>1, EffectiveFields, Zenon
<1>2. CASE n = m
  BY <1>2, Zenon
<1>3. ASSUME NEW s \in Working, n = SetEffectiveState(m, s)
      PROVE  n.registration = m.registration /\ n.parked = m.parked
  BY <1>1, <1>3, Zenon
<1> QED
  BY <1>2, <1>3, Zenon

\* Finality at one revision is observed once.
LEMMA FinalitySettled ==
  ASSUME NEW f \in Projections, NEW e, IsEvent(e), e.kind = "FinalityObserved"
  PROVE  FinalityObserved(FinalityObserved(f, e), e) = FinalityObserved(f, e)
<1> DEFINE v == e.revision
           r == Finalized(f.registration, v)
           m == [f EXCEPT !.registration = r, !.parked = f.parked]
           n == FinalityObserved(f, e)
           A == /\ Observes(f, e) /\ v > f.registration.finality
                /\ v > f.registration.abandonment
                /\ EffectiveState(f) \notin IdleStates \/ v > f.registration.reconciliation
<1> SUFFICES FinalityObserved(n, e) = n
  OBVIOUS
<1>1. v \in Nat /\ 0 \in Nat
  BY Zenon DEF IsEvent, Unrevised
<1>2. f.registration \in Registrations /\ f.parked \in Registrations
  BY ProjectionFields, Zenon
<1>3. r \in Registrations /\ r.finality = v
  <2>1. Biggest(f.registration.observation, v) \in Nat
    BY <1>1, <1>2, RegistrationFields, BiggestFacts, Zenon
  <2> QED
    BY <1>1, <1>2, <2>1, Zenon DEF Registrations, Finalized
<1>4. [f EXCEPT !.registration.abandonment = 0, !.registration.finality = v,
                !.registration.observation = Biggest(@, v)] = m
  BY <1>1, FinalizedNext, Zenon
<1>5. Dressed(f, m, r, f.parked)
  BY <1>2, <1>3, PlaceDressed, Zenon
<1> HIDE DEF m, r
<1>6. CASE A
  <2>1. n = m \/ n = SetEffectiveState(m, "Ready") \/ n = SetEffectiveState(m, "Reconciling")
    BY <1>4, <1>6, SMT DEF FinalityObserved
  <2>2. m \in Projections /\ m.registration = r /\ {"Ready", "Reconciling"} \subseteq Working
    BY <1>5, Zenon DEF Dressed, Working
  <2> HIDE DEF n
  <2>3. n.registration = r
    BY <2>1, <2>2, StaysDressed, Zenon
  <2>4. ~(v > n.registration.finality)
    BY <1>1, <1>3, <2>3, SMT
  <2> QED
    BY <2>4, Zenon DEF FinalityObserved
<1>7. CASE ~A
  <2>1. n = f
    BY <1>7, Zenon DEF FinalityObserved
  <2> HIDE DEF n
  <2> QED
    BY <2>1, Zenon DEF n
<1> QED
  BY <1>6, <1>7, Zenon

\* A verdict at one revision is taken in once.
LEMMA ReconciledSettled ==
  ASSUME NEW f \in Projections, NEW e, IsEvent(e), e.kind = "RegistrationReconciled"
  PROVE  RegistrationReconciled(RegistrationReconciled(f, e), e) = RegistrationReconciled(f, e)
<1> DEFINE v == e.revision
           b == (e.verdict = "Included")
           r == Reconciled(f.registration, v, b)
           m == [f EXCEPT !.registration = r, !.parked = f.parked]
           n == RegistrationReconciled(f, e)
           A == /\ Observes(f, e) /\ v > f.registration.reconciliation
                /\ v > f.registration.abandonment
                /\ e.verdict # "Dropped" \/ v >= f.registration.finality
<1> SUFFICES RegistrationReconciled(n, e) = n
  OBVIOUS
<1>1. v \in Nat /\ 0 \in Nat /\ b \in BOOLEAN
  BY Zenon DEF IsEvent, Unrevised
<1> HIDE DEF b
<1>2. f.registration \in Registrations /\ f.parked \in Registrations
  BY ProjectionFields, Zenon
<1>3. r \in Registrations /\ r.reconciliation = v
  <2>1. Biggest(f.registration.observation, v) \in Nat
    BY <1>1, <1>2, RegistrationFields, BiggestFacts, Zenon
  <2> QED
    BY <1>1, <1>2, <2>1, Zenon DEF Registrations, Reconciled
<1>4. [f EXCEPT !.registration.abandonment = 0, !.registration.reconciliation = v,
                !.registration.observation = Biggest(@, v), !.registration.included = b] = m
  BY <1>1, <1>2, Zenon DEF Projections, Registrations, Reconciled
<1>5. Dressed(f, m, r, f.parked)
  BY <1>2, <1>3, PlaceDressed, Zenon
<1> HIDE DEF m, r
<1>6. CASE A
  <2>1. \E s \in IdleStates \cup {"Ready", "Reconciling", "Confirming"} :
          n = SetEffectiveState(m, s)
    BY <1>4, <1>6, EligibilityIdle, SMT DEF RegistrationReconciled, b
  <2>2. /\ m \in Projections /\ m.registration = r
        /\ IdleStates \cup {"Ready", "Reconciling", "Confirming"} \subseteq Working
    BY <1>5, Zenon DEF Dressed, Working, IdleStates
  <2> HIDE DEF n
  <2>3. n.registration = r
    BY <2>1, <2>2, StaysDressed, Zenon
  <2>4. ~(v > n.registration.reconciliation)
    BY <1>1, <1>3, <2>3, SMT
  <2> QED
    BY <2>4, Zenon DEF RegistrationReconciled
<1>7. CASE ~A
  <2>1. n = f
    BY <1>7, Zenon DEF RegistrationReconciled
  <2> HIDE DEF n
  <2> QED
    BY <2>1, Zenon DEF n
<1> QED
  BY <1>6, <1>7, Zenon

\* An observation that was taken in is not newer than what is active, so it
\* brings nothing back from its parking place.
LEMMA SeenStays ==
  ASSUME NEW q, NEW n, NEW e, IsEvent(e), Moved(q, n, e.revision),
         e.kind \in {"FinalityObserved", "RegistrationReconciled"}
  PROVE  ~SupersedesParked(n, e) /\ ~ParkedEvent(n, e)
<1>1. e.revision \in Nat
  BY Zenon DEF IsEvent, Unrevised
<1>2. n.registration.observation \in Nat /\ e.revision <= n.registration.observation
  BY RegistrationFields, Zenon DEF Moved, Reaches, Sound
<1>3. ~(e.revision > n.registration.observation)
  BY <1>1, <1>2, SMT
<1> QED
  BY <1>3, Zenon DEF SupersedesParked, ParkedEvent

\* Finality of the active or of the parked transaction is observed once.
LEMMA FinalityTwice ==
  ASSUME NEW q, WellFormed(q), Live(q), NEW e, IsEvent(e), e.kind = "FinalityObserved"
  PROVE  Once(q, FinalityObserved(Facing(q, e), e), e)
<1> DEFINE f == Facing(q, e)
           n == FinalityObserved(f, e)
<1> SUFFICES ASSUME n # q PROVE Reduce(n, e) = n
  BY Zenon DEF Once
<1>1. f \in Projections /\ Moved(f, n, e.revision)
  <2>1. CASE SupersedesParked(q, e)
    <3>1. f = SwapParked(q)
      BY <2>1, Zenon DEF Facing
    <3>2. /\ Observing(f) /\ EffectiveState(f) \in IdleStates
          /\ f.registration = q.parked /\ f \in Projections
      BY <3>1, Swapped, Zenon DEF Observing
    <3> HIDE DEF f
    <3>3. /\ q.parked.tx # None /\ e.tx = q.parked.tx
          /\ e.revision > q.parked.finality
          /\ e.revision > q.parked.reconciliation /\ e.revision > q.parked.abandonment
      BY <2>1, Zenon DEF SupersedesParked
    <3>4. Observes(f, e)
      BY <3>2, <3>3, Zenon DEF Observes, HasTransaction, ObservableStates
    <3> QED
      BY <3>2, <3>3, <3>4, FinalityMoves, Zenon
  <2>2. CASE ~SupersedesParked(q, e)
    <3>1. f = q
      BY <2>2, Zenon DEF Facing
    <3>2. q \in Projections /\ Observing(q)
      BY Parts, Zenon DEF Observing, WellFormed
    <3>3. /\ Observes(q, e) /\ e.revision > q.registration.finality
          /\ e.revision > q.registration.abandonment
          /\ \/ EffectiveState(q) \notin IdleStates
             \/ e.revision > q.registration.reconciliation
      BY <3>1, Zenon DEF FinalityObserved
    <3> QED
      BY <3>1, <3>2, <3>3, FinalityMoves, Zenon
  <2> QED
    BY <2>1, <2>2, Zenon
<1>2. FinalityObserved(n, e) = n
  BY <1>1, FinalitySettled, Zenon
<1> HIDE DEF f, n
<1>3. Match(n, e) = n
  BY <1>2, Matched, Zenon
<1>4. ~SupersedesParked(n, e) /\ ~ParkedEvent(n, e)
  BY <1>1, SeenStays, Zenon
<1> QED
  BY <1>3, <1>4, Refused, Zenon

\* A verdict on the active or on the parked transaction is taken in once.
LEMMA ReconciledTwice ==
  ASSUME NEW q, WellFormed(q), Live(q), NEW e, IsEvent(e), e.kind = "RegistrationReconciled"
  PROVE  Once(q, RegistrationReconciled(Facing(q, e), e), e)
<1> DEFINE f == Facing(q, e)
           n == RegistrationReconciled(f, e)
<1> SUFFICES ASSUME n # q PROVE Reduce(n, e) = n
  BY Zenon DEF Once
<1>1. f \in Projections /\ Moved(f, n, e.revision)
  <2>1. CASE SupersedesParked(q, e)
    <3>1. f = SwapParked(q)
      BY <2>1, Zenon DEF Facing
    <3>2. /\ Observing(f) /\ EffectiveState(f) \in IdleStates
          /\ f.registration = q.parked /\ f \in Projections
      BY <3>1, Swapped, Zenon DEF Observing
    <3> HIDE DEF f
    <3>3. /\ q.parked.tx # None /\ e.tx = q.parked.tx
          /\ e.revision > q.parked.reconciliation /\ e.revision > q.parked.abandonment
          /\ e.verdict # "Dropped" \/ e.revision >= q.parked.finality
      BY <2>1, Zenon DEF SupersedesParked
    <3>4. Observes(f, e)
      BY <3>2, <3>3, Zenon DEF Observes, HasTransaction, ObservableStates
    <3> QED
      BY <3>2, <3>3, <3>4, ReconciledMoves, Zenon
  <2>2. CASE ~SupersedesParked(q, e)
    <3>1. f = q
      BY <2>2, Zenon DEF Facing
    <3>2. q \in Projections /\ Observing(q)
      BY Parts, Zenon DEF Observing, WellFormed
    <3>3. /\ Observes(q, e) /\ e.revision > q.registration.reconciliation
          /\ e.revision > q.registration.abandonment
          /\ e.verdict # "Dropped" \/ e.revision >= q.registration.finality
      BY <3>1, Zenon DEF RegistrationReconciled
    <3> QED
      BY <3>1, <3>2, <3>3, ReconciledMoves, Zenon
  <2> QED
    BY <2>1, <2>2, Zenon
<1>2. RegistrationReconciled(n, e) = n
  BY <1>1, ReconciledSettled, Zenon
<1> HIDE DEF f, n
<1>3. Match(n, e) = n
  BY <1>2, Matched, Zenon
<1>4. ~SupersedesParked(n, e) /\ ~ParkedEvent(n, e)
  BY <1>1, SeenStays, Zenon
<1> QED
  BY <1>3, <1>4, Refused, Zenon

\* A reading of the DUST is taken in once.
LEMMA RefreshedTwice ==
  ASSUME NEW q, WellFormed(q), NEW e, IsEvent(e), e.kind = "DustRefreshed",
         ~SupersedesParked(q, e)
  PROVE  Once(q, DustRefreshed(q, e), e)
<1> DEFINE r == Refreshed(q.registration, e.revision, e.after, e.ready)
           m == [q EXCEPT !.registration = r, !.parked = q.parked]
           n == DustRefreshed(q, e)
<1> SUFFICES ASSUME n # q PROVE Reduce(n, e) = n
  BY Zenon DEF Once
<1>1. e.revision \in Nat /\ e.after \in Nat /\ e.ready \in BOOLEAN
  BY Zenon DEF IsEvent, Unrevised
<1>2. q \in Projections /\ q.registration \in Registrations /\ q.parked \in Registrations
  BY Parts, Zenon
<1>3. r \in Registrations /\ r.dust = e.revision /\ r.observation = q.registration.observation
  BY <1>1, <1>2, Zenon DEF Registrations, Refreshed
<1>4. [q EXCEPT !.registration.dust = e.revision, !.registration.dustObservation = e.after,
                !.registration.dustReady = e.ready] = m
  BY <1>2, Zenon DEF Projections, Registrations, Refreshed
<1>5. Dressed(q, m, r, q.parked)
  BY <1>2, <1>3, PlaceDressed, Zenon
<1> HIDE DEF m, r
<1>6. n = m \/ n = SetEffectiveState(m, "Ready") \/ n = SetEffectiveState(m, "Reconciling")
  BY <1>4, SMT DEF DustRefreshed
<1>7. /\ m \in Projections /\ m.registration = r /\ m.parked = q.parked
      /\ {"Ready", "Reconciling"} \subseteq Working
  BY <1>5, Zenon DEF Dressed, Working
<1> HIDE DEF n
<1>8. n.registration = r /\ n.parked = q.parked
  BY <1>6, <1>7, StaysDressed, Zenon
<1>9. ~(e.revision > n.registration.dust)
  BY <1>1, <1>3, <1>8, SMT
<1>10. Match(n, e) = n
  BY <1>9, Matched, Zenon DEF DustRefreshed
<1>11. ~SupersedesParked(n, e) /\ ~ParkedEvent(n, e)
  BY <1>3, <1>8, Zenon DEF SupersedesParked, HasParked, ParkedEvent
<1> QED
  BY <1>10, <1>11, Refused, Zenon

\* An eligibility report that was taken in is the newest of its identity.
LEMMA EligibilityTwice ==
  ASSUME NEW q, WellFormed(q), NEW e, IsEvent(e), e.kind = "Eligibility", ~Ignored(q, e)
  PROVE  Once(q, Eligibility(q, e), e)
<1> DEFINE c == [revision |-> e.revision, eligible |-> e.eligible, identity |-> e.identity]
           n == Eligibility(q, e)
<1> SUFFICES ASSUME n # q PROVE Reduce(n, e) = n
  BY Zenon DEF Once
<1>1. e.identity \in Identities /\ e.identity # NoIdentity /\ e.revision \in Nat
      /\ e.eligible \in BOOLEAN
  BY Absent, Zenon DEF IsEvent, Unrevised
<1>2. c \in Checkpoints /\ c.revision = e.revision
  BY <1>1, Zenon DEF Checkpoints
<1>3. n.identity = e.identity /\ n.checkpoint = c
  <2>1. CASE q.identity = NoIdentity \/ ReplacesGeneration(q, e)
    <3> DEFINE m == [NoProjection EXCEPT !.identity = e.identity,
                        !.registration = NoRegistration, !.checkpoint = c]
    <3>1. (IF ReplacesGeneration(q, e) THEN NoProjection ELSE q) = NoProjection
      BY <2>1, Parts, Zenon DEF Identified
    <3>2. NoProjection.identity = NoIdentity
      BY NoProjectionFacts, Zenon
    <3>3. n = SetState(m, EligibilityState(e.eligible))
      <4>1. ASSUME NEW f, f = NoProjection
            PROVE  (CASE f.identity = NoIdentity ->
                          SetState([f EXCEPT !.identity = e.identity,
                                             !.registration = NoRegistration, !.checkpoint = c],
                                   EligibilityState(e.eligible))
                      [] f.identity # NoIdentity /\ e.revision <= q.checkpoint.revision -> q
                      [] OTHER -> ApplyEligibility([f EXCEPT !.checkpoint = c], e.eligible))
                   = SetState(m, EligibilityState(e.eligible))
        BY <3>2, <4>1, Zenon
      <4> QED
        BY <3>1, <4>1, Zenon DEF Eligibility
    <3>4. m \in Projections /\ m.identity = e.identity /\ m.checkpoint = c
      BY <1>1, <1>2, NoProjectionFacts, NoRegistrationSound, Zenon DEF Projections
    <3>5. EligibilityState(e.eligible) \in States
      BY Zenon DEF EligibilityState, States
    <3> HIDE DEF m, c, n
    <3> QED
      BY <3>3, <3>4, <3>5, StateFields, Zenon
  <2>2. CASE ~(q.identity = NoIdentity \/ ReplacesGeneration(q, e))
    <3> DEFINE m == [q EXCEPT !.checkpoint = c]
    <3>1. e.identity = q.identity
      BY <2>2, Zenon DEF Ignored
    <3>2. n = ApplyEligibility(m, e.eligible)
      BY <2>2, SMT DEF Eligibility
    <3>3. q \in Projections
      BY Parts, Zenon
    <3>4. m \in Projections /\ m.identity = q.identity /\ m.checkpoint = c
      BY <1>2, <3>3, Zenon DEF Projections
    <3> HIDE DEF m, c, n
    <3>5. \E t : n = [m EXCEPT !.resume = t] \/ n = [m EXCEPT !.state = t]
      BY <3>2, Zenon DEF ApplyEligibility
    <3>6. n.identity = m.identity /\ n.checkpoint = m.checkpoint
      BY <3>4, <3>5, Zenon DEF Projections
    <3> QED
      BY <3>1, <3>4, <3>6, Zenon
  <2> QED
    BY <2>1, <2>2, Zenon
<1> HIDE DEF c, n
<1>4. ~ReplacesGeneration(n, e) /\ n.identity # NoIdentity
  BY <1>1, <1>3, Zenon DEF ReplacesGeneration
<1>5. e.revision <= n.checkpoint.revision
  BY <1>1, <1>2, <1>3, NatOrder, Zenon
<1>6. Eligibility(n, e) = n
  BY <1>4, <1>5, SMT DEF Eligibility
<1>7. Match(n, e) = n
  BY <1>6, Matched, Zenon
<1> QED
  BY <1>7, PlainRefused, Zenon

\* resume_recoverable_state leaves the recovery revision alone.
LEMMA ResumedRecovery ==
  ASSUME NEW q \in Projections
  PROVE  ResumeRecoverable(q).recovery = q.recovery
<1>1. PICK s, r : ResumeRecoverable(q) = [q EXCEPT !.state = s, !.resume = None,
                                                   !.registration = r]
  BY Zenon DEF ResumeRecoverable
<1> QED
  BY <1>1, Zenon DEF Projections

\* A retry that waited only moves the recovery revision forward.
LEMMA SettledRecovery ==
  ASSUME NEW q \in Projections
  PROVE  q.recovery <= SettlePendingRetry(q).recovery
<1> DEFINE n == SettlePendingRetry(q)
           c == [q EXCEPT !.pendingRetry = 0]
           m == [q EXCEPT !.recovery = q.pendingRetry, !.pendingRetry = 0]
<1>1. q.pendingRetry \in Nat /\ 0 \in Nat /\ q.recovery \in Nat
  BY ProjectionFields, Zenon
<1>2. \/ n = q \/ n = c
      \/ q.pendingRetry > q.recovery /\ n = ResumeRecoverable(m)
  BY SMT DEF SettlePendingRetry
<1>3. c.recovery = q.recovery /\ m \in Projections /\ m.recovery = q.pendingRetry
  BY <1>1, Zenon DEF Projections
<1> HIDE DEF c, m
<1>4. ResumeRecoverable(m).recovery = q.pendingRetry
  BY <1>3, ResumedRecovery, Zenon
<1> SUFFICES q.recovery <= n.recovery
  OBVIOUS
<1> HIDE DEF n
<1>5. n.recovery = q.recovery \/ (q.pendingRetry > q.recovery /\ n.recovery = q.pendingRetry)
  BY <1>2, <1>3, <1>4, Zenon
<1> QED
  BY <1>1, <1>5, SMT

\* A retry that waits is counted once.
LEMMA WaitingTwice ==
  ASSUME NEW q \in Projections, NEW v \in Nat
  PROVE  LET n == [q EXCEPT !.pendingRetry = Biggest(q.pendingRetry, v)]
         IN  [n EXCEPT !.pendingRetry = Biggest(n.pendingRetry, v)] = n
<1> DEFINE w == Biggest(q.pendingRetry, v)
           n == [q EXCEPT !.pendingRetry = w]
<1>1. q.pendingRetry \in Nat
  BY ProjectionFields, Zenon
<1>2. w \in Nat /\ Biggest(w, v) = w
  BY <1>1, SMT DEF Biggest
<1> HIDE DEF w
<1>3. n \in Projections /\ n.pendingRetry = w
  BY <1>2, Zenon DEF Projections
<1> HIDE DEF n
<1>4. [n EXCEPT !.pendingRetry = w] = n
  BY <1>3, Zenon DEF Projections
<1>5. [n EXCEPT !.pendingRetry = Biggest(n.pendingRetry, v)] = n
  BY <1>2, <1>3, <1>4, Zenon
<1> QED
  BY <1>5, Zenon DEF n, w

\* Failures, resumptions and retries are taken in once: the recovery revision
\* has reached them, or the retry waits for its state.
LEMMA RecoverTwice ==
  ASSUME NEW q, WellFormed(q), Live(q), NEW e, IsEvent(e), e.kind \in RecoveryKinds
  PROVE  Once(q, Recover(q, e), e)
<1> DEFINE n == Recover(q, e)
           m == [q EXCEPT !.recovery = e.revision]
           w == [q EXCEPT !.pendingRetry = Biggest(q.pendingRetry, e.revision)]
           x == IF Recoverable(q.state) THEN ResumeRecoverable(m) ELSE m
           y == EnterRecoverable(m, q, e.kind)
<1> SUFFICES ASSUME n # q PROVE Reduce(n, e) = n
  BY Zenon DEF Once
<1>1. e.revision \in Nat
  BY Zenon DEF IsEvent, Unrevised, RecoveryKinds, RecoverableStates
<1>2. q \in Projections /\ q.pendingRetry \in Nat /\ q.recovery \in Nat
  BY Parts, ProjectionFields, Zenon
<1>3. m \in Projections /\ m.recovery = e.revision
      /\ Dressed(q, m, q.registration, q.parked)
  <2>1. m \in Projections /\ m.recovery = e.revision
    BY <1>1, <1>2, Zenon DEF Projections
  <2>2. Dressed(q, m, q.registration, q.parked)
    BY <1>1, <1>2, CountersDressed, Zenon
  <2> QED
    BY <2>1, <2>2, Zenon
<1>4. ~(e.revision <= q.recovery)
  <2>1. SUFFICES ASSUME e.revision <= q.recovery PROVE n = q
    BY Zenon
  <2>2. ~(e.revision > q.recovery)
    BY <1>1, <1>2, <2>1, SMT
  <2> QED
    BY <2>1, <2>2, SMT DEF Recover
<1>5. e.revision > q.recovery
  BY <1>1, <1>2, <1>4, SMT
<1>6. e.kind \in RecoverableStates \/ e.kind \in {"Resumed", "Retry"}
  BY Zenon DEF RecoveryKinds
<1>7. \/ e.kind = "Retry" /\ Recoverable(q.state) /\ n = x
      \/ e.kind = "Retry" /\ ~Recoverable(q.state) /\ n = w
      \/ n = SettlePendingRetry(x)
      \/ e.kind \in RecoverableStates /\ n = SettlePendingRetry(y)
  <2>1. w = [q EXCEPT !.pendingRetry = Biggest(@, e.revision)]
    BY Zenon
  <2>2. CASE e.kind = "Retry"
    BY <1>4, <1>5, <2>2, Zenon DEF Recover
  <2>3. CASE e.kind = "Resumed"
    BY <1>4, <1>5, <2>3, Zenon DEF Recover
  <2>4. CASE e.kind \notin {"Resumed", "Retry"}
    BY <1>4, <1>5, <1>6, <2>4, Zenon DEF Recover
  <2> QED
    BY <2>2, <2>3, <2>4, Zenon
<1>8. x \in Projections /\ x.recovery = e.revision
  <2>1. Resettled(q, x)
    BY <1>3, Redressed, Resumes, Zenon
  <2>2. x \in Projections
    BY <2>1, Zenon DEF Resettled, Reaches
  <2>3. x.recovery = e.revision
    BY <1>3, ResumedRecovery, Zenon
  <2> QED
    BY <2>2, <2>3, Zenon
<1>9. ASSUME e.kind \in RecoverableStates
      PROVE  y \in Projections /\ y.recovery = e.revision
  <2>1. Resettled(q, y)
    BY <1>3, <1>9, Enters, Zenon
  <2>2. y \in Projections
    BY <2>1, Zenon DEF Resettled, Reaches
  <2>3. PICK t : y = [m EXCEPT !.resume = t, !.state = e.kind]
    BY Zenon DEF EnterRecoverable
  <2> HIDE DEF y, m
  <2>4. y.recovery = m.recovery
    BY <1>3, <2>3, Zenon DEF Projections
  <2> QED
    BY <1>3, <2>2, <2>4, Zenon
<1> HIDE DEF n, m, x, y
<1>10. CASE n = w /\ e.kind = "Retry" /\ ~Recoverable(q.state)
  <2>1. w.state = q.state /\ w.recovery = q.recovery
    BY <1>2, Zenon DEF Projections
  <2>2. [w EXCEPT !.pendingRetry = Biggest(w.pendingRetry, e.revision)] = w
    BY <1>1, <1>2, WaitingTwice, Zenon
  <2>3. [w EXCEPT !.pendingRetry = Biggest(@, e.revision)] = w
    BY <2>2, Zenon
  <2> HIDE DEF w
  <2>4. e.revision > w.recovery /\ ~(e.revision <= w.recovery) /\ ~Recoverable(w.state)
    BY <1>4, <1>5, <1>10, <2>1, Zenon
  <2>5. Recover(w, e) = w
    BY <1>10, <2>3, <2>4, Zenon DEF Recover
  <2>6. e.kind = "Retry" /\ Match(w, e) = w
    BY <1>10, <2>5, Matched, Zenon
  <2>7. Reduce(w, e) = w
    BY <2>6, PlainRefused, Zenon
  <2> QED
    BY <1>10, <2>7, Zenon
<1>11. CASE ~(n = w /\ e.kind = "Retry" /\ ~Recoverable(q.state))
  <2>1. e.revision <= e.revision
    BY <1>1, NatOrder, Zenon
  <2>2. e.revision <= n.recovery
    BY <1>7, <1>8, <1>9, <1>11, <2>1, SettledRecovery, Zenon
  <2>3. Recover(n, e) = n
    <3>1. n.recovery \in Nat
      BY RecoverAdvances, ProjectionFields, Zenon DEF Advances, WellFormed, n
    <3>2. ~(e.revision > n.recovery)
      BY <1>1, <2>2, <3>1, SMT
    <3> QED
      BY <2>2, <3>2, SMT DEF Recover
  <2>4. Match(n, e) = n
    BY <2>3, Matched, Zenon
  <2>5. e.kind \notin {"FinalityObserved", "RegistrationReconciled", "DustRefreshed",
                      "SubmissionAccepted", "AuthorizationSucceeded",
                      "AuthorizationRejected", "Cancel"}
    BY Zenon DEF RecoveryKinds, RecoverableStates
  <2> QED
    BY <2>4, <2>5, PlainRefused, Zenon
<1> QED
  BY <1>10, <1>11, Zenon

\* "Duplicate ... events are no-ops": the reducer applied twice to the same
\* event is the reducer applied once.
THEOREM ReduceTwice ==
  ASSUME NEW q, WellFormed(q), NEW e, IsEvent(e),
         e.kind = "DustRefreshed" => ~SupersedesParked(q, e)
  PROVE  Reduce(Reduce(q, e), e) = Reduce(q, e)
<1> DEFINE n == Reduce(q, e)
<1>0. Once(q, n, e)
  <2>1. CASE Ignored(q, e)
    <3>1. n = q
      BY <2>1, Zenon DEF Reduce
    <3> QED
      BY <3>1, Zenon DEF Once
  <2>2. CASE ~Ignored(q, e) /\ ParkedEvent(q, e)
    <3>1. n = ReduceParked(q, e)
      BY <2>2, Zenon DEF Reduce
    <3>2. q.identity # NoIdentity
      BY <2>2, NotIgnored, Zenon DEF ParkedEvent
    <3> HIDE DEF n
    <3> QED
      BY <2>2, <3>1, <3>2, ParkedTwice, ZenonT(60)
  <2>3. CASE ~Ignored(q, e) /\ ~ParkedEvent(q, e)
    <3>1. n = Match(Facing(q, e), e)
      BY <2>3, Zenon DEF Reduce, Facing
    <3>2. e.kind # "Eligibility" => q.identity # NoIdentity
      BY <2>3, NotIgnored, Zenon
    <3>3. e.kind \notin {"Eligibility", "Superseded"} => Live(q)
      BY <2>3, NotIgnored, Zenon
    <3>4. e.kind \notin {"FinalityObserved", "RegistrationReconciled"} => Facing(q, e) = q
      BY FacingItself, Zenon
    <3> HIDE DEF n
    <3>5. CASE e.kind = "Eligibility"
      BY <2>3, <3>1, <3>4, <3>5, Matched, EligibilityTwice, Zenon
    <3>6. CASE e.kind = "RegistrationAlreadyCurrent"
      BY <3>1, <3>4, <3>6, Matched, AlreadyCurrentTwice, Zenon
    <3>7. CASE e.kind = "AuthorizationRequested"
      BY <3>1, <3>4, <3>7, Matched, RequestedTwice, Zenon
    <3>8. CASE e.kind = "AuthorizationSucceeded"
      BY <3>1, <3>4, <3>8, Matched, SucceededTwice, Zenon
    <3>9. CASE e.kind = "AuthorizationRejected"
      BY <3>1, <3>4, <3>9, Matched, RejectedTwice, Zenon
    <3>10. CASE e.kind = "SubmissionAccepted"
      BY <2>3, <3>1, <3>4, <3>10, Matched, AcceptedTwice, Zenon
    <3>11. CASE e.kind = "FinalityObserved"
      BY <3>1, <3>3, <3>11, Matched, FinalityTwice, Zenon
    <3>12. CASE e.kind = "RegistrationReconciled"
      BY <3>1, <3>3, <3>12, Matched, ReconciledTwice, Zenon
    <3>13. CASE e.kind = "DustRefreshed"
      BY <3>1, <3>4, <3>13, Matched, RefreshedTwice, Zenon
    <3>14. CASE e.kind = "DroppedRegistrationAbandoned"
      BY <3>1, <3>4, <3>14, Matched, AbandonedTwice, Zenon
    <3>15. CASE e.kind = "Cancel"
      BY <3>1, <3>3, <3>4, <3>15, Matched, CancelTwice, Zenon
    <3>16. CASE e.kind = "Superseded"
      BY <3>1, <3>2, <3>4, <3>16, Matched, SupersededTwice, Zenon
    <3>17. CASE e.kind \in RecoveryKinds
      <4>1. e.kind \notin {"Eligibility", "Superseded", "FinalityObserved",
                           "RegistrationReconciled"}
        BY <3>17, Zenon DEF RecoveryKinds, RecoverableStates
      <4> QED
        BY <3>1, <3>3, <3>4, <3>17, <4>1, Matched, RecoverTwice, ZenonT(60)
    <3>18. e.kind \in Kinds
      BY Zenon DEF IsEvent
    <3> QED
      BY <3>5, <3>6, <3>7, <3>8, <3>9, <3>10, <3>11, <3>12, <3>13, <3>14, <3>15, <3>16,
         <3>17, <3>18, Zenon DEF Kinds
  <2> QED
    BY <2>1, <2>2, <2>3, Zenon
<1> SUFFICES Reduce(n, e) = n
  OBVIOUS
<1>1. CASE n = q
  <2>1. n = Reduce(q, e)
    BY Zenon
  <2> HIDE DEF n
  <2> QED
    BY <1>1, <2>1, Zenon
<1>2. CASE n # q
  <2> HIDE DEF n
  <2> QED
    BY <1>0, <1>2, Zenon DEF Once
<1> QED
  BY <1>1, <1>2, Zenon

-----------------------------------------------------------------------------
(* The theorems.                                                           *)

\* The reducer, the coordinator and the recovery record keep every projection
\* well formed, whatever events arrive, in whatever order, late or twice.
THEOREM EventsInvariant == Spec => []IInv
<1>1. Init => IInv
  BY InitInv
<1>2. IInv /\ [Next]_vars => IInv'
  BY StepInv
<1> QED
  BY <1>1, <1>2, PTL DEF Spec

\* The projection keeps its type, and a recoverable state remembers the
\* work it interrupted.
THEOREM TypeCorrect == Spec => []TypeOK
<1>1. IInv => TypeOK
  <2> SUFFICES ASSUME IInv PROVE TypeOK
    OBVIOUS
  <2>1. p \in Projections /\ Resumable(p)
        /\ p.registration \in Registrations /\ p.parked \in Registrations
    BY Parts, Zenon DEF IInv
  <2>2. \A s \in Working : s \in States \ RecoverableStates
    BY WorkingStates, Zenon DEF Recoverable
  <2> QED
    BY <2>1, <2>2, ProjectionFields, RegistrationFields, Zenon DEF TypeOK, Resumable
<1> QED
  BY <1>1, EventsInvariant, PTL

\* No order of finality, reconciliation and DUST events leaves a Ready that is
\* older than the newest observation of its transaction.
THEOREM CurrentReady == Spec => []ReadyIsCurrent
<1>1. IInv => ReadyIsCurrent
  <2> SUFFICES ASSUME IInv, EffectiveState(p) = "Ready", HasRegistration(p)
               PROVE  RegistrationReady(p)
    BY Zenon DEF ReadyIsCurrent
  <2>1. Supports("Ready", p.registration)
    BY Zenon DEF IInv, WellFormed
  <2> QED
    BY <2>1, Zenon DEF Supports, HasRegistration, Current, RegistrationReady
<1> QED
  BY <1>1, EventsInvariant, PTL

\* A sound registration passes the recovery record's validation.
LEMMA SoundValid ==
  ASSUME NEW r, Sound(r), r.draft # None
  PROVE  ValidRegistration(r)
<1>1. CASE r.phase = "Submitted"
  BY <1>1, Zenon DEF Sound, Sent, ValidRegistration
<1>2. CASE r.phase # "Submitted"
  <2> DEFINE k == [PendingRegistration(r.draft) EXCEPT !.phase = r.phase]
  <2>1. Fresh(r) /\ r \in Registrations
    BY <1>2, Zenon DEF Sound
  <2>2. r = [draft |-> r.draft, phase |-> r.phase, tx |-> r.tx, observation |-> r.observation,
             finality |-> r.finality, reconciliation |-> r.reconciliation, dust |-> r.dust,
             dustObservation |-> r.dustObservation, dustReady |-> r.dustReady,
             included |-> r.included, abandonment |-> r.abandonment]
    BY <2>1, Zenon DEF Registrations
  <2>3. r.draft \in Drafts /\ r.phase \in Phases
    BY <2>1, RegistrationFields, Zenon
  <2>4. /\ PendingRegistration(r.draft) \in Registrations
        /\ PendingRegistration(r.draft).draft = r.draft /\ Fresh(PendingRegistration(r.draft))
    BY <2>3, PendingFields, Zenon
  <2>5. k \in Registrations
    BY <2>3, <2>4, Zenon DEF Registrations
  <2>6. k.draft = r.draft /\ k.phase = r.phase /\ Fresh(k)
    BY <2>4, Zenon DEF Registrations, Fresh
  <2> HIDE DEF k
  <2>7. k = [draft |-> k.draft, phase |-> k.phase, tx |-> k.tx, observation |-> k.observation,
             finality |-> k.finality, reconciliation |-> k.reconciliation, dust |-> k.dust,
             dustObservation |-> k.dustObservation, dustReady |-> k.dustReady,
             included |-> k.included, abandonment |-> k.abandonment]
    BY <2>5, Zenon DEF Registrations
  <2>8. /\ k.tx = r.tx /\ k.observation = r.observation /\ k.finality = r.finality
        /\ k.reconciliation = r.reconciliation /\ k.dust = r.dust
        /\ k.dustObservation = r.dustObservation /\ k.dustReady = r.dustReady
        /\ k.included = r.included /\ k.abandonment = r.abandonment
    BY <2>1, <2>6, Zenon DEF Fresh
  <2>9. r = k
    BY <2>2, <2>6, <2>7, <2>8, Zenon
  <2> QED
    BY <1>2, <2>9, Zenon DEF ValidRegistration, k
<1> QED
  BY <1>1, <1>2, Zenon

\* A submission under way has a valid record.
LEMMA InFlightValid ==
  ASSUME NEW q, WellFormed(q), q.state \in InFlight
  PROVE  HasRecord(q)
<1> DEFINE m == RecordOf(q)
           r == q.registration
<1>1. q \in Projections
  BY Parts, Zenon
<1>2. m.state = q.state /\ m.registration = r
  BY <1>1, RecordFields, Zenon
<1>3. q.identity # NoIdentity /\ r.draft # None /\ EffectiveState(q) = q.state
  BY InFlightFacts, Zenon DEF HasRegistration
<1>4. q.checkpoint.identity = q.identity
  BY <1>3, Parts, Zenon DEF Identified
<1>5. Sound(r) /\ Supports(q.state, r)
  BY <1>3, Zenon DEF WellFormed
<1>6. ValidRegistration(r)
  BY <1>3, <1>5, SoundValid, Zenon
<1> HIDE DEF m, r
<1>7. ValidRecord(m)
  <2>1. CASE q.state = "Submitting"
    BY <1>2, <1>3, <1>5, <1>6, <2>1, Zenon DEF ValidRecord, HasRegistration, Supports, IdleStates
  <2>2. CASE q.state = "Confirming"
    BY <1>2, <1>3, <1>5, <1>6, <2>2, Zenon DEF ValidRecord, HasRegistration, Supports, IdleStates
  <2>3. CASE q.state = "Reconciling"
    BY <1>2, <1>3, <1>5, <1>6, <2>3, ZenonT(60)
       DEF ValidRecord, HasRegistration, Supports, IdleStates, Current
  <2> QED
    BY <2>1, <2>2, <2>3, Zenon DEF InFlight
<1> QED
  BY <1>3, <1>4, <1>7, Zenon DEF HasRecord, m

\* A submission never outruns its recovery record: whenever one is under way
\* its own record is in the store, and resumes with the effect that was
\* interrupted.
THEOREM RecordedInFlight == Spec => []InFlightIsRecorded
<1>1. IInv => InFlightIsRecorded
  <2> SUFFICES ASSUME IInv, p.state \in InFlight
               PROVE  stored = RecordOf(p) /\ Restored(RecordOf(p)).effect = policy.effect
    BY Zenon DEF InFlightIsRecorded, InFlight
  <2> DEFINE m == RecordOf(p)
  <2>1. WellFormed(p) /\ HasRecord(p) /\ p \in Projections
    BY InFlightValid, Parts, Zenon DEF IInv
  <2>0. stored = RecordOf(p)
    BY <2>1, Zenon DEF IInv, StoreInv
  <2>2. WellFormed(m)
    BY <2>1, RestoredWellFormed, Zenon
  <2>3. m.state = p.state /\ m.registration = p.registration /\ m.identity = p.identity
    BY <2>1, RecordFields, Zenon
  <2>4. Restored(m).effect = NextEffect(m, FALSE, FALSE)
    BY Zenon DEF Restored
  <2> HIDE DEF m
  <2>5. NextEffect(m, FALSE, FALSE) = FlightEffect(m)
    BY <2>2, <2>3, FlightEffectAsked, Zenon
  <2>6. FlightEffect(m) = FlightEffect(p)
    BY <2>3, Zenon DEF FlightEffect, EffectOf
  <2>7. policy.effect = FlightEffect(p)
    BY <2>1, EffectConsistent, Zenon DEF IInv, Consistent, p
  <2> QED
    BY <2>0, <2>1, <2>4, <2>5, <2>6, <2>7, Zenon DEF m
<1> QED
  BY <1>1, EventsInvariant, PTL

\* What CommittedIsKept says about a step.
KeepsCommitted ==
  p'.identity = p.identity /\ p'.state # "Unavailable" /\ ~Restart =>
    Committed(p) \subseteq Committed(p')
    \/ (p'.state = "Ready" /\ ~HasRegistration(p'))
    \/ (Recoverable(p'.state) /\ p'.resume = "Ready" /\ ~HasRegistration(p'))

\* An event that keeps what the projection promises loses no committed draft.
LEMMA AdvancesKeeps ==
  ASSUME NEW e, Advances(p, p', e)
  PROVE  KeepsCommitted
<1> SUFFICES ASSUME p'.identity = p.identity, p'.state # "Unavailable",
                    ~(Committed(p) \subseteq Committed(p'))
             PROVE  \/ (p'.state = "Ready" /\ ~HasRegistration(p'))
                    \/ (Recoverable(p'.state) /\ p'.resume = "Ready" /\ ~HasRegistration(p'))
  BY Zenon DEF KeepsCommitted
<1>1. EffectiveState(p') = "Ready" /\ p'.registration.draft = None
  BY Zenon DEF Advances, Kept
<1>2. p'.state = "Ready" \/ (Recoverable(p'.state) /\ p'.resume = "Ready")
  BY <1>1, Zenon DEF EffectiveState
<1> QED
  BY <1>1, <1>2, Zenon DEF HasRegistration

\* A draft handed to submission or broadcast stays active or parked while its
\* identity lasts, until the chain says the wallet is registered already.
THEOREM KeptCommitted == Spec => CommittedIsKept
<1>1. IInv /\ [Next]_vars => [KeepsCommitted]_vars
  <2> SUFFICES ASSUME IInv, Next PROVE KeepsCommitted
    OBVIOUS
  <2>1. ASSUME NEW i \in Identities, NEW e \in Reports(i), Deliver(e)
        PROVE  KeepsCommitted
    BY <2>1, DeliverStep, AdvancesKeeps, Zenon
  <2>2. ASSUME NEW i \in Identities, NEW e \in Reports(i), HoldBack(e)
        PROVE  KeepsCommitted
    BY <2>2, HoldBackStep, Zenon DEF KeepsCommitted
  <2>3. CASE Arrive
    BY <2>3, ArriveStep, AdvancesKeeps, Zenon
  <2>4. CASE Restart
    BY <2>4, Zenon DEF KeepsCommitted
  <2> QED
    BY <2>1, <2>2, <2>3, <2>4, Zenon DEF Next
<1> QED
  BY <1>1, EventsInvariant, PTL DEF Spec, CommittedIsKept, KeepsCommitted

\* Whatever was reported or is still under way, a second copy of it leaves the
\* projection as the first one left it.
THEOREM DuplicatesIgnored == Spec => []DuplicatesAreNoOps
<1>1. IInv => DuplicatesAreNoOps
  <2> SUFFICES ASSUME IInv, NEW i \in Identities,
                      NEW e \in Reports(i) \cup ({late} \ {NoEvent})
               PROVE  Reduce(Reduce(p, e), e) = Reduce(p, e)
    BY Zenon DEF DuplicatesAreNoOps
  <2>1. IsEvent(e) /\ (e.kind = "DustRefreshed" => Behind(p, e.tx, e.after))
    <3>1. CASE e \in Reports(i)
      BY <3>1, ReportsTold, ToldBehind, Zenon DEF Told
    <3>2. CASE e = late /\ late # NoEvent
      BY <3>2, Zenon DEF IInv, LateInv
    <3> QED
      BY <3>1, <3>2, Zenon
  <2>2. WellFormed(p)
    BY Zenon DEF IInv
  <2>3. e.kind = "DustRefreshed" => ~SupersedesParked(p, e)
    BY <2>1, <2>2, BehindStays, Zenon
  <2> QED
    BY <2>1, <2>2, <2>3, ReduceTwice, Zenon
<1> QED
  BY <1>1, EventsInvariant, PTL
=============================================================================
