----------------------------- MODULE DustEvents -----------------------------
(***************************************************************************)
(* The DUST-registration coordinator with events in any order: what the    *)
(* executors and the observers report is delivered at once, or late, or    *)
(* twice, or never, and a process may die and restore the last record it   *)
(* stored.  One clock hands out every revision; an event that is held back *)
(* keeps the revision it was issued with.  A draft is authorized once it   *)
(* was offered, submitted once it was authorized, and observed once it was *)
(* submitted; it is not offered again after that.                          *)
(***************************************************************************)
EXTENDS DustPolicy, FiniteSets

CONSTANTS
  Drafts,          \* draft identifiers; a draft's transaction has its name
  Outages,         \* the recoverable states an executor failure may enter
  MaxClock,        \* revisions handed out
  LateKinds,       \* the kinds of event that may be held back
  LastDelay,       \* the last revision that may be held back
  MaxGeneration    \* generations of the one selected realm

ASSUME EventsAssumption ==
  /\ None \notin Drafts
  /\ Outages \subseteq RecoverableStates
  /\ {MaxClock, LastDelay} \subseteq Nat /\ MaxGeneration \in Nat \ {0}

VARIABLES
  policy,      \* the coordinator: projection and active effect
  stored,      \* the recovery record in the store; NoProjection when empty
  clock,       \* the last revision handed out
  late,        \* an event that was issued and is still under way, if any
  offered,     \* drafts a preparation returned
  submitted    \* drafts that were broadcast

vars == <<policy, stored, clock, late, offered, submitted>>

Identities == {[realm |-> "r", generation |-> g] : g \in 1..MaxGeneration}
NoEvent == [kind |-> None, identity |-> NoIdentity]

Init ==
  /\ policy = [projection |-> NoProjection, effect |-> NoEffect]
  /\ stored = NoProjection
  /\ clock = 0 /\ late = NoEvent
  /\ offered = {} /\ submitted = {}

\* What the executor of the current effect may answer.  A preparation may be
\* renewed while its draft still waits for authorization.
Answers(i) ==
  LET n == clock + 1
      f == policy.effect
  IN  CASE f.kind = "Prepare" ->
             [kind: {"AuthorizationRequested"}, identity: {i}, draft: Drafts \ submitted,
              revision: {n}]
             \cup [kind: {"RegistrationAlreadyCurrent"}, identity: {i}, revision: {n}]
        [] f.kind = "Authorize" ->
             [kind: {"AuthorizationRequested"}, identity: {i}, draft: Drafts \ submitted,
              revision: {n}]
             \cup [kind: {"AuthorizationSucceeded", "AuthorizationRejected", "Cancel"},
                   identity: {i}, draft: {f.subject}]
        [] f.kind = "Submit" ->
             {[kind |-> "SubmissionAccepted", identity |-> i, draft |-> f.subject,
               tx |-> f.subject]}
        [] OTHER -> {}

\* What an observer of the realm, of the network or of a broadcast transaction
\* may report at any time, under identity i.
Observations(i) ==
  LET n == clock + 1
  IN  [kind: {"Eligibility"}, identity: {i}, revision: {n}, eligible: BOOLEAN]
      \cup [kind: {"Resumed", "Retry"} \cup Outages, identity: {i}, revision: {n}]
      \cup [kind: {"FinalityObserved"}, identity: {i}, tx: submitted, revision: {n}]
      \cup [kind: {"RegistrationReconciled"}, identity: {i}, tx: submitted, revision: {n},
            verdict: {"Included", "Pending", "Dropped"}]
      \cup [kind: {"DustRefreshed"}, identity: {i}, tx: submitted, revision: {n},
            after: {policy.projection.registration.observation}, ready: BOOLEAN]
      \cup [kind: {"DroppedRegistrationAbandoned"}, identity: {i}, tx: submitted, after: {n}]
      \cup [kind: {"Superseded"}, identity: {i}]

Reports(i) == Answers(i) \cup Observations(i)

Ticks(e) == "revision" \in DOMAIN e \/ "after" \in DOMAIN e

\* The report leaves its executor: what it says is true from here on.  Nobody
\* reports about a projection that has ended, and what a retired generation
\* still says was held back.
Issue(e) ==
  /\ clock < MaxClock
  /\ e.kind = "Eligibility" \/ e.identity = policy.projection.identity
  /\ policy.projection.state \in {"Unavailable", "Cancelled"}
       => e.kind \in {"Eligibility", "Superseded"}
  /\ clock' = IF Ticks(e) THEN clock + 1 ELSE clock
  /\ offered' = IF e.kind = "AuthorizationRequested" THEN offered \cup {e.draft} ELSE offered
  /\ submitted' = IF e.kind = "SubmissionAccepted" THEN submitted \cup {e.draft} ELSE submitted

\* The coordinator takes the event in, and what it publishes is stored; a
\* projection without a record leaves the older one in the store.
Observe(e) ==
  /\ policy' = Observed(policy, e)
  /\ stored' = IF HasRecord(policy'.projection) THEN RecordOf(policy'.projection) ELSE stored

Deliver(e) == Issue(e) /\ Observe(e) /\ UNCHANGED late

HoldBack(e) ==
  /\ late = NoEvent /\ e.kind \in LateKinds
  /\ e.kind = "AuthorizationRequested" => e.draft \notin offered
  /\ Issue(e) /\ clock' <= LastDelay
  /\ late' = e
  /\ UNCHANGED <<policy, stored>>

\* The late event arrives, and may arrive again.
Arrive ==
  /\ late # NoEvent
  /\ Observe(late)
  /\ late' \in {late, NoEvent}
  /\ UNCHANGED <<clock, offered, submitted>>

\* A new process restores the record in the store, or starts without one.  A
\* record that awaits authorization is cleared.
Restart ==
  LET record == IF stored.state = "AwaitingAuthorization" THEN NoProjection ELSE stored
  IN  /\ policy' = IF record = NoProjection
                     THEN [projection |-> NoProjection, effect |-> NoEffect]
                     ELSE Restored(record)
      /\ stored' = record /\ late' = NoEvent
      /\ UNCHANGED <<clock, offered, submitted>>

Next ==
  \/ \E i \in Identities : \E e \in Reports(i) : Deliver(e) \/ HoldBack(e)
  \/ Arrive
  \/ Restart

Spec == Init /\ [][Next]_vars

-----------------------------------------------------------------------------
(* Properties.                                                             *)

p == policy.projection

\* The projection of dust_registration_policy.rs is well formed, and a
\* recoverable state always remembers the state it interrupted, which is
\* itself never a recoverable one (resume_state).
TypeOK ==
  /\ p.state \in States
  /\ IF Recoverable(p.state) THEN p.resume \in States \ RecoverableStates ELSE p.resume = None
  /\ p.registration.draft \in Drafts \cup {None} /\ p.parked.draft \in Drafts \cup {None}

\* "Duplicate ... events are no-ops": whatever was reported, a second copy of
\* the same event leaves the projection as the first one left it.
DuplicatesAreNoOps ==
  \A i \in Identities : \A e \in {r \in Reports(i) : r.kind = "Eligibility" \/ i = p.identity}
                                    \cup ({late} \ {NoEvent}) :
    LET once == Reduce(p, e) IN Reduce(once, e) = once

\* A registration shown as ready (also behind a recoverable state) is included,
\* and its DUST was read after the newest observation of its transaction: no
\* order of finality, reconciliation and DUST events leaves an old Ready.
ReadyIsCurrent ==
  EffectiveState(p) = "Ready" /\ HasRegistration(p) => RegistrationReady(p)

\* "a broadcast must never outrun its recovery record": whenever a submission
\* is under way, the record in the store is the one of this projection (a valid
\* one, not what an earlier projection left behind), and a process that restores
\* it continues with the same effect.
InFlightIsRecorded ==
  p.state \in {"Submitting", "Confirming", "Reconciling"} =>
    stored = RecordOf(p) /\ Restored(stored).effect = policy.effect

Retained(q) == {r \in {q.registration, q.parked} : r.draft # None}

Committed(q) == {r.draft : r \in {s \in Retained(q) : s.phase # "Awaiting"}}

\* A draft that was handed to submission or broadcast is not forgotten by the
\* running process while its identity lasts: it stays active or parked until
\* the chain says the wallet is registered already.
CommittedIsKept ==
  [][p'.identity = p.identity /\ p'.state # "Unavailable" /\ ~Restart =>
       Committed(p) \subseteq Committed(p')
       \/ (p'.state = "Ready" /\ ~HasRegistration(p'))
       \/ (Recoverable(p'.state) /\ p'.resume = "Ready" /\ ~HasRegistration(p'))]_vars
=============================================================================
