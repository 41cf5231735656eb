------------------------ MODULE ActionRecoveryProofs ------------------------
(***************************************************************************)
(* The invariants of ActionRecovery, for every set of realms, transactions *)
(* and admissible watches and every bound.                                 *)
(*                                                                         *)
(* The inductive invariant joins what the service holds (Coherent: the     *)
(* policy, the checkpoint and the watch runtime are on one realm; what is  *)
(* active or retained is the watch the projection is about, in the realm   *)
(* it was admitted in) with what is on its way to it (TrueAnswers: an      *)
(* answer of the chain stays true while it travels).                       *)
(***************************************************************************)
EXTENDS ActionRecovery, RealmLifecycleProofs

Settled == {"Confirmed", "Failed"}

(* The service s holds nothing but the watch w, admitted in realm id. *)
Coherent(s, w, id) ==
    /\ s \in GuardedServices
    /\ s.watch.seq \in 0..MaxWatches
    /\ s.checkpoint.identity = s.watch.identity
    /\ s.policy.active = s.watch.identity
    /\ s.gen = s.watch.gen
    /\ s.watch.active # NoActive =>
         /\ s.watch.active.watch = w
         /\ s.watch.active.id = s.watch.identity
         /\ s.watch.active.handle.gen = s.watch.gen
         /\ s.recovery = NoWatch
         /\ s.watch.identity = id /\ id # NoIdentity
    /\ s.recovery # NoWatch =>
         s.recovery = w /\ s.watch.identity = id /\ id # NoIdentity

(* A step from s to r that shows no outcome of its own. *)
Quiet(s, r) ==
    /\ r.watch.projection.state \in Settled
         => r.watch.projection.state = s.watch.projection.state
    /\ s.recovery # NoWatch /\ r.recovery # s.recovery
         => /\ r.recovery = NoWatch
            /\ r.watch.projection.state = "OutcomeUnresolved"

(* Everything a worker or a query carries is typed. *)
Carried ==
    /\ \A k \in workers : k.h \in Handles /\ k.w \in Watches
    /\ \A q \in queries : /\ q.gen \in 0..MaxGeneration /\ q.seen \in Observations
                          /\ q.outcome \in Settled \cup {"Pending"}

World ==
    /\ fate \in [Chain -> Settled \cup {"Pending"}]
    /\ cursor \in [Chain -> 0..1]
    /\ crashes \in 0..MaxCrashes
    /\ subject \in Watches \cup {NoWatch}
    /\ realm \in Identities \cup {NoIdentity}

(* What an answer reports is still so. *)
TrueAnswers ==
    \A q \in queries :
      /\ q.seen.kind = "Submitted" => q.outcome \in {"Pending", fate[q.seen.name]}
      /\ q.seen.kind = "Incoming" =>
           q.outcome = "Confirmed" /\ q.seen.at <= cursor[q.seen.name]

IInv ==
    /\ Coherent(svc, subject, realm)
    /\ Carried
    /\ World
    /\ TrueAnswers
    /\ OutcomeIsTrue

\* The bounds are numbers, and only known watches are admitted.
LEMMA BoundFacts == MaxWatches \in Nat /\ MaxCrashes \in Nat /\ Admissible \subseteq Watches
BY SMT, RecoveryConfig

-----------------------------------------------------------------------------
(***************************************************************************)
(* The steps of the service                                                *)
(***************************************************************************)
LEMMA CoherentFields ==
    ASSUME NEW s, NEW w, NEW id, Coherent(s, w, id)
    PROVE  /\ s \in GuardedServices /\ s.watch \in Runtimes
           /\ s.recovery \in Watches \cup {NoWatch}
           /\ s.gen \in 0..MaxGeneration
<1>1. s \in GuardedServices
  BY Zenon DEF Coherent
<1> QED
  BY SMT, <1>1 DEF GuardedServices

\* Selecting a realm keeps watch, recovery and generation coherent.
LEMMA SelectKeeps ==
    ASSUME NEW s, NEW w, NEW id, Coherent(s, w, id),
           NEW name \in Selections, NEW to \in Identities, NEW facets \in Facets
    PROVE  LET r == Begin(s, Selected(name, to, facets)).svc
           IN Coherent(r, w, id) /\ Quiet(s, r)
<1> DEFINE r == Begin(s, Selected(name, to, facets)).svc
           v == SelectRealm(s.watch, to)
<1>1. s \in GuardedServices /\ s.watch \in Runtimes
  BY Zenon, CoherentFields
<1>2. /\ r \in GuardedServices
      /\ \/ r = s
         \/ /\ s.checkpoint.identity \in {NoIdentity, to} \/ s.recovery = NoWatch
            /\ r.checkpoint.identity = to /\ r.policy.active = to
            /\ r.watch = v /\ r.gen = r.watch.gen
            /\ r.recovery = s.recovery
  BY ZenonT(60), <1>1, BeginSelected
<1>3. /\ v.identity = to /\ v.seq = s.watch.seq
      /\ s.watch.identity = to => v = s.watch
      /\ s.watch.identity # to => /\ v.active = NoActive
                                  /\ v.projection.state = "None"
  BY Zenon, <1>1, SelectRealmFacts
<1> SUFFICES Coherent(r, w, id) /\ Quiet(s, r)
  BY Zenon
<1> HIDE DEF r, v
<1>4. CASE r = s
  BY Zenon, <1>4 DEF Quiet
<1>5. CASE r # s
  <2>1. CASE s.watch.identity = to
    <3>1. r.watch = s.watch /\ r.recovery = s.recovery /\ r.gen = s.gen
      BY Zenon, <1>2, <1>3, <1>5, <2>1 DEF Coherent
    <3>2. Coherent(r, w, id)
      BY Zenon, <1>2, <1>5, <2>1, <3>1 DEF Coherent
    <3> QED
      BY Zenon, <3>1, <3>2 DEF Quiet
  <2>2. CASE s.watch.identity # to
    <3>1. r.watch.active = NoActive /\ r.watch.projection.state = "None"
      BY Zenon, <1>2, <1>3, <1>5, <2>2
    <3>2. s.recovery = NoWatch
      BY Zenon, <1>2, <1>5, <2>2 DEF Coherent
    <3>3. Coherent(r, w, id)
      BY Zenon, <1>2, <1>3, <1>5, <3>1, <3>2 DEF Coherent
    <3>4. "None" \notin Settled
      BY SMT DEF Settled
    <3> QED
      BY Zenon, <3>1, <3>2, <3>3, <3>4 DEF Quiet
  <2> QED
    BY Zenon, <2>1, <2>2
<1> QED
  BY Zenon, <1>4, <1>5 DEF r

\* Going to the background keeps them coherent.
LEMMA LeaveKeeps ==
    ASSUME NEW s, NEW w, NEW id, Coherent(s, w, id)
    PROVE  LET r == Begin(s, Input("Backgrounded")).svc
           IN Coherent(r, w, id) /\ Quiet(s, r)
<1> DEFINE r == Begin(s, Input("Backgrounded")).svc
           b == Boundary(s.watch)
<1>1. s \in GuardedServices /\ s.watch \in Runtimes
  BY Zenon, CoherentFields
<1>2. /\ r \in GuardedServices
      /\ r.checkpoint.identity = s.checkpoint.identity
      /\ r.policy.active = s.policy.active
      /\ \/ r.watch = s.watch /\ r.gen = s.gen /\ r.recovery = s.recovery
         \/ /\ r.watch = b /\ r.gen = r.watch.gen
            /\ r.recovery = IF s.watch.active # NoActive
                            THEN BoundaryRecovery(s.watch) ELSE s.recovery
  BY Zenon, <1>1, BeginBackgrounded
<1>3. /\ b.active = NoActive /\ b.identity = s.watch.identity
      /\ b.seq = s.watch.seq
      /\ s.watch.active = NoActive => b.projection = s.watch.projection
      /\ s.watch.active # NoActive => b.projection.state \notin Settled
  BY Zenon, <1>1, BoundaryFacts DEF Settled
<1> SUFFICES Coherent(r, w, id) /\ Quiet(s, r)
  BY Zenon
<1> HIDE DEF r, b
<1>4. CASE r.watch = s.watch /\ r.gen = s.gen /\ r.recovery = s.recovery
  BY Zenon, <1>2, <1>4 DEF Quiet, Coherent
<1>5. CASE r.watch = b /\ r.gen = r.watch.gen /\ s.watch.active = NoActive
           /\ r.recovery = s.recovery
  BY Zenon, <1>2, <1>3, <1>5 DEF Quiet, Coherent
<1>6. CASE r.watch = b /\ r.gen = r.watch.gen /\ s.watch.active # NoActive
           /\ r.recovery = BoundaryRecovery(s.watch)
  BY Zenon, <1>2, <1>3, <1>6 DEF Quiet, Coherent, BoundaryRecovery
<1> QED
  BY Zenon, <1>2, <1>4, <1>5, <1>6 DEF r

\* A recovery that ends leaves no watch, whatever it is shown as.
LEMMA EndingKeeps ==
    ASSUME NEW s, NEW w, NEW id, Coherent(s, w, id), s.recovery # NoWatch,
           NEW state \in WatchStates,
           NEW r \in GuardedServices,
           r.checkpoint.identity = s.checkpoint.identity,
           r.policy.active = s.policy.active, r.gen = s.gen,
           r.recovery = NoWatch,
           r.watch = EndRecovery(s.watch, s.recovery.kind, state)
    PROVE  Coherent(r, w, id) /\ r.watch.projection.state = state
<1>1. s.watch \in Runtimes /\ s.recovery \in Watches
  BY Zenon, CoherentFields
<1> DEFINE e == EndRecovery(s.watch, s.recovery.kind, state)
<1>0. /\ e.active = NoActive /\ e.identity = s.watch.identity
      /\ e.gen = s.watch.gen /\ e.seq = s.watch.seq
      /\ e.projection.state = state
  BY ZenonT(60), <1>1, EndRecoveryFacts DEF Answered
<1> HIDE DEF e
<1>2. /\ r.watch.active = NoActive /\ r.watch.identity = s.watch.identity
      /\ r.watch.gen = s.watch.gen /\ r.watch.seq = s.watch.seq
      /\ r.watch.projection.state = state
  <2>1. r.watch = e
    BY Zenon DEF e
  <2> QED
    BY Zenon, <1>0, <2>1
<1>3. /\ s.watch.seq \in 0..MaxWatches
      /\ s.checkpoint.identity = s.watch.identity
      /\ s.policy.active = s.watch.identity
      /\ s.gen = s.watch.gen
  BY Zenon DEF Coherent
<1>4. /\ r.watch.seq \in 0..MaxWatches
      /\ r.checkpoint.identity = r.watch.identity
      /\ r.policy.active = r.watch.identity
      /\ r.gen = r.watch.gen
  BY Zenon, <1>2, <1>3
<1>5. Coherent(r, w, id)
  BY Zenon, <1>2, <1>4 DEF Coherent
<1> QED
  BY Zenon, <1>2, <1>5

\* Coming back keeps them coherent, though a recovery may be used up.
LEMMA ReturnKeeps ==
    ASSUME NEW s, NEW w, NEW id, Coherent(s, w, id), NEW facets \in Facets
    PROVE  LET r == Begin(s, Signal("Foreground", facets)).svc
           IN Coherent(r, w, id) /\ Quiet(s, r)
<1> DEFINE r == Begin(s, Signal("Foreground", facets)).svc
<1>1. s \in GuardedServices
  BY Zenon, CoherentFields
<1>2. /\ r \in GuardedServices
      /\ r.checkpoint.identity = s.checkpoint.identity
      /\ r.policy.active = s.policy.active /\ r.gen = s.gen
      /\ \/ r.watch = s.watch /\ r.recovery = s.recovery
         \/ /\ s.recovery # NoWatch /\ r.recovery = NoWatch
            /\ r.watch = EndRecovery(s.watch, s.recovery.kind,
                                     "OutcomeUnresolved")
  BY Zenon, <1>1, BeginForeground
<1> SUFFICES Coherent(r, w, id) /\ Quiet(s, r)
  BY Zenon
<1> HIDE DEF r
<1>3. CASE r.watch = s.watch /\ r.recovery = s.recovery
  BY Zenon, <1>2, <1>3 DEF Quiet, Coherent
<1>4. CASE /\ s.recovery # NoWatch /\ r.recovery = NoWatch
           /\ r.watch = EndRecovery(s.watch, s.recovery.kind, "OutcomeUnresolved")
  <2>1. "OutcomeUnresolved" \in WatchStates \ Settled
    BY SMT DEF WatchStates, Settled
  <2>2. Coherent(r, w, id) /\ r.watch.projection.state = "OutcomeUnresolved"
    BY Zenon, <1>2, <1>4, <2>1, EndingKeeps
  <2> QED
    BY Zenon, <1>4, <2>1, <2>2 DEF Quiet
<1> QED
  BY Zenon, <1>2, <1>3, <1>4 DEF r

\* Settling a synchronization touches no watch and no recovery.
LEMMA SettleKeeps ==
    ASSUME NEW s, NEW w, NEW id, Coherent(s, w, id), NEW req,
           NEW facets \in Facets, NEW succeeded \in BOOLEAN
    PROVE  LET r == Settle(s, req, facets, succeeded).svc
           IN Coherent(r, w, id) /\ Quiet(s, r)
<1> DEFINE r == Settle(s, req, facets, succeeded).svc
<1>1. s \in GuardedServices
  BY Zenon, CoherentFields
<1>2. /\ r \in GuardedServices
      /\ r.checkpoint.identity = s.checkpoint.identity
      /\ r.policy.active = s.policy.active
      /\ r.watch = s.watch /\ r.recovery = s.recovery /\ r.gen = s.gen
  BY ZenonT(60), <1>1, SettleFacts
<1> SUFFICES Coherent(r, w, id) /\ Quiet(s, r)
  BY Zenon
<1> HIDE DEF r
<1> QED
  BY Zenon, <1>2 DEF Quiet, Coherent, r

\* A call of a worker replaces the watch runtime only.
LEMMA WatchFields ==
    ASSUME NEW s \in GuardedServices, NEW a \in Runtimes
    PROVE  LET r == [s EXCEPT !.watch = a]
           IN /\ r \in GuardedServices /\ r.watch = a
              /\ r.checkpoint = s.checkpoint /\ r.policy = s.policy
              /\ r.gen = s.gen /\ r.recovery = s.recovery
<1> DEFINE r == [s EXCEPT !.watch = a]
<1>1. r \in GuardedServices
  BY Zenon DEF GuardedServices
<1>2. /\ r.watch = a /\ r.checkpoint = s.checkpoint /\ r.policy = s.policy
      /\ r.gen = s.gen /\ r.recovery = s.recovery
  BY SMT DEF GuardedServices
<1> QED
  BY Zenon, <1>1, <1>2

\* Answering or ending the active watch keeps them coherent.
LEMMA AnsweredKeeps ==
    ASSUME NEW s, NEW w, NEW id, Coherent(s, w, id), NEW a, Answered(s.watch, a)
    PROVE  LET r == [s EXCEPT !.watch = a]
           IN Coherent(r, w, id) /\ r.watch = a /\ r.recovery = s.recovery
<1> DEFINE r == [s EXCEPT !.watch = a]
<1>1. s \in GuardedServices /\ a \in Runtimes
  BY Zenon, CoherentFields DEF Answered
<1>2. /\ r \in GuardedServices /\ r.watch = a
      /\ r.checkpoint = s.checkpoint /\ r.policy = s.policy
      /\ r.gen = s.gen /\ r.recovery = s.recovery
  BY Zenon, <1>1, WatchFields
<1> HIDE DEF r
<1>3. a.active = NoActive \/ a.active = s.watch.active
  BY Zenon DEF Answered
<1>4. Coherent(r, w, id)
  BY Zenon, <1>2, <1>3 DEF Coherent, Answered
<1> QED
  BY Zenon, <1>2, <1>4 DEF r

\* A new watch belongs to the realm and the generation of its admission.
LEMMA AdmitKeeps ==
    ASSUME NEW s, NEW w, NEW id, Coherent(s, w, id), s.recovery = NoWatch,
           s.watch.seq < MaxWatches, NEW x \in Watches, NEW live \in BOOLEAN
    PROVE  LET a == AdmitWatch(s.watch, x, live)
               r == [s EXCEPT !.watch = a]
           IN /\ Coherent(r, x, a.identity)
              /\ r.watch.projection.state \notin Settled
              /\ r.recovery = NoWatch
              /\ a.identity \in Identities \cup {NoIdentity}
              /\ a.active # NoActive => a.active.handle \in Handles
<1> DEFINE a == AdmitWatch(s.watch, x, live)
           r == [s EXCEPT !.watch = a]
           h == [gen |-> s.watch.gen, seq |-> s.watch.seq + 1]
<1>1. s \in GuardedServices /\ s.watch \in Runtimes /\ s.watch.seq \in 0..MaxWatches
  BY Zenon, CoherentFields DEF Coherent
<1>2. /\ a \in Runtimes /\ a.identity = s.watch.identity /\ a.gen = s.watch.gen
      /\ a.seq \in {s.watch.seq, s.watch.seq + 1}
      /\ a.projection.state \notin Settled
      /\ a.active # NoActive =>
           /\ a.active.watch = x /\ a.active.id = s.watch.identity
           /\ a.active.handle = h
           /\ s.watch.identity # NoIdentity
  BY Zenon, <1>1, AdmitWatchFacts DEF Settled
<1> HIDE DEF a
<1>3. /\ r \in GuardedServices /\ r.watch = a
      /\ r.checkpoint = s.checkpoint /\ r.policy = s.policy
      /\ r.gen = s.gen /\ r.recovery = s.recovery
  BY Zenon, <1>1, <1>2, WatchFields
<1> HIDE DEF r
<1>4. a.seq \in 0..MaxWatches /\ s.watch.seq + 1 \in 0..MaxWatches
  BY SMT, <1>1, <1>2, BoundFacts
<1>5. s.watch.gen \in 0..MaxGeneration /\ s.watch.identity \in Identities \cup {NoIdentity}
  BY SMT, <1>1, RuntimeFields DEF Runtimes
<1>6. h \in Handles /\ h.gen = s.watch.gen
  BY Zenon, <1>4, <1>5 DEF Handles
<1> HIDE DEF h
<1>7. Coherent(r, x, a.identity)
  BY Zenon, <1>2, <1>3, <1>4, <1>6 DEF Coherent
<1> QED
  BY Zenon, <1>2, <1>3, <1>5, <1>6, <1>7 DEF r, a

\* A restarted process holds what the last one retained.
LEMMA RestoreKeeps ==
    ASSUME NEW s, NEW w, NEW id, Coherent(s, w, id)
    PROVE  LET r == Restore(Snapshot(s))
           IN Coherent(r, w, id) /\ r.watch.projection.state \notin Settled
<1> DEFINE r == Restore(Snapshot(s))
           g == Bump(s.gen)
           v == RestoreWatch(s.checkpoint.identity, s.recovery, g)
<1>1. /\ s \in GuardedServices /\ s.recovery \in Watches \cup {NoWatch}
      /\ g \in 0..MaxGeneration
  BY Zenon, CoherentFields, BumpType
<1>2. s.checkpoint.identity \in Identities \cup {NoIdentity}
  BY SMT, <1>1 DEF GuardedServices, Checkpoints
<1>3. /\ r \in GuardedServices
      /\ r.checkpoint.identity = s.checkpoint.identity
      /\ r.policy.active = s.checkpoint.identity
      /\ r.recovery = s.recovery /\ r.gen = g
      /\ r.watch = v
  BY Zenon, <1>1, RestoreFacts
<1> SUFFICES Coherent(r, w, id) /\ r.watch.projection.state \notin Settled
  BY Zenon
<1> HIDE DEF r, g
<1>4. /\ v.active = NoActive /\ v.identity = s.checkpoint.identity
      /\ v.gen = g /\ v.seq = 0
      /\ v.projection.state \notin Settled
  BY SMT, <1>1, <1>2, RestoreWatchFacts DEF Settled
<1> HIDE DEF v
<1>5. 0 \in 0..MaxWatches
  BY SMT, BoundFacts
<1> QED
  BY Zenon, <1>3, <1>4, <1>5 DEF Coherent

\* A new service has nothing to show and nothing to recover.
LEMMA NewKeeps ==
    /\ Coherent(NewService, NoWatch, NoIdentity)
    /\ NewService.watch.projection.state \notin Settled
<1>1. /\ NewWatchRuntime.identity = NoIdentity /\ NewWatchRuntime.gen = 0
      /\ NewWatchRuntime.seq = 0 /\ NewWatchRuntime.projection = NoProjection
  BY Zenon DEF NewWatchRuntime
<1>2. 0 \in 0..MaxWatches /\ "None" \notin Settled
  BY SMT, BoundFacts DEF Settled
<1> QED
  BY Zenon, <1>1, <1>2, NewServiceFacts, NewRuntime, NewPolicyFacts,
     NoProjectionFacts DEF Coherent

-----------------------------------------------------------------------------
(***************************************************************************)
(* What the chain says                                                     *)
(***************************************************************************)
LEMMA KindFacts ==
    /\ \A k \in Kinds : k = "Submitted" \/ k = "Incoming"
    /\ "Submitted" # "Incoming" /\ "Submitted" \in Kinds /\ "Incoming" \in Kinds
    /\ "Confirmed" \in Settled /\ "Failed" \in Settled /\ "Pending" \notin Settled
    /\ \A st \in Settled : st \in WatchStates
BY SMT DEF Kinds, Settled, WatchStates

\* What is shown stays true when nothing new is shown and the chain does not
\* move.
LEMMA StillTrue ==
    ASSUME OutcomeIsTrue, UNCHANGED <<fate, cursor, subject>>,
           svc'.watch.projection.state \in Settled
             => svc'.watch.projection.state = svc.watch.projection.state
    PROVE  OutcomeIsTrue'
<1>1. ASSUME svc'.watch.projection.state \in Settled
      PROVE  Truthful(subject, svc.watch.projection.state)'
  <2>1. Truthful(subject, svc.watch.projection.state)
    BY Zenon, <1>1 DEF OutcomeIsTrue, Settled
  <2> QED
    BY Zenon, <1>1, <2>1 DEF Truthful
<1> QED
  BY Zenon, <1>1 DEF OutcomeIsTrue, Settled

\* Nothing the chain did is undone, so an answer on its way and an outcome on
\* show stay true.
LEMMA FinalizeStep ==
    ASSUME IInv, NEW x \in Chain, Finalize(x)
    PROVE  IInv'
<1>1. PICK end \in Settled : fate' = [fate EXCEPT ![x] = end]
  BY Zenon DEF Finalize, Settled
<1>2. /\ fate[x] = "Pending"
      /\ UNCHANGED <<svc, workers, queries, cursor, crashes, subject, realm>>
  BY Zenon DEF Finalize
<1>3. fate \in [Chain -> Settled \cup {"Pending"}]
  BY Zenon DEF IInv, World
<1>4. /\ fate' \in [Chain -> Settled \cup {"Pending"}]
      /\ \A y \in Chain : fate[y] # "Pending" => fate'[y] = fate[y]
  BY SMT, <1>1, <1>2, <1>3
<1>5. World'
  BY Zenon, <1>2, <1>4 DEF IInv, World
<1>6. TrueAnswers'
  <2>1. ASSUME NEW q \in queries, q.seen.kind = "Submitted"
        PROVE  q.outcome \in {"Pending", fate'[q.seen.name]}
    <3>1. q.outcome = "Pending" \/ q.outcome = fate[q.seen.name]
      BY Zenon, <2>1 DEF IInv, TrueAnswers
    <3>2. q.seen.name \in Chain
      <4>1. q.seen \in Observations
        BY Zenon, <2>1 DEF IInv, Carried
      <4> QED
        BY SMT, <4>1 DEF Observations
    <3> QED
      BY Zenon, <1>4, <3>1, <3>2
  <2> QED
    BY Zenon, <1>2, <2>1 DEF IInv, TrueAnswers
<1>7. OutcomeIsTrue'
  <2> DEFINE st == svc.watch.projection.state
  <2> SUFFICES ASSUME st \in Settled
               PROVE  Truthful(subject, st)'
    BY Zenon, <1>2 DEF OutcomeIsTrue, Settled
  <2>1. Truthful(subject, st)
    BY Zenon DEF IInv, OutcomeIsTrue, Settled
  <2>2. CASE subject.kind = "Incoming"
    BY Zenon, <1>2, <2>1, <2>2 DEF Truthful
  <2>3. CASE subject.kind # "Incoming"
    <3>1. st = fate[subject.name] /\ st # "Pending"
      BY Zenon, <2>1, <2>3, KindFacts DEF Truthful
    <3>2. fate'[subject.name] = st
      BY SMT, <1>1, <1>2, <1>3, <3>1
    <3> QED
      BY Zenon, <1>2, <2>3, <3>2 DEF Truthful
  <2> QED
    BY Zenon, <2>2, <2>3
<1> QED
  BY Zenon, <1>2, <1>5, <1>6, <1>7 DEF IInv, Carried

\* The chain moves on.
LEMMA ArriveStep ==
    ASSUME IInv, NEW x \in Chain, Arrive(x)
    PROVE  IInv'
<1>1. /\ cursor' = [cursor EXCEPT ![x] = 1]
      /\ UNCHANGED <<svc, workers, queries, fate, crashes, subject, realm>>
  BY Zenon DEF Arrive
<1>2. cursor \in [Chain -> 0..1]
  BY Zenon DEF IInv, World
<1>3. /\ cursor' \in [Chain -> 0..1]
      /\ \A y \in Chain : cursor[y] <= cursor'[y]
  BY SMT, <1>1, <1>2
<1>4. World'
  BY Zenon, <1>1, <1>3 DEF IInv, World
<1>5. TrueAnswers'
  <2>1. ASSUME NEW q \in queries, q.seen.kind = "Incoming"
        PROVE  q.outcome = "Confirmed" /\ q.seen.at <= cursor'[q.seen.name]
    <3>1. q.outcome = "Confirmed" /\ q.seen.at <= cursor[q.seen.name]
      BY Zenon, <2>1 DEF IInv, TrueAnswers
    <3>2. q.seen.name \in Chain /\ q.seen.at \in 0..1
      <4>1. q.seen \in Observations
        BY Zenon, <2>1 DEF IInv, Carried
      <4> QED
        BY SMT, <4>1 DEF Observations
    <3> QED
      BY SMT, <1>2, <1>3, <3>1, <3>2
  <2> QED
    BY Zenon, <1>1, <2>1 DEF IInv, TrueAnswers
<1>6. OutcomeIsTrue'
  <2> DEFINE st == svc.watch.projection.state
  <2> SUFFICES ASSUME st \in Settled
               PROVE  Truthful(subject, st)'
    BY Zenon, <1>1 DEF OutcomeIsTrue, Settled
  <2>1. Truthful(subject, st)
    BY Zenon DEF IInv, OutcomeIsTrue, Settled
  <2>2. CASE subject.kind = "Incoming"
    <3>1. subject \in Watches
      BY SMT, <2>2 DEF IInv, World, NoWatch
    <3>2. subject.name \in Chain /\ subject.from \in 0..1
      BY Zenon, <3>1, WatchKinds
    <3>3. st = "Confirmed" /\ cursor[subject.name] > subject.from
      BY Zenon, <2>1, <2>2 DEF Truthful
    <3>4. cursor'[subject.name] > subject.from
      BY SMT, <1>2, <1>3, <3>2, <3>3
    <3> QED
      BY Zenon, <1>1, <2>2, <3>3, <3>4 DEF Truthful
  <2>3. CASE subject.kind # "Incoming"
    BY Zenon, <1>1, <2>1, <2>3 DEF Truthful
  <2> QED
    BY Zenon, <2>2, <2>3
<1> QED
  BY Zenon, <1>1, <1>4, <1>5, <1>6 DEF IInv, Carried

-----------------------------------------------------------------------------
(***************************************************************************)
(* The steps of the service, its workers and its adapter                   *)
(***************************************************************************)
\* A quiet step of the service alone.
LEMMA QuietStep ==
    ASSUME IInv, Coherent(svc', subject, realm), Quiet(svc, svc'),
           UNCHANGED <<workers, queries, fate, cursor, crashes, subject, realm>>
    PROVE  IInv'
<1>1. OutcomeIsTrue'
  BY Zenon, StillTrue DEF IInv, Quiet
<1> QED
  BY Zenon, <1>1 DEF IInv, Carried, World, TrueAnswers

\* An input or a result reaches the service.
LEMMA SendStep ==
    ASSUME IInv, \/ \E id \in Identities : Select(id)
                 \/ Backgrounded \/ Foreground \/ Reconciled
    PROVE  Coherent(svc', subject, realm) /\ Quiet(svc, svc') /\ IInv'
<1>1. Coherent(svc, subject, realm)
  BY Zenon DEF IInv
<1>2. UNCHANGED <<workers, queries, fate, cursor, crashes, subject, realm>>
  BY Zenon DEF Select, Backgrounded, Foreground, Reconciled, Send, chain
<1>3. Coherent(svc', subject, realm) /\ Quiet(svc, svc')
  <2>1. ASSUME NEW id \in Identities, Select(id)
        PROVE  Coherent(svc', subject, realm) /\ Quiet(svc, svc')
    <3> DEFINE name == IF svc.checkpoint.identity = NoIdentity THEN "Initialized"
                       ELSE "RealmSelected"
    <3>1. name \in Selections /\ "Stale" \in Facets
      BY SMT DEF Selections, Facets
    <3>2. svc' = Begin(svc, Selected(name, id, "Stale")).svc
      BY Zenon, <2>1 DEF Select, Send
    <3> HIDE DEF name
    <3> QED
      BY Zenon, <1>1, <3>1, <3>2, SelectKeeps
  <2>2. CASE Backgrounded
    BY Zenon, <1>1, <2>2, LeaveKeeps DEF Backgrounded, Send
  <2>3. CASE Foreground
    <3>1. svc.checkpoint.facets \in Facets
      <4>1. svc \in GuardedServices
        BY Zenon, <1>1, CoherentFields
      <4> QED
        BY SMT, <4>1 DEF GuardedServices, Checkpoints
    <3> QED
      BY Zenon, <1>1, <2>3, <3>1, ReturnKeeps DEF Foreground, Send
  <2>4. CASE Reconciled
    <3> DEFINE req == svc.policy.in_flight
               f(ok) == IF ok THEN "Fresh" ELSE FallbackFacets(svc, req.id)
    <3>1. PICK ok \in BOOLEAN : svc' = Settle(svc, req, f(ok), ok).svc
      BY Zenon, <2>4 DEF Reconciled
    <3>2. f(ok) \in Facets
      <4>1. svc \in GuardedServices
        BY Zenon, <1>1, CoherentFields
      <4> QED
        BY Zenon, <4>1, FallbackType DEF Facets
    <3> HIDE DEF f, req
    <3> QED
      BY Zenon, <1>1, <3>1, <3>2, SettleKeeps
  <2> QED
    BY Zenon, <2>1, <2>2, <2>3, <2>4
<1> QED
  BY Zenon, <1>2, <1>3, QuietStep

\* A watch is admitted.
LEMMA AdmitStep ==
    ASSUME IInv, NEW w \in Admissible, NEW live \in BOOLEAN, AdmitAction(w, live)
    PROVE  IInv' /\ svc'.recovery = svc.recovery
<1> DEFINE a == AdmitWatch(svc.watch, w, live)
<1>1. /\ svc.recovery = NoWatch /\ svc.watch.seq < MaxWatches
      /\ svc' = [svc EXCEPT !.watch = a]
      /\ UNCHANGED <<queries, fate, cursor, crashes>>
      /\ workers' = IF a.active = NoActive THEN workers
                    ELSE workers \cup {[h |-> a.active.handle, w |-> w]}
      /\ subject' = w /\ realm' = a.identity
  BY Zenon DEF AdmitAction, Watch, chain
<1>2. w \in Watches /\ Coherent(svc, subject, realm)
  BY Zenon, BoundFacts DEF IInv
<1>3. /\ Coherent(svc', w, a.identity)
      /\ svc'.watch.projection.state \notin Settled
      /\ svc'.recovery = NoWatch
      /\ a.identity \in Identities \cup {NoIdentity}
      /\ a.active # NoActive => a.active.handle \in Handles
  BY Zenon, <1>1, <1>2, AdmitKeeps
<1> HIDE DEF a
<1>4. Carried'
  <2> DEFINE n == [h |-> a.active.handle, w |-> w]
  <2>1. n.h = a.active.handle /\ n.w = w
    BY Zenon
  <2> HIDE DEF n
  <2>2. \A k \in workers' : k \in workers \/ (a.active # NoActive /\ k = n)
    BY Zenon, <1>1 DEF n
  <2> QED
    BY Zenon, <1>1, <1>2, <1>3, <2>1, <2>2 DEF IInv, Carried
<1>5. World'
  BY Zenon, <1>1, <1>2, <1>3 DEF IInv, World
<1>6. OutcomeIsTrue'
  BY Zenon, <1>3 DEF OutcomeIsTrue, Settled
<1>7. TrueAnswers'
  BY Zenon, <1>1 DEF IInv, TrueAnswers
<1> QED
  BY Zenon, <1>1, <1>3, <1>4, <1>5, <1>6, <1>7 DEF IInv

\* A worker's calls: what they show is what was shown, or what the chain says
\* of the watch that is active.
LEMMA WorkerStep ==
    ASSUME IInv, NEW a, Answered(svc.watch, a), Watch(a),
           workers' \subseteq workers, UNCHANGED <<subject, realm>>,
           \/ a.projection.state \in Settled
                => a.projection.state = svc.watch.projection.state
           \/ Truthful(subject, a.projection.state)
    PROVE  IInv' /\ svc'.recovery = svc.recovery
<1>1. svc' = [svc EXCEPT !.watch = a] /\ UNCHANGED <<queries, fate, cursor, crashes>>
  BY Zenon DEF Watch, chain
<1>2. Coherent(svc', subject, realm) /\ svc'.watch = a /\ svc'.recovery = svc.recovery
  BY Zenon, <1>1, AnsweredKeeps DEF IInv
<1>3. OutcomeIsTrue'
  <2>1. CASE a.projection.state \in Settled
               => a.projection.state = svc.watch.projection.state
    BY Zenon, <1>1, <1>2, <2>1, StillTrue DEF IInv
  <2>2. CASE Truthful(subject, a.projection.state)
    BY Zenon, <1>1, <1>2, <2>2 DEF OutcomeIsTrue, Truthful
  <2> QED
    BY Zenon, <2>1, <2>2
<1> QED
  BY Zenon, <1>1, <1>2, <1>3 DEF IInv, Carried, World, TrueAnswers

\* What an observation of a watch carries.
LEMMA SeenFields ==
    ASSUME NEW w
    PROVE  /\ Seen(w).kind = w.kind /\ Seen(w).name = w.name
           /\ Seen(w).at = IF w.kind = "Incoming" THEN cursor[w.name] ELSE 0
BY Zenon DEF Seen

\* An observation of a worker's own watch that matches the active one says of
\* the active one what is true of both.
LEMMA MatchIsTrue ==
    ASSUME NEW v, NEW w, Truthful(w, "Confirmed"), MatchesWatch(v, Seen(w))
    PROVE  Truthful(v, "Confirmed")
<1>1. v.kind = w.kind /\ v.name = w.name
  BY Zenon, SeenFields DEF MatchesWatch
<1>2. CASE w.kind = "Incoming"
  <2>1. cursor[w.name] > v.from
    BY Zenon, <1>1, <1>2, SeenFields DEF MatchesWatch
  <2> QED
    BY Zenon, <1>1, <1>2, <2>1 DEF Truthful
<1>3. CASE w.kind # "Incoming"
  BY Zenon, <1>1, <1>3 DEF Truthful
<1> QED
  BY Zenon, <1>2, <1>3

\* A worker presents its handle.
LEMMA WorkersStep ==
    ASSUME IInv, NEW k \in workers,
           \/ \E late \in BOOLEAN : ObserveAction(k, late)
           \/ TimeoutAction(k) \/ EndAction(k)
           \/ \E value \in BOOLEAN : SuspendAction(k, value)
    PROVE  IInv' /\ svc'.recovery = svc.recovery
<1>1. Coherent(svc, subject, realm) /\ svc.watch \in Runtimes
  BY Zenon, CoherentFields DEF IInv
<1>2. ASSUME NEW late \in BOOLEAN, ObserveAction(k, late)
      PROVE  IInv' /\ svc'.recovery = svc.recovery
  <2> DEFINE o == Seen(k.w)
             a == ObserveWatch(svc.watch, k.h, o, late)
  <2>1. /\ Truthful(k.w, "Confirmed") /\ Watch(a)
        /\ workers' \subseteq workers /\ UNCHANGED <<subject, realm>>
    BY Zenon, <1>2 DEF ObserveAction, Last
  <2>2. /\ Answered(svc.watch, a)
        /\ \/ a.projection.state \in {svc.watch.projection.state, "Expired"}
           \/ /\ a.projection.state = "Confirmed"
              /\ svc.watch.active # NoActive
              /\ MatchesWatch(svc.watch.active.watch, o)
    BY Zenon, <1>1, ObserveWatchFacts
  <2>3. "Expired" \notin Settled
    BY SMT DEF Settled
  <2> HIDE DEF a
  <2>4. CASE a.projection.state \in {svc.watch.projection.state, "Expired"}
    BY Zenon, <2>1, <2>2, <2>3, <2>4, WorkerStep
  <2>5. CASE /\ a.projection.state = "Confirmed"
             /\ svc.watch.active # NoActive
             /\ MatchesWatch(svc.watch.active.watch, o)
    <3>1. svc.watch.active.watch = subject
      BY Zenon, <1>1, <2>5 DEF Coherent
    <3>2. Truthful(subject, "Confirmed")
      BY Zenon, <2>1, <2>5, <3>1, MatchIsTrue
    <3> QED
      BY Zenon, <2>1, <2>2, <2>5, <3>2, WorkerStep
  <2> QED
    BY Zenon, <2>2, <2>4, <2>5
<1>3. CASE TimeoutAction(k)
  <2> DEFINE a == TimeoutWatch(svc.watch, k.h)
  <2>1. /\ Watch(a) /\ workers' \subseteq workers /\ UNCHANGED <<subject, realm>>
    BY Zenon, <1>3 DEF TimeoutAction, Last
  <2>2. /\ Answered(svc.watch, a)
        /\ a.projection.state \in {svc.watch.projection.state, "Expired"}
    BY Zenon, <1>1, TimeoutFacts
  <2>3. "Expired" \notin Settled
    BY SMT DEF Settled
  <2> HIDE DEF a
  <2> QED
    BY Zenon, <2>1, <2>2, <2>3, WorkerStep
<1>4. CASE EndAction(k)
  <2>1. PICK state \in {"Cancelled", "Offline", "Degraded"} :
          Last(k, FinishOwned(svc.watch, k.h, state))
    BY Zenon, <1>4 DEF EndAction
  <2> DEFINE a == FinishOwned(svc.watch, k.h, state)
  <2>2. /\ Watch(a) /\ workers' \subseteq workers /\ UNCHANGED <<subject, realm>>
    BY Zenon, <2>1 DEF Last
  <2>3. state \in WatchStates /\ state \notin Settled
    BY SMT DEF WatchStates, Settled
  <2>4. /\ Answered(svc.watch, a)
        /\ a.projection.state \in {svc.watch.projection.state, state}
    BY Zenon, <1>1, <2>3, FinishOwnedFacts
  <2> HIDE DEF a
  <2> QED
    BY Zenon, <2>2, <2>3, <2>4, WorkerStep
<1>5. ASSUME NEW value \in BOOLEAN, SuspendAction(k, value)
      PROVE  IInv' /\ svc'.recovery = svc.recovery
  <2> DEFINE a == SetSuspended(svc.watch, k.h, value)
  <2>1. /\ Watch(a) /\ workers' \subseteq workers /\ UNCHANGED <<subject, realm>>
    BY Zenon, <1>5 DEF SuspendAction
  <2>2. Answered(svc.watch, a) /\ a.projection = svc.watch.projection
    BY Zenon, <1>1, SuspendFacts
  <2> HIDE DEF a
  <2> QED
    BY Zenon, <2>1, <2>2, WorkerStep
<1> QED
  BY Zenon, <1>2, <1>3, <1>4, <1>5

\* The adapter asks the chain about the retained identity.
LEMMA QueryStep ==
    ASSUME IInv, QueryRecovery
    PROVE  IInv' /\ svc' = svc
<1> DEFINE w == svc.recovery
           n == [gen |-> svc.gen, seen |-> Seen(w), outcome |-> Outcome(w)]
<1>1. /\ w # NoWatch /\ queries' = queries \cup {n}
      /\ UNCHANGED <<svc, workers, fate, cursor, crashes, subject, realm>>
  BY Zenon DEF QueryRecovery, chain
<1>2. w \in Watches /\ svc.gen \in 0..MaxGeneration
  BY Zenon, <1>1, CoherentFields DEF IInv
<1>3. w.kind \in Kinds /\ w.name \in Chain
  BY Zenon, <1>2, WatchKinds
<1>4. /\ fate \in [Chain -> Settled \cup {"Pending"}] /\ cursor \in [Chain -> 0..1]
  BY Zenon DEF IInv, World
<1>5. fate[w.name] \in Settled \cup {"Pending"} /\ cursor[w.name] \in 0..1
  BY Zenon, <1>3, <1>4
<1>6. n.gen = svc.gen /\ n.seen = Seen(w) /\ n.outcome = Outcome(w)
  BY Zenon
<1> HIDE DEF w, n
<1>7. Seen(w) \in Observations
  <2> DEFINE c == IF w.kind = "Incoming" THEN cursor[w.name] ELSE 0
  <2>1. c \in 0..1
    BY SMT, <1>5
  <2> HIDE DEF c
  <2> QED
    BY Zenon, <1>3, <2>1 DEF Seen, Observations, c
<1>8. /\ Outcome(w) \in Settled \cup {"Pending"}
      /\ w.kind = "Incoming" => Outcome(w) = "Confirmed"
      /\ w.kind = "Submitted" => Outcome(w) = fate[w.name]
  BY Zenon, <1>5, KindFacts DEF Outcome
<1>9. Carried'
  BY Zenon, <1>1, <1>2, <1>6, <1>7, <1>8 DEF IInv, Carried
<1>10. /\ n.seen.kind = "Submitted" => n.outcome \in {"Pending", fate[n.seen.name]}
       /\ n.seen.kind = "Incoming" =>
            n.outcome = "Confirmed" /\ n.seen.at <= cursor[n.seen.name]
  <2>1. n.seen.kind = w.kind /\ n.seen.name = w.name
    BY Zenon, <1>6, SeenFields
  <2>2. w.kind = "Incoming" => n.seen.at <= cursor[w.name]
    <3>1. w.kind = "Incoming" => n.seen.at = cursor[w.name]
      BY Zenon, <1>6, SeenFields
    <3> QED
      BY SMT, <1>5, <3>1
  <2> QED
    BY Zenon, <1>6, <1>8, <2>1, <2>2
<1>11. TrueAnswers'
  BY Zenon, <1>1, <1>10 DEF IInv, TrueAnswers
<1>12. OutcomeIsTrue'
  BY Zenon, <1>1, StillTrue DEF IInv
<1> QED
  BY Zenon, <1>1, <1>9, <1>11, <1>12 DEF IInv, World

\* A retained watch that is dropped is shown with its outcome, or as
\* unresolved.
Resolved(s, r) ==
    s.recovery # NoWatch /\ r.recovery # s.recovery =>
      /\ r.recovery = NoWatch
      /\ r.watch.projection.state \in {"Confirmed", "Failed", "OutcomeUnresolved"}

\* A step that leaves the recovery alone drops nothing.
LEMMA QuietResolves == \A s, r : Quiet(s, r) => Resolved(s, r)
BY Zenon DEF Quiet, Resolved

\* The end of a recovery, shown as what the chain says or as unresolved.
LEMMA EndingStep ==
    ASSUME IInv, svc.recovery # NoWatch, NEW state \in Settled \cup {"OutcomeUnresolved"},
           state \in Settled => Truthful(subject, state),
           svc' = RecoveryEnded(svc, state), queries' \subseteq queries,
           UNCHANGED <<workers, fate, cursor, crashes, subject, realm>>
    PROVE  IInv' /\ Resolved(svc, svc')
<1>1. state \in WatchStates /\ state \in {"Confirmed", "Failed", "OutcomeUnresolved"}
  BY SMT DEF WatchStates, Settled
<1>2. Coherent(svc, subject, realm) /\ svc \in GuardedServices
  BY Zenon, CoherentFields DEF IInv
<1>3. /\ svc' \in GuardedServices /\ svc'.checkpoint = svc.checkpoint
      /\ svc'.policy = svc.policy /\ svc'.gen = svc.gen /\ svc'.recovery = NoWatch
      /\ svc'.watch = EndRecovery(svc.watch, svc.recovery.kind, state)
  BY Zenon, <1>1, <1>2, EndedFacts
<1>4. Coherent(svc', subject, realm) /\ svc'.watch.projection.state = state
  BY ZenonT(60), <1>1, <1>2, <1>3, EndingKeeps
<1>5. OutcomeIsTrue'
  BY Zenon, <1>4 DEF OutcomeIsTrue, Truthful, Settled
<1> QED
  BY Zenon, <1>1, <1>3, <1>4, <1>5 DEF IInv, Carried, World, TrueAnswers, Resolved

\* The chain's answer arrives, possibly late.
LEMMA AnswerStep ==
    ASSUME IInv, NEW q \in queries, AnswerRecovery(q)
    PROVE  IInv' /\ Resolved(svc, svc')
<1>1. /\ svc' = ReconcileRecovery(svc, q.gen, q.seen, q.outcome)
      /\ queries' \subseteq queries
      /\ UNCHANGED <<workers, fate, cursor, crashes, subject, realm>>
  BY Zenon DEF AnswerRecovery, chain
<1> DEFINE kept == \/ svc.recovery = NoWatch \/ q.gen # svc.gen
                   \/ ~MatchesWatch(svc.recovery, q.seen) \/ q.outcome = "Pending"
<1>2. CASE kept
  <2>1. svc' = svc
    BY Zenon, <1>1, <1>2 DEF ReconcileRecovery
  <2>2. OutcomeIsTrue'
    BY Zenon, <1>1, <2>1, StillTrue DEF IInv
  <2> QED
    BY Zenon, <1>1, <2>1, <2>2 DEF IInv, Carried, World, TrueAnswers, Resolved
<1>3. CASE ~kept
  <2>1. svc' = RecoveryEnded(svc, q.outcome)
    BY Zenon, <1>1, <1>3 DEF ReconcileRecovery, RecoveryEnded
  <2>2. /\ q.outcome \in Settled /\ q.seen \in Observations
        /\ svc.recovery = subject /\ svc.recovery \in Watches
    BY Zenon, <1>3, CoherentFields DEF IInv, Carried, Coherent
  <2>3. subject.kind = q.seen.kind /\ subject.name = q.seen.name
    BY Zenon, <1>3, <2>2 DEF MatchesWatch
  <2>4. Truthful(subject, q.outcome)
    <3>1. CASE subject.kind = "Incoming"
      <4>1. /\ q.outcome = "Confirmed" /\ q.seen.at <= cursor[subject.name]
            /\ q.seen.at > subject.from
        BY Zenon, <1>3, <2>2, <2>3, <3>1 DEF IInv, TrueAnswers, MatchesWatch
      <4>2. /\ subject.name \in Chain /\ subject.from \in 0..1
            /\ cursor \in [Chain -> 0..1]
        BY Zenon, <2>2, WatchKinds DEF IInv, World
      <4>3. q.seen.at \in 0..1
        BY SMT, <2>2 DEF Observations
      <4>4. cursor[subject.name] > subject.from
        BY SMT, <4>1, <4>2, <4>3
      <4> QED
        BY Zenon, <3>1, <4>1, <4>4 DEF Truthful
    <3>2. CASE subject.kind # "Incoming"
      <4>1. subject.kind = "Submitted"
        BY Zenon, <2>2, <3>2, WatchKinds, KindFacts
      <4>2. q.outcome = fate[subject.name]
        BY Zenon, <1>3, <2>3, <4>1 DEF IInv, TrueAnswers
      <4> QED
        BY Zenon, <3>2, <4>2 DEF Truthful
    <3> QED
      BY Zenon, <3>1, <3>2
  <2> QED
    BY Zenon, <1>1, <1>3, <2>1, <2>2, <2>4, EndingStep
<1> QED
  BY Zenon, <1>2, <1>3

\* The retained recovery expires.
LEMMA ExpireStep ==
    ASSUME IInv, ExpireAction
    PROVE  IInv' /\ Resolved(svc, svc')
<1>1. /\ svc.recovery # NoWatch /\ svc' = RecoveryEnded(svc, "OutcomeUnresolved")
      /\ queries' \subseteq queries
      /\ UNCHANGED <<workers, fate, cursor, crashes, subject, realm>>
  BY Zenon DEF ExpireAction, ExpireRecovery, RecoveryEnded, chain
<1>2. "OutcomeUnresolved" \notin Settled
  BY SMT DEF Settled
<1> QED
  BY Zenon, <1>1, <1>2, EndingStep

\* The process dies and another one takes over.
LEMMA CrashStep ==
    ASSUME IInv, NEW checkpointed \in BOOLEAN, Crash(checkpointed)
    PROVE  IInv' /\ crashes' # crashes
<1> DEFINE usable == checkpointed /\ Restorable(Snapshot(svc))
<1>1. /\ crashes < MaxCrashes /\ crashes' = crashes + 1
      /\ workers' = {} /\ queries' = {} /\ UNCHANGED <<fate, cursor>>
      /\ svc' = IF usable THEN Restore(Snapshot(svc)) ELSE NewService
      /\ subject' = IF usable THEN subject ELSE NoWatch
      /\ realm' = IF usable THEN realm ELSE NoIdentity
  BY Zenon DEF Crash, chain
<1> HIDE DEF usable
<1>2. crashes' \in 0..MaxCrashes /\ crashes' # crashes
  <2>1. crashes \in 0..MaxCrashes
    BY Zenon DEF IInv, World
  <2> QED
    BY SMT, <1>1, <2>1, BoundFacts
<1>3. Coherent(svc', subject', realm') /\ svc'.watch.projection.state \notin Settled
  <2>1. CASE usable
    BY Zenon, <1>1, <2>1, RestoreKeeps DEF IInv
  <2>2. CASE ~usable
    BY Zenon, <1>1, <2>2, NewKeeps
  <2> QED
    BY Zenon, <2>1, <2>2
<1>4. World'
  BY Zenon, <1>1, <1>2 DEF IInv, World
<1>5. OutcomeIsTrue'
  BY Zenon, <1>3 DEF OutcomeIsTrue, Settled
<1> QED
  BY Zenon, <1>1, <1>2, <1>3, <1>4, <1>5 DEF IInv, Carried, TrueAnswers

-----------------------------------------------------------------------------
(***************************************************************************)
(* The theorems                                                            *)
(***************************************************************************)
LEMMA IInvInit == Init => IInv
<1> SUFFICES ASSUME Init PROVE IInv
  OBVIOUS
<1>1. Coherent(svc, subject, realm) /\ svc.watch.projection.state \notin Settled
  BY Zenon, NewKeeps DEF Init
<1>2. World
  <2>1. 0 \in 0..MaxCrashes /\ 0 \in 0..1
    BY SMT, BoundFacts
  <2> QED
    BY Zenon, <2>1 DEF Init, World
<1> QED
  BY Zenon, <1>1, <1>2 DEF IInv, Init, Carried, TrueAnswers, OutcomeIsTrue, Settled

\* One step keeps the invariant and answers for a recovery it drops.
LEMMA IInvNext ==
    ASSUME IInv, [Next]_vars
    PROVE  IInv' /\ (crashes' = crashes => Resolved(svc, svc'))
<1>1. CASE UNCHANGED vars
  <2>1. OutcomeIsTrue'
    BY Zenon, <1>1, StillTrue DEF IInv, vars
  <2> QED
    BY Zenon, <1>1, <2>1 DEF IInv, Carried, World, TrueAnswers, Resolved, vars
<1>2. ASSUME NEW x \in Chain, Finalize(x) \/ Arrive(x)
      PROVE  IInv' /\ Resolved(svc, svc')
  <2>1. svc' = svc
    BY Zenon, <1>2 DEF Finalize, Arrive
  <2> QED
    BY Zenon, <1>2, <2>1, FinalizeStep, ArriveStep DEF Resolved
<1>3. CASE \/ \E id \in Identities : Select(id)
           \/ Backgrounded \/ Foreground \/ Reconciled
  BY Zenon, <1>3, SendStep, QuietResolves
<1>4. ASSUME NEW w \in Admissible, NEW live \in BOOLEAN, AdmitAction(w, live)
      PROVE  IInv' /\ Resolved(svc, svc')
  BY Zenon, <1>4, AdmitStep DEF Resolved
<1>5. ASSUME NEW k \in workers,
             \/ \E late \in BOOLEAN : ObserveAction(k, late)
             \/ TimeoutAction(k) \/ EndAction(k)
             \/ \E value \in BOOLEAN : SuspendAction(k, value)
      PROVE  IInv' /\ Resolved(svc, svc')
  BY Zenon, <1>5, WorkersStep DEF Resolved
<1>6. CASE QueryRecovery
  BY Zenon, <1>6, QueryStep DEF Resolved
<1>7. ASSUME NEW q \in queries, AnswerRecovery(q)
      PROVE  IInv' /\ Resolved(svc, svc')
  BY Zenon, <1>7, AnswerStep
<1>8. CASE ExpireAction
  BY Zenon, <1>8, ExpireStep
<1>9. ASSUME NEW checkpointed \in BOOLEAN, Crash(checkpointed)
      PROVE  IInv' /\ crashes' # crashes
  BY Zenon, <1>9, CrashStep
<1> QED
  BY Zenon, <1>1, <1>2, <1>3, <1>4, <1>5, <1>6, <1>7, <1>8, <1>9 DEF Next

(* IInv is an inductive invariant of the composed service. *)
THEOREM RecoveryInvariant == Spec => []IInv
<1>1. IInv /\ [Next]_vars => IInv'
  BY IInvNext
<1> QED
  BY <1>1, IInvInit, PTL DEF Spec

(* Type correctness: every handle, watch, answer and runtime stays in its  *)
(* type, whatever workers, answers and restarts do.                        *)
THEOREM TypeCorrect == Spec => []TypeOK
<1>1. IInv => TypeOK
  BY Zenon, CoherentFields, GuardedType
     DEF IInv, Carried, World, Settled, TypeOK
<1> QED
  BY <1>1, RecoveryInvariant, PTL

(* An active watch belongs to the current generation and realm, no watch   *)
(* is active while one is retained, and service and runtime agree on the   *)
(* generation.                                                             *)
THEOREM CurrentWatch == Spec => []WatchIsCurrent
<1>1. IInv => WatchIsCurrent
  BY Zenon DEF IInv, Coherent, WatchIsCurrent
<1> QED
  BY <1>1, RecoveryInvariant, PTL

(* A watch is shown as confirmed or failed only if the chain says so of    *)
(* that very watch.                                                        *)
THEOREM TrueOutcome == Spec => []OutcomeIsTrue
<1>1. IInv => OutcomeIsTrue
  BY Zenon DEF IInv
<1> QED
  BY <1>1, RecoveryInvariant, PTL

(* No selection and no restart moves the service to another realm under a  *)
(* retained submission.                                                    *)
THEOREM RetainedRealm == Spec => []RecoveryKeepsRealm
<1>1. IInv => RecoveryKeepsRealm
  BY Zenon DEF IInv, Coherent, RecoveryKeepsRealm
<1> QED
  BY <1>1, RecoveryInvariant, PTL

(* Within a process a retained identity is dropped only by showing its     *)
(* outcome or that it stayed unresolved.                                   *)
THEOREM AnsweredRecovery == Spec => RecoveryIsAnswered
<1> DEFINE A == svc.recovery # NoWatch /\ svc'.recovery # svc.recovery /\ crashes' = crashes
                  => /\ svc'.recovery = NoWatch
                     /\ svc'.watch.projection.state
                          \in {"Confirmed", "Failed", "OutcomeUnresolved"}
<1>1. IInv /\ [Next]_vars => [A]_vars
  BY Zenon, IInvNext DEF Resolved
<1> QED
  BY <1>1, RecoveryInvariant, PTL DEF Spec, RecoveryIsAnswered

=============================================================================
