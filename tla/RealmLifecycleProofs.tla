------------------------ MODULE RealmLifecycleProofs ------------------------
(***************************************************************************)
(* What the operators of ActionWatch and RealmLifecycle do to the fields   *)
(* of the runtime, of the policy and of the guarded service, and that they *)
(* keep the types, for every configuration the policy accepts.             *)
(***************************************************************************)
EXTENDS RealmLifecycle, WellFoundedInduction, TLAPS

-----------------------------------------------------------------------------
(***************************************************************************)
(* Extrema                                                                 *)
(***************************************************************************)
LEMMA MaxPair ==
    ASSUME NEW a \in Int, NEW b \in Int
    PROVE  Max({a, b}) = IF a >= b THEN a ELSE b
<1> DEFINE m == IF a >= b THEN a ELSE b
<1>1. m \in {a, b} /\ \A y \in {a, b} : m >= y
  BY SMT
<1>2. \A x \in {a, b} : (\A y \in {a, b} : x >= y) => x = m
  BY SMT
<1> HIDE DEF m
<1> QED
  BY Zenon, <1>1, <1>2 DEF Max, m

\* The smaller of two numbers.
LEMMA MinPair ==
    ASSUME NEW a \in Int, NEW b \in Int
    PROVE  Min({a, b}) = IF a <= b THEN a ELSE b
<1> DEFINE m == IF a <= b THEN a ELSE b
<1>1. m \in {a, b} /\ \A y \in {a, b} : m <= y
  BY SMT
<1>2. \A x \in {a, b} : (\A y \in {a, b} : x <= y) => x = m
  BY SMT
<1> HIDE DEF m
<1> QED
  BY Zenon, <1>1, <1>2 DEF Min, m

\* A non-empty set of naturals below a bound has a greatest element.
LEMMA BoundedMax ==
    ASSUME NEW S \in SUBSET Nat, S # {}, NEW n \in Nat, \A x \in S : x <= n
    PROVE  Max(S) \in S /\ \A y \in S : Max(S) >= y
<1> DEFINE T == {i \in Nat : i <= n /\ n - i \in S}
           R == OpToRel(<, Nat)
<1>1. T \subseteq Nat
  OBVIOUS
<1>2. T # {}
  <2>1. PICK x \in S : TRUE
    BY Zenon
  <2>2. n - x \in Nat /\ n - x <= n /\ n - (n - x) = x
    BY SMT, <2>1
  <2> QED
    BY Zenon, <2>1, <2>2
<1>3. PICK i \in T : \A j \in T : ~(<<j, i>> \in R)
  <2> HIDE DEF T, R
  <2>1. IsWellFoundedOn(R, Nat)
    BY Zenon, NatLessThanWellFounded DEF R
  <2> QED
    BY Zenon, <1>1, <1>2, <2>1, WFMin
<1>4. ASSUME NEW y \in S
      PROVE  n - i >= y
  <2>1. n - y \in Nat /\ n - y <= n /\ n - (n - y) = y
    BY SMT
  <2>2. n - y \in T
    BY Zenon, <2>1
  <2>3. ~(n - y < i)
    BY Zenon, <1>3, <2>1, <2>2 DEF OpToRel
  <2> QED
    BY SMT, <2>1, <2>3
<1>5. \E x \in S : \A y \in S : x >= y
  BY Zenon, <1>3, <1>4
<1> QED
  BY Zenon, <1>5 DEF Max

\* The ages are bounded: the jitter stays in its window.
LEMMA MaxAgeNat == MaxAge \in Nat
<1> DEFINE S == {Debounce, StaleAge, RequestTimeout}
                  \cup {BackoffMax + Jitter[id] : id \in Identities}
           n == Debounce + StaleAge + RequestTimeout + BackoffMax + JitterWindow
<1>1. /\ Debounce \in Nat /\ StaleAge \in Nat /\ RequestTimeout \in Nat
      /\ BackoffMax \in Nat /\ JitterWindow \in Nat
      /\ \A id \in Identities : Jitter[id] \in Nat /\ Jitter[id] <= JitterWindow
  BY SMT, LifecycleConfig
<1>2. S \in SUBSET Nat /\ S # {} /\ n \in Nat /\ \A x \in S : x <= n
  BY SMT, <1>1
<1> HIDE DEF n
<1>3. Max(S) \in S
  BY Zenon, <1>2, BoundedMax
<1> QED
  BY Zenon, <1>2, <1>3 DEF MaxAge

-----------------------------------------------------------------------------
(***************************************************************************)
(* The watch runtime                                                       *)
(***************************************************************************)
\* The runtimes the methods produce: an active watch is a watch.
Runtimes == {a \in WatchRuntimes : a.active # NoActive => a.active.watch \in Watches}

\* What the configuration says about the constants.
LEMMA ConfigFacts ==
    /\ MaxGeneration \in Nat \ {0} /\ RecoveryAttempts \in Nat \ {0}
    /\ RetryCeiling \in Nat \ {0} /\ SequenceWidth \in Nat /\ SequenceWidth > 1
    /\ NoIdentity \notin Identities
BY SMT, LifecycleConfig

\* The fields of a watch.
LEMMA WatchKinds ==
    /\ \A w \in Watches : w.kind \in Kinds /\ w.name \in Chain /\ w.from \in 0..1
    /\ NoWatch \notin Watches
BY SMT DEF Watches, NoWatch, Kinds

\* Generations saturate.
LEMMA BumpType == \A g \in 0..MaxGeneration : Bump(g) \in 0..MaxGeneration
BY SMT, ConfigFacts DEF Bump

Actives == [watch : Watches \cup {NoWatch}, id : Identities \cup {NoIdentity},
            handle : [gen : 0..MaxGeneration, seq : Nat]]

\* No active watch is a value of its slot.
LEMMA NoActiveType == NoActive \in Actives
BY SMT, ConfigFacts DEF NoActive, NoHandle, Actives

\* The runtimes of the watch, field by field.
LEMMA RuntimeFields ==
    WatchRuntimes =
      [identity : Identities \cup {NoIdentity}, gen : 0..MaxGeneration, seq : Nat,
       active : Actives, projection : Projections \cup {NoProjection},
       suspended : BOOLEAN]
BY Zenon DEF WatchRuntimes, Actives

\* A new runtime has no watch.
LEMMA NewRuntime == NewWatchRuntime \in Runtimes /\ NewWatchRuntime.active = NoActive
BY SMT, ConfigFacts DEF NewWatchRuntime, Runtimes, WatchRuntimes, NoActive, NoHandle

\* finish leaves no watch active and touches nothing but the projection.
LEMMA FinishFacts ==
    ASSUME NEW a \in Runtimes, NEW state \in WatchStates
    PROVE  LET r == Finish(a, state)
           IN /\ r \in Runtimes /\ r.active = NoActive
              /\ r.identity = a.identity /\ r.gen = a.gen /\ r.seq = a.seq
              /\ r.projection.state \in {a.projection.state, state}
              /\ a.active = NoActive => r = a
              /\ a.active # NoActive => r.projection.state = state
<1>1. CASE a.active = NoActive
  BY SMT, <1>1 DEF Finish
<1>2. CASE a.active # NoActive
  <2>1. /\ a.active.watch.kind \in Kinds
        /\ a.active.handle.gen \in 0..MaxGeneration
    BY SMT, <1>2, WatchKinds DEF Runtimes, WatchRuntimes
  <2> DEFINE pr == [kind |-> a.active.watch.kind, state |-> state,
                    gen |-> a.active.handle.gen]
             r == [a EXCEPT !.active = NoActive, !.suspended = FALSE,
                            !.projection = pr]
  <2>2. pr \in Projections /\ pr.state = state
    BY SMT, <2>1 DEF Projections
  <2>3. a \in WatchRuntimes
    BY Zenon DEF Runtimes
  <2> HIDE DEF pr
  <2>4. r \in WatchRuntimes
    BY Zenon, <2>2, <2>3, NoActiveType, RuntimeFields
  <2>7. /\ r.active = NoActive /\ r.projection = pr
        /\ r.identity = a.identity /\ r.gen = a.gen /\ r.seq = a.seq
    BY SMT, <2>3, RuntimeFields
  <2>5. Finish(a, state) = r
    BY Zenon, <1>2 DEF Finish, pr
  <2> HIDE DEF r
  <2>6. r \in Runtimes
    BY Zenon, <2>4, <2>7 DEF Runtimes
  <2> QED
    BY SMT, <1>2, <2>2, <2>5, <2>6, <2>7
<1> QED
  BY Zenon, <1>1, <1>2

\* The calls of a worker may end the watch; they keep the realm and the
\* generation.
Answered(a, r) ==
    /\ r \in Runtimes /\ r.active \in {NoActive, a.active}
    /\ r.identity = a.identity /\ r.gen = a.gen /\ r.seq = a.seq

\* A handle finishes its own watch or nothing.
LEMMA FinishOwnedFacts ==
    ASSUME NEW a \in Runtimes, NEW h, NEW state \in WatchStates
    PROVE  LET r == FinishOwned(a, h, state)
           IN Answered(a, r) /\ r.projection.state \in {a.projection.state, state}
BY Zenon, FinishFacts DEF FinishOwned, Answered

\* A handle times out its own watch or nothing.
LEMMA TimeoutFacts ==
    ASSUME NEW a \in Runtimes, NEW h
    PROVE  LET r == TimeoutWatch(a, h)
           IN /\ Answered(a, r)
              /\ r.projection.state \in {a.projection.state, "Expired"}
<1>1. "Expired" \in WatchStates
  BY Zenon DEF WatchStates
<1> QED
  BY Zenon, <1>1, FinishOwnedFacts DEF TimeoutWatch, Answered

\* observe confirms only an active watch that the observation matches.
LEMMA ObserveWatchFacts ==
    ASSUME NEW a \in Runtimes, NEW h, NEW o, NEW late \in BOOLEAN
    PROVE  LET r == ObserveWatch(a, h, o, late)
           IN /\ Answered(a, r)
              /\ \/ r.projection.state \in {a.projection.state, "Expired"}
                 \/ /\ r.projection.state = "Confirmed"
                    /\ a.active # NoActive
                    /\ MatchesWatch(a.active.watch, o)
<1>1. "Expired" \in WatchStates /\ "Confirmed" \in WatchStates
  BY Zenon DEF WatchStates
<1>2. CASE a.suspended \/ a.active = NoActive \/ a.active.handle # h
  BY Zenon, <1>2 DEF ObserveWatch, Answered
<1>3. CASE /\ ~(a.suspended \/ a.active = NoActive \/ a.active.handle # h)
           /\ late
  BY Zenon, <1>1, <1>3, FinishFacts DEF ObserveWatch, Answered
<1>4. CASE /\ ~(a.suspended \/ a.active = NoActive \/ a.active.handle # h)
           /\ ~late
  <2>1. CASE MatchesWatch(a.active.watch, o)
    BY Zenon, <1>1, <1>4, <2>1, FinishFacts DEF ObserveWatch, Answered
  <2>2. CASE ~MatchesWatch(a.active.watch, o)
    BY Zenon, <1>4, <2>2 DEF ObserveWatch, Answered
  <2> QED
    BY Zenon, <2>1, <2>2
<1> QED
  BY Zenon, <1>2, <1>3, <1>4

\* Suspending changes no projection.
LEMMA SuspendFacts ==
    ASSUME NEW a \in Runtimes, NEW h, NEW value \in BOOLEAN
    PROVE  LET r == SetSuspended(a, h, value)
           IN Answered(a, r) /\ r.projection = a.projection
<1> DEFINE r == [a EXCEPT !.suspended = value]
<1>1. a \in WatchRuntimes
  BY Zenon DEF Runtimes
<1>2. r \in WatchRuntimes
  BY Zenon, <1>1, RuntimeFields
<1>3. /\ r.active = a.active /\ r.identity = a.identity /\ r.gen = a.gen
      /\ r.seq = a.seq /\ r.projection = a.projection
  BY SMT, <1>1, RuntimeFields
<1>4. r \in Runtimes
  <2> HIDE DEF r
  <2> QED
    BY Zenon, <1>2, <1>3 DEF Runtimes
<1> HIDE DEF r
<1> QED
  BY Zenon, <1>3, <1>4 DEF SetSuspended, Answered, r

\* The absent projection has no state of a watch.
LEMMA NoProjectionFacts ==
    NoProjection.state = "None" /\ \A st \in WatchStates : st # "None"
BY SMT DEF NoProjection, WatchStates

\* select_realm: another realm drops the watch and starts a generation.
LEMMA SelectRealmFacts ==
    ASSUME NEW a \in Runtimes, NEW id \in Identities
    PROVE  LET r == SelectRealm(a, id)
           IN /\ r \in Runtimes /\ r.identity = id /\ r.seq = a.seq
              /\ a.identity = id => r = a
              /\ a.identity # id => /\ r.active = NoActive
                                    /\ r.projection.state = "None"
<1> DEFINE r == [a EXCEPT !.active = NoActive, !.projection = NoProjection,
                          !.suspended = FALSE, !.gen = Bump(a.gen),
                          !.identity = id]
<1>1. a \in WatchRuntimes /\ a.gen \in 0..MaxGeneration
  BY SMT, RuntimeFields DEF Runtimes
<1>2. Bump(a.gen) \in 0..MaxGeneration
  BY Zenon, <1>1, BumpType
<1>3. r \in WatchRuntimes
  BY Zenon, <1>1, <1>2, NoActiveType, RuntimeFields
<1>4. /\ r.active = NoActive /\ r.identity = id /\ r.seq = a.seq
      /\ r.projection = NoProjection
  BY SMT, <1>1, RuntimeFields
<1> HIDE DEF r
<1>5. r \in Runtimes
  BY Zenon, <1>3, <1>4 DEF Runtimes
<1> QED
  BY Zenon, <1>4, <1>5, NoProjectionFacts DEF SelectRealm, r

\* settle_recovery and expire_recovery
LEMMA EndRecoveryFacts ==
    ASSUME NEW a \in Runtimes, NEW w \in Watches, NEW state \in WatchStates
    PROVE  LET r == EndRecovery(a, w.kind, state)
           IN /\ Answered(a, r) /\ r.active = NoActive
              /\ r.projection.state = state
<1> DEFINE pr == [kind |-> w.kind, state |-> state, gen |-> a.gen]
           r == [a EXCEPT !.active = NoActive, !.suspended = FALSE,
                          !.projection = pr]
<1>1. a \in WatchRuntimes /\ a.gen \in 0..MaxGeneration
  BY SMT, RuntimeFields DEF Runtimes
<1>2. pr \in Projections /\ pr.state = state
  BY SMT, <1>1, WatchKinds DEF Projections
<1> HIDE DEF pr
<1>3. r \in WatchRuntimes
  BY Zenon, <1>1, <1>2, NoActiveType, RuntimeFields
<1>4. /\ r.active = NoActive /\ r.identity = a.identity /\ r.seq = a.seq
      /\ r.gen = a.gen /\ r.projection = pr
  BY SMT, <1>1, RuntimeFields
<1>5. EndRecovery(a, w.kind, state) = r
  BY Zenon DEF EndRecovery, pr
<1> HIDE DEF r
<1>6. r \in Runtimes
  BY Zenon, <1>3, <1>4 DEF Runtimes
<1> QED
  BY Zenon, <1>2, <1>4, <1>5, <1>6 DEF Answered

\* An unknown outcome is neither confirmed nor failed.
LEMMA UnknownFacts ==
    \A k \in Kinds : /\ UnknownState(k) \in WatchStates
                     /\ UnknownState(k) \notin {"Confirmed", "Failed"}
BY SMT DEF UnknownState, WatchStates, Kinds

\* lifecycle_boundary: no watch survives it, and the generation moves on.
LEMMA BoundaryFacts ==
    ASSUME NEW a \in Runtimes
    PROVE  LET r == Boundary(a)
           IN /\ r \in Runtimes /\ r.active = NoActive
              /\ r.identity = a.identity /\ r.seq = a.seq /\ r.gen = Bump(a.gen)
              /\ a.active = NoActive => r.projection = a.projection
              /\ a.active # NoActive =>
                   /\ BoundaryRecovery(a) \in Watches
                   /\ r.projection.state \notin {"Confirmed", "Failed"}
<1> DEFINE g == Bump(a.gen)
           b == [a EXCEPT !.gen = g, !.suspended = FALSE]
           k == a.active.watch.kind
           pr == [kind |-> k, state |-> UnknownState(k), gen |-> g]
           r == [b EXCEPT !.active = NoActive, !.projection = pr]
<1>1. a \in WatchRuntimes /\ a.gen \in 0..MaxGeneration
  BY SMT, RuntimeFields DEF Runtimes
<1>2. g \in 0..MaxGeneration
  BY Zenon, <1>1, BumpType
<1>3. Boundary(a) = IF a.active = NoActive THEN b ELSE r
  BY Zenon DEF Boundary
<1>4. a.active # NoActive => /\ BoundaryRecovery(a) \in Watches /\ k \in Kinds
                             /\ pr \in Projections
                             /\ pr.state \notin {"Confirmed", "Failed"}
  <2> SUFFICES ASSUME a.active # NoActive
               PROVE  /\ BoundaryRecovery(a) \in Watches /\ k \in Kinds
                      /\ pr \in Projections
                      /\ pr.state \notin {"Confirmed", "Failed"}
    BY Zenon
  <2>1. BoundaryRecovery(a) \in Watches /\ k \in Kinds
    BY Zenon, WatchKinds DEF Runtimes, BoundaryRecovery
  <2>2. UnknownState(k) \in WatchStates /\ UnknownState(k) \notin {"Confirmed", "Failed"}
    BY Zenon, <2>1, UnknownFacts
  <2> HIDE DEF k, g
  <2>3. pr \in Projections /\ pr.state = UnknownState(k)
    BY SMT, <1>2, <2>1, <2>2 DEF Projections
  <2> QED
    BY Zenon, <2>1, <2>2, <2>3
<1> HIDE DEF g, pr, k
<1>5. b \in WatchRuntimes
  BY Zenon, <1>1, <1>2, RuntimeFields
<1>6. /\ b.active = a.active /\ b.identity = a.identity /\ b.seq = a.seq
      /\ b.gen = g /\ b.projection = a.projection
  BY SMT, <1>1, RuntimeFields
<1> HIDE DEF b
<1>7. CASE a.active = NoActive
  <2>1. b \in Runtimes
    BY Zenon, <1>5, <1>6, <1>7 DEF Runtimes
  <2> QED
    BY Zenon, <1>3, <1>6, <1>7, <2>1 DEF g
<1>8. CASE a.active # NoActive
  <2>1. r \in WatchRuntimes
    BY Zenon, <1>4, <1>5, <1>8, NoActiveType, RuntimeFields
  <2>2. /\ r.active = NoActive /\ r.identity = b.identity /\ r.seq = b.seq
        /\ r.gen = b.gen /\ r.projection = pr
    BY SMT, <1>5, RuntimeFields
  <2> HIDE DEF r
  <2>3. r \in Runtimes
    BY Zenon, <2>1, <2>2 DEF Runtimes
  <2> QED
    BY Zenon, <1>3, <1>4, <1>6, <1>8, <2>2, <2>3 DEF g
<1> QED
  BY Zenon, <1>7, <1>8

\* admit replaces the active watch, or leaves none when it refuses the new
\* one; what it shows is never an outcome.
LEMMA AdmitWatchFacts ==
    ASSUME NEW a \in Runtimes, NEW w \in Watches, NEW live \in BOOLEAN
    PROVE  LET r == AdmitWatch(a, w, live)
           IN /\ r \in Runtimes /\ r.identity = a.identity /\ r.gen = a.gen
              /\ r.seq \in {a.seq, a.seq + 1}
              /\ r.projection.state \notin {"Confirmed", "Failed"}
              /\ r.active # NoActive =>
                   /\ r.active.watch = w /\ r.active.id = a.identity
                   /\ r.active.handle = [gen |-> a.gen, seq |-> a.seq + 1]
                   /\ a.identity # NoIdentity
<1> DEFINE e == Finish(a, "Superseded")
           f == [e EXCEPT !.suspended = FALSE]
           shown(state) == [kind |-> w.kind, state |-> state, gen |-> a.gen]
           h == [gen |-> a.gen, seq |-> a.seq + 1]
           act == [watch |-> w, id |-> a.identity, handle |-> h]
           refused(state) == [f EXCEPT !.projection = shown(state)]
           r == [f EXCEPT !.seq = h.seq, !.active = act,
                          !.projection = shown("Waiting")]
<1>1. /\ a \in WatchRuntimes /\ a.gen \in 0..MaxGeneration /\ a.seq \in Nat
      /\ a.identity \in Identities \cup {NoIdentity}
  BY SMT, RuntimeFields DEF Runtimes
<1>2. ASSUME NEW state \in {"Degraded", "Expired", "Waiting"}
      PROVE  /\ shown(state) \in Projections /\ shown(state).state = state
             /\ state \notin {"Confirmed", "Failed"}
  BY SMT, <1>1, WatchKinds DEF Projections, WatchStates
<1>3. /\ h.seq = a.seq + 1 /\ h.seq \in Nat /\ act \in Actives
      /\ act.watch = w /\ act.id = a.identity /\ act.handle = h
  BY SMT, <1>1 DEF Actives
<1>4. /\ e \in Runtimes /\ e.active = NoActive /\ e.identity = a.identity
      /\ e.gen = a.gen /\ e.seq = a.seq
  <2>1. "Superseded" \in WatchStates
    BY Zenon DEF WatchStates
  <2> QED
    BY Zenon, <2>1, FinishFacts
<1>5. AdmitWatch(a, w, live) =
        IF a.identity = NoIdentity THEN refused("Degraded")
        ELSE IF ~live THEN refused("Expired") ELSE r
  BY Zenon DEF AdmitWatch
<1> HIDE DEF e
<1>6. e \in WatchRuntimes
  BY Zenon, <1>4 DEF Runtimes
<1>7. f \in WatchRuntimes
  BY Zenon, <1>6, RuntimeFields
<1>8. /\ f.active = NoActive /\ f.identity = a.identity /\ f.gen = a.gen
      /\ f.seq = a.seq
  BY SMT, <1>4, <1>6, RuntimeFields
<1> HIDE DEF f, act, shown, h
<1>9. ASSUME NEW state \in {"Degraded", "Expired"}
      PROVE  /\ refused(state) \in Runtimes /\ refused(state).active = NoActive
             /\ refused(state).identity = a.identity
             /\ refused(state).gen = a.gen /\ refused(state).seq = a.seq
             /\ refused(state).projection.state \notin {"Confirmed", "Failed"}
  <2>0. /\ shown(state) \in Projections
        /\ shown(state).state \notin {"Confirmed", "Failed"}
    BY Zenon, <1>2
  <2>1. refused(state) \in WatchRuntimes
    BY Zenon, <1>7, <2>0, RuntimeFields
  <2>2. /\ refused(state).active = NoActive
        /\ refused(state).identity = a.identity
        /\ refused(state).gen = a.gen /\ refused(state).seq = a.seq
        /\ refused(state).projection = shown(state)
    BY SMT, <1>7, <1>8, RuntimeFields
  <2> HIDE DEF refused
  <2> QED
    BY Zenon, <2>0, <2>1, <2>2 DEF Runtimes
<1>10. /\ r \in Runtimes /\ r.active = act /\ r.identity = a.identity
       /\ r.gen = a.gen /\ r.seq = a.seq + 1
       /\ r.projection.state \notin {"Confirmed", "Failed"}
  <2>0. /\ shown("Waiting") \in Projections
        /\ shown("Waiting").state \notin {"Confirmed", "Failed"}
    BY Zenon, <1>2
  <2>1. r \in WatchRuntimes
    BY Zenon, <1>3, <1>7, <2>0, RuntimeFields
  <2>2. /\ r.active = act /\ r.identity = a.identity
        /\ r.gen = a.gen /\ r.seq = h.seq /\ r.projection = shown("Waiting")
    BY SMT, <1>7, <1>8, RuntimeFields
  <2> HIDE DEF r
  <2> QED
    BY Zenon, <1>3, <2>0, <2>1, <2>2 DEF Runtimes
<1> HIDE DEF refused, r
<1>11. CASE a.identity = NoIdentity
  BY Zenon, <1>5, <1>9, <1>11
<1>12. CASE a.identity # NoIdentity /\ ~live
  BY Zenon, <1>5, <1>9, <1>12
<1>13. CASE a.identity # NoIdentity /\ live
  BY Zenon, <1>3, <1>5, <1>10, <1>13 DEF h
<1> QED
  BY Zenon, <1>11, <1>12, <1>13

\* The runtime of a restarted process holds no watch.
LEMMA RestoreWatchFacts ==
    ASSUME NEW id \in Identities \cup {NoIdentity},
           NEW rec \in Watches \cup {NoWatch}, NEW g \in 0..MaxGeneration
    PROVE  LET r == RestoreWatch(id, rec, g)
           IN /\ r \in Runtimes /\ r.active = NoActive
              /\ r.identity = id /\ r.gen = g /\ r.seq = 0
              /\ r.projection.state \notin {"Confirmed", "Failed"}
<1> DEFINE n == NewWatchRuntime
           pr == IF id = NoIdentity \/ rec = NoWatch THEN NoProjection
                 ELSE [kind |-> rec.kind, state |-> UnknownState(rec.kind),
                       gen |-> g]
           r == [n EXCEPT !.identity = id, !.gen = g, !.projection = pr]
<1>1. n \in WatchRuntimes /\ n.active = NoActive /\ n.seq = 0
  BY Zenon, NewRuntime DEF Runtimes, NewWatchRuntime
<1>2. /\ pr \in Projections \cup {NoProjection}
      /\ pr.state \notin {"Confirmed", "Failed"}
  <2>1. CASE id = NoIdentity \/ rec = NoWatch
    BY SMT, <2>1 DEF NoProjection
  <2>2. CASE ~(id = NoIdentity \/ rec = NoWatch)
    <3>1. rec.kind \in Kinds
      BY Zenon, <2>2, WatchKinds
    <3>2. /\ UnknownState(rec.kind) \in WatchStates
          /\ UnknownState(rec.kind) \notin {"Confirmed", "Failed"}
      BY Zenon, <3>1, UnknownFacts
    <3>3. pr = [kind |-> rec.kind, state |-> UnknownState(rec.kind), gen |-> g]
      BY Zenon, <2>2
    <3>4. pr \in Projections /\ pr.state = UnknownState(rec.kind)
      BY SMT, <3>1, <3>2, <3>3 DEF Projections
    <3> QED
      BY Zenon, <3>2, <3>4
  <2> QED
    BY Zenon, <2>1, <2>2
<1>3. RestoreWatch(id, rec, g) = r
  BY Zenon DEF RestoreWatch
<1> HIDE DEF n, pr
<1>4. r \in WatchRuntimes
  BY Zenon, <1>1, <1>2, RuntimeFields
<1>5. /\ r.active = n.active /\ r.identity = id /\ r.gen = g /\ r.seq = n.seq
      /\ r.projection = pr
  BY SMT, <1>1, RuntimeFields
<1> HIDE DEF r
<1>6. r \in Runtimes
  BY Zenon, <1>1, <1>4, <1>5 DEF Runtimes
<1> QED
  BY Zenon, <1>1, <1>2, <1>3, <1>5, <1>6

-----------------------------------------------------------------------------
(***************************************************************************)
(* The policy                                                              *)
(***************************************************************************)
LEMMA AgesFacts ==
    /\ 0 \in 0..MaxAge /\ MaxAge \in 0..MaxAge
    /\ Never \in Ages /\ \A n \in 0..MaxAge : n \in Ages
BY SMT, MaxAgeNat DEF Ages

\* The range of a remainder.
LEMMA ModType == \A n \in Nat, w \in Nat \ {0} : n % w \in 0..w - 1
BY SMT

\* Sequences wrap and are never zero.
LEMMA NextSequenceType ==
    ASSUME NEW p \in Policies
    PROVE  NextSequence(p) \in 1..SequenceWidth - 1
<1> DEFINE m == (p.sequence + 1) % SequenceWidth
<1>1. p.sequence + 1 \in Nat /\ SequenceWidth \in Nat \ {0}
  BY SMT, ConfigFacts DEF Policies
<1>2. m \in 0..SequenceWidth - 1
  BY Zenon, <1>1, ModType
<1>3. m \in Int /\ 1 \in Int
  BY SMT, <1>2
<1> HIDE DEF m
<1>4. NextSequence(p) = IF m >= 1 THEN m ELSE 1
  BY Zenon, <1>3, MaxPair DEF NextSequence, m
<1> QED
  BY SMT, <1>2, <1>4, ConfigFacts

\* A new policy has no realm and no request.
LEMMA NewPolicyFacts ==
    /\ NewPolicy \in Policies
    /\ NewPolicy.active = NoIdentity /\ NewPolicy.in_flight = NoRequest
    /\ NewPolicy.pending = NoRequest
<1>1. 0 \in 0..RetryCeiling /\ 0 \in 0..SequenceWidth - 1
  BY SMT, ConfigFacts
<1> QED
  BY Zenon, <1>1, AgesFacts DEF NewPolicy, Policies

\* A decision keeps the selected realm, and what it asks to be executed is
\* what is now in flight.
Decided(p, d) ==
    /\ d.policy \in Policies /\ d.policy.active = p.active
    /\ d.req \in Requests \cup {NoRequest}
    /\ d.req # NoRequest => d.req = d.policy.in_flight

\* The fields of a decision.
LEMMA DecideFields ==
    ASSUME NEW p, NEW req
    PROVE  /\ Decide(p, req).policy = p /\ Decide(p, req).req = req
           /\ Ignored(p).policy = p /\ Ignored(p).req = NoRequest
BY Zenon DEF Decide, Ignored

\* Admitting a request puts it in flight.
LEMMA AdmitRequestFacts ==
    ASSUME NEW p \in Policies, NEW req \in Requests, NEW age \in Ages
    PROVE  LET d == AdmitRequest(p, req, age)
           IN /\ Decided(p, d) /\ d.req = req
              /\ d.policy.pending = p.pending /\ d.policy.in_flight = req
<1> DEFINE q == [p EXCEPT !.last_request = age, !.in_flight = req]
<1>1. q \in Policies
  BY Zenon DEF Policies
<1>2. q.active = p.active /\ q.pending = p.pending /\ q.in_flight = req
  BY SMT DEF Policies
<1>3. AdmitRequest(p, req, age) = Decide(q, req)
  BY Zenon DEF AdmitRequest
<1> HIDE DEF q
<1>4. Decide(q, req).policy = q /\ Decide(q, req).req = req
  BY Zenon, DecideFields
<1> QED
  BY SMT, <1>1, <1>2, <1>3, <1>4 DEF Decided

\* Ignoring an input is a decision.
LEMMA IgnoredFacts ==
    ASSUME NEW p \in Policies, NEW q \in Policies, q.active = p.active
    PROVE  Decided(p, Ignored(q))
BY Zenon, DecideFields DEF Decided

\* Asking for a synchronization is a decision.
LEMMA RequestSyncFacts ==
    ASSUME NEW p \in Policies, p.active \in Identities, NEW trigger \in Triggers
    PROVE  Decided(p, RequestSync(p, trigger))
<1> DEFINE n == NextSequence(p)
           req == [id |-> p.active, trigger |-> trigger, seq |-> n]
           q == [p EXCEPT !.sequence = n]
           r == [q EXCEPT !.pending = req]
<1>1. n \in 1..SequenceWidth - 1
  BY Zenon, NextSequenceType
<1> HIDE DEF n
<1>2. n \in 0..SequenceWidth - 1
  BY SMT, <1>1
<1>3. req \in Requests /\ req.seq = n
  BY SMT, <1>1 DEF Requests
<1>4. q \in Policies
  BY Zenon, <1>2 DEF Policies
<1>5. q.active = p.active
  BY SMT DEF Policies
<1>6. RequestSync(p, trigger) =
        IF p.in_flight = NoRequest THEN AdmitRequest(q, req, 0)
        ELSE IF \/ trigger # "ActionPreflight"
                \/ p.in_flight.trigger = "ActionPreflight"
                \/ p.pending # NoRequest
          THEN Ignored(p) ELSE Ignored(r)
  BY SMT, <1>3 DEF RequestSync, n
<1> HIDE DEF q, req
<1>7. Decided(p, AdmitRequest(q, req, 0))
  BY ZenonT(60), <1>3, <1>4, <1>5, AdmitRequestFacts, AgesFacts DEF Decided
<1>8. r \in Policies
  BY Zenon, <1>3, <1>4 DEF Policies
<1>9. r.active = p.active
  BY SMT, <1>4, <1>5 DEF Policies
<1> HIDE DEF r
<1> QED
  BY Zenon, <1>6, <1>7, <1>8, <1>9, IgnoredFacts

\* Observing freshness leaves the slots alone.
LEMMA ObserveFreshnessFacts ==
    ASSUME NEW p \in Policies, NEW age \in Ages, NEW facets
    PROVE  LET q == ObserveFreshness(p, age, facets)
           IN /\ q \in Policies /\ q.active = p.active
              /\ q.in_flight = p.in_flight /\ q.pending = p.pending
              /\ q.foreground = p.foreground /\ q.sequence = p.sequence
<1> DEFINE r == [p EXCEPT !.last_fresh = age]
<1>1. r \in Policies
  BY Zenon DEF Policies
<1>2. /\ r.active = p.active /\ r.in_flight = p.in_flight
      /\ r.pending = p.pending /\ r.foreground = p.foreground
      /\ r.sequence = p.sequence
  BY SMT DEF Policies
<1> HIDE DEF r
<1> QED
  BY Zenon, <1>1, <1>2 DEF ObserveFreshness, r

\* An automatic wake is a decision.
LEMMA AutomaticFacts ==
    ASSUME NEW p \in Policies, NEW facets, NEW periodic \in BOOLEAN
    PROVE  Decided(p, Automatic(p, facets, periodic))
<1>1. p.active # NoIdentity => Decided(p, RequestSync(p, "ManualRefresh"))
  <2>1. p.active # NoIdentity => p.active \in Identities
    BY SMT DEF Policies
  <2>2. "ManualRefresh" \in Triggers
    BY Zenon DEF Triggers
  <2> QED
    BY Zenon, <2>1, <2>2, RequestSyncFacts
<1>2. Decided(p, Ignored(p))
  BY Zenon, IgnoredFacts
<1> QED
  BY Zenon, <1>1, <1>2 DEF Automatic

\* The number of retries saturates.
LEMMA RetryType ==
    ASSUME NEW n \in 0..RetryCeiling
    PROVE  Min({n + 1, RetryCeiling}) \in 0..RetryCeiling
<1>1. n + 1 \in Int /\ RetryCeiling \in Int
  BY SMT, ConfigFacts
<1>2. Min({n + 1, RetryCeiling}) = IF n + 1 <= RetryCeiling THEN n + 1 ELSE RetryCeiling
  BY Zenon, <1>1, MinPair
<1> QED
  BY SMT, <1>2, ConfigFacts

\* settle: an answer that is not the one awaited changes nothing; otherwise
\* the retained preflight, if there is one, takes the slot.
LEMMA SettlePolicyFacts ==
    ASSUME NEW p \in Policies, NEW id, NEW seq, NEW age \in 0..MaxAge, NEW facets,
           NEW succeeded \in BOOLEAN
    PROVE  LET d == SettlePolicy(p, id, seq, age, facets, succeeded)
               own == p.active = id /\ p.in_flight # NoRequest /\ p.in_flight.seq = seq
           IN /\ Decided(p, d) /\ d.policy.foreground = p.foreground
              /\ d.policy.sequence = p.sequence
              /\ ~own => d.policy = p /\ d.req = NoRequest
              /\ own => /\ d.policy.in_flight = p.pending
                        /\ d.policy.pending = NoRequest
                        /\ d.req = p.pending
<1> DEFINE own == p.active = id /\ p.in_flight # NoRequest /\ p.in_flight.seq = seq
           open == [p EXCEPT !.in_flight = NoRequest, !.pending = NoRequest]
           o == [open EXCEPT !.retry_count = 0, !.last_failure = Never]
           y == ObserveFreshness(o, age, facets)
           n == [open EXCEPT !.last_failure = age,
                             !.retry_count = Min({@ + 1, RetryCeiling})]
           m == Min({open.retry_count + 1, RetryCeiling})
           q == IF succeeded THEN y ELSE n
           d == SettlePolicy(p, id, seq, age, facets, succeeded)
<1>1. CASE ~own
  <2>1. d = Ignored(p)
    BY Zenon, <1>1 DEF SettlePolicy
  <2> QED
    BY Zenon, <1>1, <2>1, IgnoredFacts, DecideFields
<1>2. CASE own
  <2>13. d = IF p.pending = NoRequest THEN Ignored(q)
             ELSE AdmitRequest(q, p.pending, age)
    BY Zenon, <1>2 DEF SettlePolicy
  <2> HIDE DEF d
  <2>1. age \in Ages /\ Never \in Ages /\ 0 \in 0..RetryCeiling
    BY SMT, AgesFacts, ConfigFacts
  <2>2. open \in Policies
    BY Zenon DEF Policies
  <2>3. /\ open.active = p.active /\ open.foreground = p.foreground
        /\ open.in_flight = NoRequest /\ open.pending = NoRequest
        /\ open.retry_count \in 0..RetryCeiling /\ open.sequence = p.sequence
    BY SMT DEF Policies
  <2> HIDE DEF open
  <2>4. m \in 0..RetryCeiling
    BY Zenon, <2>3, RetryType
  <2>11. n = [open EXCEPT !.last_failure = age, !.retry_count = m]
    BY SMT, <2>2 DEF Policies
  <2> HIDE DEF m, n
  <2>5. n \in Policies /\ o \in Policies
    BY Zenon, <2>1, <2>2, <2>4, <2>11 DEF Policies
  <2>6. /\ n.active = p.active /\ n.foreground = p.foreground
        /\ n.in_flight = NoRequest /\ n.pending = NoRequest
        /\ o.active = p.active /\ o.foreground = p.foreground
        /\ o.in_flight = NoRequest /\ o.pending = NoRequest
        /\ n.sequence = p.sequence /\ o.sequence = p.sequence
    BY SMT, <2>2, <2>3, <2>11 DEF Policies
  <2> HIDE DEF n, o
  <2>7. /\ y \in Policies /\ y.active = p.active /\ y.foreground = p.foreground
        /\ y.in_flight = NoRequest /\ y.pending = NoRequest
        /\ y.sequence = p.sequence
    <3>1. /\ y \in Policies /\ y.active = o.active /\ y.foreground = o.foreground
          /\ y.in_flight = o.in_flight /\ y.pending = o.pending
          /\ y.sequence = o.sequence
      BY ZenonT(60), <2>1, <2>5, ObserveFreshnessFacts
    <3> HIDE DEF y
    <3> QED
      BY Zenon, <2>6, <3>1
  <2> HIDE DEF y
  <2>8. /\ q \in Policies /\ q.active = p.active /\ q.foreground = p.foreground
        /\ q.in_flight = NoRequest /\ q.pending = NoRequest
        /\ q.sequence = p.sequence
    BY Zenon, <2>5, <2>6, <2>7
  <2> HIDE DEF q
  <2>9. CASE p.pending = NoRequest
    <3>1. d = Ignored(q)
      BY Zenon, <2>9, <2>13
    <3>2. /\ Decided(p, Ignored(q)) /\ Ignored(q).policy = q
          /\ Ignored(q).req = NoRequest
      BY Zenon, <2>8, IgnoredFacts, DecideFields
    <3> QED
      BY SMT, <1>2, <2>8, <2>9, <3>1, <3>2 DEF d
  <2>10. CASE p.pending # NoRequest
    <3>1. p.pending \in Requests
      BY SMT, <2>10 DEF Policies
    <3>2. d = AdmitRequest(q, p.pending, age)
      BY Zenon, <2>10, <2>13
    <3>3. /\ Decided(q, d) /\ d.req = p.pending /\ d.policy.pending = q.pending
          /\ d.policy.in_flight = p.pending
      BY Zenon, <2>1, <2>8, <3>1, <3>2, AdmitRequestFacts
    <3>4. d.policy.foreground = q.foreground /\ d.policy.sequence = q.sequence
      <4>1. d.policy = [q EXCEPT !.last_request = age, !.in_flight = p.pending]
        BY Zenon, <3>2, DecideFields DEF AdmitRequest
      <4> QED
        BY SMT, <2>8, <4>1 DEF Policies
    <3> QED
      BY Zenon, <1>2, <2>8, <3>3, <3>4 DEF Decided, d
  <2> QED
    BY Zenon, <2>9, <2>10
<1> QED
  BY Zenon, <1>1, <1>2

\* Initialized and RealmSelected
LEMMA ReduceSelected ==
    ASSUME NEW p \in Policies, NEW name \in Selections, NEW id \in Identities,
           NEW facets
    PROVE  LET d == Reduce(p, Selected(name, id, facets))
           IN /\ d.policy \in Policies /\ d.policy.active = id
              /\ d.req \in Requests \cup {NoRequest}
              /\ d.req # NoRequest => d.req = d.policy.in_flight
<1> DEFINE in == Selected(name, id, facets)
           q == IF p.active \in {NoIdentity, id} THEN p ELSE ResetActive(p)
           s == [q EXCEPT !.active = id, !.foreground = TRUE]
           y == ObserveFreshness(s, 0, facets)
<1>1. in.name = name /\ in.id = id /\ in.facets = facets
  BY SMT DEF Selected, Input
<1>2. Reduce(p, in) = RequestSync(y, "Initial")
  <2> HIDE DEF in
  <2> QED
    BY Zenon, <1>1 DEF Reduce, Selections
<1>3. q \in Policies
  <2>1. 0 \in 0..RetryCeiling /\ Never \in Ages
    BY SMT, ConfigFacts, AgesFacts
  <2>2. ResetActive(p) \in Policies
    BY Zenon, <2>1 DEF ResetActive, Policies
  <2> QED
    BY Zenon, <2>2
<1> HIDE DEF q
<1>4. s \in Policies
  BY Zenon, <1>3 DEF Policies
<1>5. s.active = id
  BY SMT, <1>3 DEF Policies
<1> HIDE DEF s
<1>6. y \in Policies /\ y.active = id
  BY ZenonT(60), <1>4, <1>5, ObserveFreshnessFacts, AgesFacts
<1> HIDE DEF y
<1>7. "Initial" \in Triggers
  BY Zenon DEF Triggers
<1>8. Decided(y, RequestSync(y, "Initial"))
  BY Zenon, <1>6, <1>7, RequestSyncFacts
<1> QED
  BY SMT, <1>2, <1>6, <1>8 DEF Decided

\* A background drops both requests.
LEMMA ReduceBackgrounded ==
    ASSUME NEW p \in Policies
    PROVE  LET d == Reduce(p, Input("Backgrounded"))
           IN /\ Decided(p, d) /\ d.policy.in_flight = NoRequest
              /\ d.policy.pending = NoRequest /\ ~d.policy.foreground
<1> DEFINE in == Input("Backgrounded")
           q == [p EXCEPT !.foreground = FALSE, !.in_flight = NoRequest,
                          !.pending = NoRequest]
<1>1. in.name = "Backgrounded"
  BY SMT DEF Input
<1>2. Reduce(p, in) = Ignored(q)
  <2> HIDE DEF in
  <2> QED
    BY SMT, <1>1 DEF Reduce, Selections
<1>3. q \in Policies
  BY Zenon DEF Policies
<1>4. /\ q.active = p.active /\ q.in_flight = NoRequest /\ q.pending = NoRequest
      /\ ~q.foreground
  BY SMT DEF Policies
<1> HIDE DEF q
<1>5. Decided(p, Ignored(q)) /\ Ignored(q).policy = q
  BY Zenon, <1>3, <1>4, IgnoredFacts, DecideFields
<1> QED
  BY SMT, <1>2, <1>4, <1>5

\* A foreground is a decision.
LEMMA ReduceForeground ==
    ASSUME NEW p \in Policies, NEW facets
    PROVE  Decided(p, Reduce(p, Signal("Foreground", facets)))
<1> DEFINE in == Signal("Foreground", facets)
           q == [p EXCEPT !.foreground = TRUE]
<1>1. in.name = "Foreground" /\ in.facets = facets
  BY SMT DEF Signal, Input
<1>2. Reduce(p, in) = Automatic(q, facets, FALSE)
  <2> HIDE DEF in
  <2> QED
    BY SMT, <1>1 DEF Reduce, Selections
<1>3. q \in Policies
  BY Zenon DEF Policies
<1>4. q.active = p.active
  BY SMT DEF Policies
<1> HIDE DEF q
<1> DEFINE d == Automatic(q, facets, FALSE)
<1>5. Decided(q, d)
  BY Zenon, <1>3, AutomaticFacts
<1>6. Reduce(p, in) = d
  BY Zenon, <1>2
<1> HIDE DEF d
<1>7. Decided(p, d)
  BY SMT, <1>4, <1>5 DEF Decided
<1> QED
  BY Zenon, <1>6, <1>7

-----------------------------------------------------------------------------
(***************************************************************************)
(* The guarded service                                                     *)
(***************************************************************************)
Checkpoints == [identity : Identities \cup {NoIdentity}, facets : Facets,
                now : 0..MaxAge]

GuardedServices ==
    [policy : Policies, checkpoint : Checkpoints, watch : Runtimes,
     recovery : Watches \cup {NoWatch}, attempts : 0..RecoveryAttempts,
     gen : 0..MaxGeneration, backgrounded : BOOLEAN]

\* The guarded services are services.
LEMMA GuardedType == GuardedServices \subseteq Services
<1>1. ASSUME NEW s \in GuardedServices
      PROVE  s \in Services
  <2>1. s.watch \in WatchRuntimes
    BY SMT DEF GuardedServices, Runtimes
  <2> QED
    BY SMT, <2>1 DEF GuardedServices, Services, Checkpoints
<1> QED
  BY Zenon, <1>1

\* A new service is empty.
LEMMA NewServiceFacts ==
    /\ NewService \in GuardedServices /\ NewService.watch = NewWatchRuntime
    /\ NewService.recovery = NoWatch /\ NewService.gen = 0
    /\ NewService.checkpoint.identity = NoIdentity
    /\ NewService.policy = NewPolicy
<1> DEFINE c == [identity |-> NoIdentity, facets |-> "Stale", now |-> MaxAge]
<1>1. c \in Checkpoints /\ c.identity = NoIdentity
  BY SMT, AgesFacts DEF Checkpoints, Facets
<1>2. NewService = [policy |-> NewPolicy, checkpoint |-> c,
                    watch |-> NewWatchRuntime, recovery |-> NoWatch,
                    attempts |-> 0, gen |-> 0, backgrounded |-> FALSE]
  BY Zenon DEF NewService
<1>3. 0 \in 0..RecoveryAttempts /\ 0 \in 0..MaxGeneration
  BY SMT, ConfigFacts
<1> HIDE DEF c
<1>4. NewService \in GuardedServices
  BY Zenon, <1>1, <1>2, <1>3, NewPolicyFacts, NewRuntime DEF GuardedServices
<1> QED
  BY SMT, <1>1, <1>2, <1>4

\* A selection that is not refused moves the whole service to the realm.
LEMMA BeginSelected ==
    ASSUME NEW s \in GuardedServices, NEW name \in Selections,
           NEW id \in Identities, NEW facets \in Facets
    PROVE  LET in == Selected(name, id, facets)
               r == Begin(s, in).svc
           IN /\ r \in GuardedServices
              /\ \/ r = s
                 \/ /\ s.checkpoint.identity \in {NoIdentity, id} \/ s.recovery = NoWatch
                    /\ r.checkpoint.identity = id /\ r.policy.active = id
                    /\ r.watch = SelectRealm(s.watch, id) /\ r.gen = r.watch.gen
                    /\ r.recovery = s.recovery
<1> DEFINE in == Selected(name, id, facets)
           c == ObserveInput(s.checkpoint, in)
           w == SelectRealm(s.watch, id)
           d == Reduce(s.policy, in)
           a == [s EXCEPT !.checkpoint = c]
           b == [a EXCEPT !.backgrounded = FALSE, !.watch = w, !.gen = w.gen]
           r == [b EXCEPT !.policy = d.policy]
<1>1. in.name = name /\ in.id = id /\ in.facets = facets
  BY SMT DEF Selected, Input
<1>2. s.policy \in Policies /\ s.watch \in Runtimes
  BY SMT DEF GuardedServices
<1>3. c \in Checkpoints /\ c.identity = id
  <2>1. c = [identity |-> id, facets |-> facets, now |-> 0]
    <3> HIDE DEF in
    <3> QED
      BY Zenon, <1>1 DEF ObserveInput, Selections, Signals
  <2> HIDE DEF c
  <2> QED
    BY SMT, <2>1, AgesFacts DEF Checkpoints
<1>4. w \in Runtimes
  BY Zenon, <1>2, SelectRealmFacts
<1>5. w.gen \in 0..MaxGeneration
  BY SMT, <1>4, RuntimeFields DEF Runtimes
<1>6. d.policy \in Policies /\ d.policy.active = id
  BY SMT, <1>2, ReduceSelected
<1> HIDE DEF c, d, in
<1>7. a \in GuardedServices
  BY Zenon, <1>3 DEF GuardedServices
<1>8. /\ a.watch = s.watch /\ a.checkpoint = c /\ a.recovery = s.recovery
      /\ a.policy = s.policy
  BY SMT DEF GuardedServices
<1> HIDE DEF a, w
<1>9. b \in GuardedServices
  BY Zenon, <1>4, <1>5, <1>7 DEF GuardedServices
<1>10. /\ b.watch = w /\ b.checkpoint = c /\ b.recovery = s.recovery
       /\ b.policy = s.policy /\ b.gen = w.gen
  BY SMT, <1>7, <1>8 DEF GuardedServices
<1> HIDE DEF b
<1>11. r \in GuardedServices
  BY Zenon, <1>6, <1>9 DEF GuardedServices
<1>12. /\ r.watch = w /\ r.checkpoint = c /\ r.recovery = s.recovery
       /\ r.policy = d.policy /\ r.gen = w.gen
  BY SMT, <1>9, <1>10 DEF GuardedServices
<1> HIDE DEF r
<1>13. Bound(s, in) = b
  <2>1. in.name # "Backgrounded" /\ in.name # "Foreground" /\ in.name \in Selections
    BY SMT, <1>1 DEF Selections
  <2>2. w = SelectRealm(a.watch, in.id)
    BY Zenon, <1>1, <1>8 DEF w
  <2>3. Bound(s, in) = [a EXCEPT !.backgrounded = FALSE,
                                 !.watch = SelectRealm(a.watch, in.id),
                                 !.gen = SelectRealm(a.watch, in.id).gen]
    BY Zenon, <2>1 DEF Bound, a, c
  <2> QED
    BY Zenon, <2>2, <2>3 DEF b
<1>14. CASE Unresolved(s, in)
  <2>1. Begin(s, in).svc = s
    BY Zenon, <1>14 DEF Begin
  <2> QED
    BY Zenon, <2>1 DEF in
<1>15. CASE ~Unresolved(s, in)
  <2>1. Begin(s, in).svc = r
    BY Zenon, <1>10, <1>13, <1>15 DEF Begin, r, d
  <2>2. s.checkpoint.identity \in {NoIdentity, id} \/ s.recovery = NoWatch
    BY Zenon, <1>1, <1>15 DEF Unresolved
  <2> QED
    BY Zenon, <1>3, <1>6, <1>11, <1>12, <2>1, <2>2 DEF in, w
<1> QED
  BY Zenon, <1>14, <1>15

\* The first Backgrounded turns an active watch into the recovery.
LEMMA LeaveFacts ==
    ASSUME NEW s \in GuardedServices
    PROVE  LET r == Leave(s)
           IN /\ r \in GuardedServices /\ r.checkpoint = s.checkpoint
              /\ r.policy = s.policy
              /\ \/ r = s
                 \/ /\ r.watch = Boundary(s.watch) /\ r.gen = r.watch.gen
                    /\ r.recovery = IF s.watch.active # NoActive
                                    THEN BoundaryRecovery(s.watch) ELSE s.recovery
<1> DEFINE b == Boundary(s.watch)
           lost == s.watch.active # NoActive
           rec == IF lost THEN BoundaryRecovery(s.watch) ELSE s.recovery
           att == IF lost THEN RecoveryAttempts ELSE s.attempts
           r == [s EXCEPT !.backgrounded = TRUE, !.watch = b, !.gen = b.gen,
                          !.recovery = rec, !.attempts = att]
<1>1. /\ s.watch \in Runtimes /\ s.recovery \in Watches \cup {NoWatch}
      /\ s.attempts \in 0..RecoveryAttempts
  BY SMT DEF GuardedServices
<1>2. b \in Runtimes /\ (lost => BoundaryRecovery(s.watch) \in Watches)
  BY Zenon, <1>1, BoundaryFacts
<1>3. b.gen \in 0..MaxGeneration
  BY SMT, <1>2, RuntimeFields DEF Runtimes
<1>4. rec \in Watches \cup {NoWatch}
  BY Zenon, <1>1, <1>2
<1>5. att \in 0..RecoveryAttempts
  BY SMT, <1>1, ConfigFacts
<1>6. Leave(s) = IF s.backgrounded THEN s
                 ELSE [s EXCEPT !.backgrounded = TRUE, !.watch = b,
                        !.gen = b.gen,
                        !.recovery = IF lost THEN BoundaryRecovery(s.watch) ELSE @,
                        !.attempts = IF lost THEN RecoveryAttempts ELSE @]
  BY Zenon DEF Leave
<1> HIDE DEF b, lost
<1>7. [s EXCEPT !.backgrounded = TRUE, !.watch = b, !.gen = b.gen,
        !.recovery = IF lost THEN BoundaryRecovery(s.watch) ELSE @,
        !.attempts = IF lost THEN RecoveryAttempts ELSE @] = r
  BY SMT DEF GuardedServices
<1> HIDE DEF rec, att
<1>8. r \in GuardedServices
  BY Zenon, <1>2, <1>3, <1>4, <1>5 DEF GuardedServices
<1>9. /\ r.watch = b /\ r.gen = b.gen /\ r.recovery = rec
      /\ r.checkpoint = s.checkpoint /\ r.policy = s.policy
  BY SMT DEF GuardedServices
<1> HIDE DEF r
<1>10. CASE s.backgrounded
  BY Zenon, <1>6, <1>10
<1>11. CASE ~s.backgrounded
  <2>1. Leave(s) = r
    BY Zenon, <1>6, <1>7, <1>11
  <2> QED
    BY Zenon, <1>8, <1>9, <2>1 DEF b, rec, lost
<1> QED
  BY Zenon, <1>10, <1>11

\* The first Foreground spends an attempt on the recovery or gives it up.
LEMMA ReturnFacts ==
    ASSUME NEW s \in GuardedServices
    PROVE  LET r == Return(s)
           IN /\ r \in GuardedServices /\ r.checkpoint = s.checkpoint
              /\ r.policy = s.policy /\ r.gen = s.gen
              /\ \/ r.watch = s.watch /\ r.recovery = s.recovery
                 \/ /\ s.recovery # NoWatch /\ r.recovery = NoWatch
                    /\ r.watch = EndRecovery(s.watch, s.recovery.kind,
                                             "OutcomeUnresolved")
<1> DEFINE e == EndRecovery(s.watch, s.recovery.kind, "OutcomeUnresolved")
           dropped == [s EXCEPT !.recovery = NoWatch, !.watch = e]
           n == s.attempts - 1
           used == [s EXCEPT !.attempts = n]
           spent == IF ~s.backgrounded \/ s.recovery = NoWatch THEN s
                    ELSE IF s.attempts = 0 THEN dropped ELSE used
           r == [spent EXCEPT !.backgrounded = FALSE]
<1>1. /\ s.watch \in Runtimes /\ s.recovery \in Watches \cup {NoWatch}
      /\ s.attempts \in 0..RecoveryAttempts
  BY SMT DEF GuardedServices
<1>2. "OutcomeUnresolved" \in WatchStates
  BY Zenon DEF WatchStates
<1>3. s.recovery # NoWatch => e \in Runtimes
  BY Zenon, <1>1, <1>2, EndRecoveryFacts DEF Answered
<1>4. Return(s) = r
  BY Zenon DEF Return
<1> HIDE DEF e
<1>5. CASE ~s.backgrounded \/ s.recovery = NoWatch
  <2>1. spent = s
    BY Zenon, <1>5
  <2>2. r \in GuardedServices
    BY Zenon, <2>1 DEF GuardedServices
  <2>3. /\ r.watch = s.watch /\ r.gen = s.gen /\ r.recovery = s.recovery
        /\ r.checkpoint = s.checkpoint /\ r.policy = s.policy
    <3> HIDE DEF spent
    <3> QED
      BY SMT, <2>1 DEF GuardedServices
  <2> HIDE DEF r
  <2> QED
    BY Zenon, <1>4, <2>2, <2>3
<1>6. CASE ~(~s.backgrounded \/ s.recovery = NoWatch) /\ s.attempts = 0
  <2>1. spent = dropped
    BY Zenon, <1>6
  <2>2. dropped \in GuardedServices
    BY Zenon, <1>3, <1>6 DEF GuardedServices
  <2>3. /\ dropped.watch = e /\ dropped.gen = s.gen /\ dropped.recovery = NoWatch
        /\ dropped.checkpoint = s.checkpoint /\ dropped.policy = s.policy
    BY SMT DEF GuardedServices
  <2> HIDE DEF dropped, spent
  <2>4. r \in GuardedServices
    BY Zenon, <2>1, <2>2 DEF GuardedServices
  <2>5. /\ r.watch = e /\ r.gen = s.gen /\ r.recovery = NoWatch
        /\ r.checkpoint = s.checkpoint /\ r.policy = s.policy
    BY SMT, <2>1, <2>2, <2>3 DEF GuardedServices
  <2> HIDE DEF r
  <2> QED
    BY Zenon, <1>4, <1>6, <2>4, <2>5 DEF e
<1>7. CASE ~(~s.backgrounded \/ s.recovery = NoWatch) /\ s.attempts # 0
  <2>1. spent = used
    BY Zenon, <1>7
  <2>0. n \in 0..RecoveryAttempts
    BY SMT, <1>1, <1>7, ConfigFacts
  <2> HIDE DEF n
  <2>2. used \in GuardedServices
    BY Zenon, <2>0 DEF GuardedServices
  <2>3. /\ used.watch = s.watch /\ used.gen = s.gen /\ used.recovery = s.recovery
        /\ used.checkpoint = s.checkpoint /\ used.policy = s.policy
    BY SMT DEF GuardedServices
  <2> HIDE DEF used, spent
  <2>4. r \in GuardedServices
    BY Zenon, <2>1, <2>2 DEF GuardedServices
  <2>5. /\ r.watch = s.watch /\ r.gen = s.gen /\ r.recovery = s.recovery
        /\ r.checkpoint = s.checkpoint /\ r.policy = s.policy
    BY SMT, <2>1, <2>2, <2>3 DEF GuardedServices
  <2> HIDE DEF r
  <2> QED
    BY Zenon, <1>4, <2>4, <2>5
<1> QED
  BY Zenon, <1>5, <1>6, <1>7

\* What a background does to watch, recovery and generation.
LEMMA BeginBackgrounded ==
    ASSUME NEW s \in GuardedServices
    PROVE  LET r == Begin(s, Input("Backgrounded")).svc
           IN /\ r \in GuardedServices
              /\ r.checkpoint.identity = s.checkpoint.identity
              /\ r.policy.active = s.policy.active
              /\ r.policy.in_flight = NoRequest /\ r.policy.pending = NoRequest
              /\ ~r.policy.foreground
              /\ \/ /\ r.watch = s.watch /\ r.gen = s.gen
                    /\ r.recovery = s.recovery
                 \/ /\ r.watch = Boundary(s.watch) /\ r.gen = r.watch.gen
                    /\ r.recovery = IF s.watch.active # NoActive
                                    THEN BoundaryRecovery(s.watch) ELSE s.recovery
<1> DEFINE in == Input("Backgrounded")
           c == ObserveInput(s.checkpoint, in)
           d == Reduce(s.policy, in)
           a == [s EXCEPT !.checkpoint = c]
           b == Leave(a)
           r == [b EXCEPT !.policy = d.policy]
<1>1. in.name = "Backgrounded"
  BY SMT DEF Input
<1>2. s.policy \in Policies /\ s.checkpoint \in Checkpoints
  BY SMT DEF GuardedServices
<1>3. c \in Checkpoints /\ c.identity = s.checkpoint.identity
  <2>1. c = [s.checkpoint EXCEPT !.now = 0]
    <3> HIDE DEF in
    <3> QED
      BY SMT, <1>1 DEF ObserveInput, Selections, Signals
  <2>2. c \in Checkpoints
    BY Zenon, <1>2, <2>1, AgesFacts DEF Checkpoints
  <2> HIDE DEF c
  <2> QED
    BY SMT, <1>2, <2>1, <2>2 DEF Checkpoints
<1>4. /\ d.policy \in Policies /\ d.policy.active = s.policy.active
      /\ d.policy.in_flight = NoRequest /\ d.policy.pending = NoRequest
      /\ ~d.policy.foreground
  BY SMT, <1>2, ReduceBackgrounded DEF Decided
<1> HIDE DEF c, d, in
<1>5. a \in GuardedServices
  BY Zenon, <1>3 DEF GuardedServices
<1>6. /\ a.watch = s.watch /\ a.checkpoint = c /\ a.recovery = s.recovery
      /\ a.policy = s.policy /\ a.gen = s.gen
  BY SMT DEF GuardedServices
<1> HIDE DEF a
<1>7. /\ b \in GuardedServices /\ b.checkpoint = c /\ b.policy = s.policy
      /\ \/ b.watch = s.watch /\ b.gen = s.gen /\ b.recovery = s.recovery
         \/ /\ b.watch = Boundary(s.watch) /\ b.gen = b.watch.gen
            /\ b.recovery = IF s.watch.active # NoActive
                            THEN BoundaryRecovery(s.watch) ELSE s.recovery
  BY SMT, <1>5, <1>6, LeaveFacts
<1>8. Begin(s, in).svc = r
  <2>1. in.name # "Foreground" /\ in.name \notin Selections
    BY SMT, <1>1 DEF Selections
  <2>2. ~Unresolved(s, in)
    BY Zenon, <2>1 DEF Unresolved
  <2>3. Bound(s, in) = b
    BY Zenon, <1>1, <2>1 DEF Bound, a, c
  <2> QED
    BY Zenon, <1>7, <2>2, <2>3 DEF Begin, d
<1> HIDE DEF b
<1>9. r \in GuardedServices
  BY Zenon, <1>4, <1>7 DEF GuardedServices
<1>10. /\ r.watch = b.watch /\ r.checkpoint = b.checkpoint
       /\ r.recovery = b.recovery /\ r.policy = d.policy /\ r.gen = b.gen
  BY SMT, <1>7 DEF GuardedServices
<1> HIDE DEF r
<1> QED
  BY SMT, <1>3, <1>4, <1>7, <1>8, <1>9, <1>10 DEF in

\* What a foreground does to watch and recovery.
LEMMA BeginForeground ==
    ASSUME NEW s \in GuardedServices, NEW facets \in Facets
    PROVE  LET r == Begin(s, Signal("Foreground", facets)).svc
           IN /\ r \in GuardedServices
              /\ r.checkpoint.identity = s.checkpoint.identity
              /\ r.policy.active = s.policy.active /\ r.gen = s.gen
              /\ \/ r.watch = s.watch /\ r.recovery = s.recovery
                 \/ /\ s.recovery # NoWatch /\ r.recovery = NoWatch
                    /\ r.watch = EndRecovery(s.watch, s.recovery.kind,
                                             "OutcomeUnresolved")
<1> DEFINE in == Signal("Foreground", facets)
           c == ObserveInput(s.checkpoint, in)
           d == Reduce(s.policy, in)
           a == [s EXCEPT !.checkpoint = c]
           b == Return(a)
           r == [b EXCEPT !.policy = d.policy]
<1>1. in.name = "Foreground" /\ in.facets = facets
  BY SMT DEF Signal, Input
<1>2. s.policy \in Policies /\ s.checkpoint \in Checkpoints
  BY SMT DEF GuardedServices
<1>3. c \in Checkpoints /\ c.identity = s.checkpoint.identity
  <2>1. c = [s.checkpoint EXCEPT !.facets = facets, !.now = 0]
    <3> HIDE DEF in
    <3> QED
      BY SMT, <1>1 DEF ObserveInput, Selections, Signals
  <2>2. c \in Checkpoints
    BY Zenon, <1>2, <2>1, AgesFacts DEF Checkpoints
  <2> HIDE DEF c
  <2> QED
    BY SMT, <1>2, <2>1, <2>2 DEF Checkpoints
<1>4. d.policy \in Policies /\ d.policy.active = s.policy.active
  BY SMT, <1>2, ReduceForeground DEF Decided
<1> HIDE DEF c, d, in
<1>5. a \in GuardedServices
  BY Zenon, <1>3 DEF GuardedServices
<1>6. /\ a.watch = s.watch /\ a.checkpoint = c /\ a.recovery = s.recovery
      /\ a.policy = s.policy /\ a.gen = s.gen
  BY SMT DEF GuardedServices
<1> HIDE DEF a
<1>7. /\ b \in GuardedServices /\ b.checkpoint = c /\ b.policy = s.policy
      /\ b.gen = s.gen
      /\ \/ b.watch = s.watch /\ b.recovery = s.recovery
         \/ /\ s.recovery # NoWatch /\ b.recovery = NoWatch
            /\ b.watch = EndRecovery(s.watch, s.recovery.kind,
                                     "OutcomeUnresolved")
  BY SMT, <1>5, <1>6, ReturnFacts
<1>8. Begin(s, in).svc = r
  <2>1. in.name # "Backgrounded" /\ in.name \notin Selections
    BY SMT, <1>1 DEF Selections
  <2>2. ~Unresolved(s, in)
    BY Zenon, <2>1 DEF Unresolved
  <2>3. Bound(s, in) = b
    BY Zenon, <1>1, <2>1 DEF Bound, a, c
  <2> QED
    BY Zenon, <1>7, <2>2, <2>3 DEF Begin, d
<1> HIDE DEF b
<1>9. r \in GuardedServices
  BY Zenon, <1>4, <1>7 DEF GuardedServices
<1>10. /\ r.watch = b.watch /\ r.checkpoint = b.checkpoint
       /\ r.recovery = b.recovery /\ r.policy = d.policy /\ r.gen = b.gen
  BY SMT, <1>7 DEF GuardedServices
<1> HIDE DEF r
<1> QED
  BY SMT, <1>3, <1>4, <1>7, <1>8, <1>9, <1>10 DEF in

\* settle touches the policy and the facets on show, nothing else.
LEMMA SettleFacts ==
    ASSUME NEW s \in GuardedServices, NEW req, NEW facets \in Facets,
           NEW succeeded \in BOOLEAN
    PROVE  LET r == Settle(s, req, facets, succeeded).svc
           IN /\ r \in GuardedServices
              /\ r.checkpoint.identity = s.checkpoint.identity
              /\ r.policy.active = s.policy.active
              /\ r.watch = s.watch /\ r.recovery = s.recovery /\ r.gen = s.gen
<1> DEFINE age == IF s.checkpoint.identity = req.id THEN s.checkpoint.now ELSE MaxAge
           d == SettlePolicy(s.policy, req.id, req.seq, age, facets, succeeded)
           f == IF Current(s, req) THEN facets ELSE s.checkpoint.facets
           c == [s.checkpoint EXCEPT !.facets = f]
           r == [s EXCEPT !.policy = d.policy, !.checkpoint = c]
<1>1. /\ s.policy \in Policies /\ s.checkpoint \in Checkpoints
      /\ s.checkpoint.facets \in Facets /\ s.checkpoint.now \in 0..MaxAge
  BY SMT DEF GuardedServices, Checkpoints
<1>3. age \in 0..MaxAge /\ f \in Facets
  BY Zenon, <1>1, AgesFacts
<1>4. Settle(s, req, facets, succeeded).svc = r
  BY Zenon DEF Settle
<1> HIDE DEF age, f
<1>5. Decided(s.policy, d)
  BY Zenon, <1>1, <1>3, SettlePolicyFacts
<1> HIDE DEF d
<1>6. d.policy \in Policies /\ d.policy.active = s.policy.active
  BY Zenon, <1>5 DEF Decided
<1>7. c \in Checkpoints
  BY Zenon, <1>1, <1>3 DEF Checkpoints
<1>8. c.identity = s.checkpoint.identity
  BY SMT, <1>1 DEF Checkpoints
<1> HIDE DEF c
<1>9. r \in GuardedServices
  BY Zenon, <1>6, <1>7 DEF GuardedServices
<1>10. /\ r.watch = s.watch /\ r.checkpoint = c /\ r.recovery = s.recovery
       /\ r.policy = d.policy /\ r.gen = s.gen
  BY SMT DEF GuardedServices
<1> HIDE DEF r
<1> QED
  BY Zenon, <1>4, <1>6, <1>8, <1>9, <1>10

\* What a failed request reports are facets.
LEMMA FallbackType ==
    ASSUME NEW s \in GuardedServices, NEW id
    PROVE  FallbackFacets(s, id) \in Facets
<1>1. s.checkpoint.facets \in Facets /\ "Stale" \in Facets
  BY SMT DEF GuardedServices, Checkpoints, Facets
<1> QED
  BY Zenon, <1>1 DEF FallbackFacets

\* What a recovery leaves behind when it ends.
RecoveryEnded(s, state) ==
    [s EXCEPT !.recovery = NoWatch, !.attempts = 0,
              !.watch = EndRecovery(s.watch, s.recovery.kind, state)]

\* Ending a recovery shows its outcome.
LEMMA EndedFacts ==
    ASSUME NEW s \in GuardedServices, s.recovery # NoWatch, NEW state \in WatchStates
    PROVE  LET r == RecoveryEnded(s, state)
           IN /\ r \in GuardedServices /\ r.checkpoint = s.checkpoint
              /\ r.policy = s.policy /\ r.gen = s.gen /\ r.recovery = NoWatch
              /\ r.watch = EndRecovery(s.watch, s.recovery.kind, state)
<1> DEFINE e == EndRecovery(s.watch, s.recovery.kind, state)
           r == RecoveryEnded(s, state)
<1>1. s.watch \in Runtimes /\ s.recovery \in Watches
  BY SMT DEF GuardedServices
<1>2. e \in Runtimes
  BY Zenon, <1>1, EndRecoveryFacts DEF Answered
<1>3. 0 \in 0..RecoveryAttempts
  BY SMT, ConfigFacts
<1>4. r = [s EXCEPT !.recovery = NoWatch, !.attempts = 0, !.watch = e]
  BY Zenon DEF RecoveryEnded
<1> HIDE DEF e, r
<1>5. r \in GuardedServices
  BY Zenon, <1>2, <1>3, <1>4 DEF GuardedServices
<1>6. /\ r.watch = e /\ r.checkpoint = s.checkpoint /\ r.recovery = NoWatch
      /\ r.policy = s.policy /\ r.gen = s.gen
  BY SMT, <1>4 DEF GuardedServices
<1> QED
  BY Zenon, <1>5, <1>6 DEF r, e

\* What a snapshot keeps of the facets.
LEMMA DurableType == \A f \in Facets : DurableFacets(f) \in Facets
BY SMT DEF DurableFacets, Facets

\* The service a process restores from the checkpoint of the last one.
LEMMA RestoreFacts ==
    ASSUME NEW s \in GuardedServices
    PROVE  LET r == Restore(Snapshot(s))
           IN /\ r \in GuardedServices
              /\ r.checkpoint.identity = s.checkpoint.identity
              /\ r.policy.active = s.checkpoint.identity
              /\ r.recovery = s.recovery /\ r.gen = Bump(s.gen)
              /\ r.watch = RestoreWatch(s.checkpoint.identity, s.recovery, Bump(s.gen))
<1> DEFINE n == Snapshot(s)
           p == [NewPolicy EXCEPT !.active = s.checkpoint.identity]
           f == DurableFacets(DurableFacets(s.checkpoint.facets))
           c == [identity |-> s.checkpoint.identity, facets |-> f, now |-> MaxAge]
           w == RestoreWatch(s.checkpoint.identity, s.recovery, Bump(s.gen))
           r == Restore(n)
<1>1. /\ s.checkpoint.identity \in Identities \cup {NoIdentity}
      /\ s.checkpoint.facets \in Facets /\ s.recovery \in Watches \cup {NoWatch}
      /\ s.attempts \in 0..RecoveryAttempts /\ s.gen \in 0..MaxGeneration
  BY SMT DEF GuardedServices, Checkpoints
<1>2. /\ n.identity = s.checkpoint.identity
      /\ n.facets = DurableFacets(s.checkpoint.facets)
      /\ n.gen = s.gen /\ n.recovery = s.recovery /\ n.attempts = s.attempts
  BY SMT DEF Snapshot
<1> HIDE DEF n
<1>3. r = [policy |-> p, checkpoint |-> c, watch |-> w, recovery |-> s.recovery,
           attempts |-> s.attempts, gen |-> Bump(s.gen), backgrounded |-> TRUE]
  BY Zenon, <1>2 DEF Restore
<1>4. p \in Policies
  BY Zenon, <1>1, NewPolicyFacts DEF Policies
<1>5. p.active = s.checkpoint.identity
  BY SMT, NewPolicyFacts DEF Policies
<1>6. f \in Facets
  BY Zenon, <1>1, DurableType
<1> HIDE DEF f
<1>7. c \in Checkpoints
  BY Zenon, <1>1, <1>6, AgesFacts DEF Checkpoints
<1>8. Bump(s.gen) \in 0..MaxGeneration
  BY Zenon, <1>1, BumpType
<1>9. w \in Runtimes
  BY Zenon, <1>1, <1>8, RestoreWatchFacts
<1>10. c.identity = s.checkpoint.identity
  BY Zenon
<1> HIDE DEF p, c, w, r
<1>11. r \in GuardedServices
  BY Zenon, <1>1, <1>3, <1>4, <1>7, <1>8, <1>9 DEF GuardedServices
<1>12. /\ r.policy = p /\ r.checkpoint = c /\ r.watch = w
       /\ r.recovery = s.recovery /\ r.gen = Bump(s.gen)
  BY Zenon, <1>3
<1> QED
  BY Zenon, <1>5, <1>10, <1>11, <1>12 DEF r, n, w

=============================================================================
