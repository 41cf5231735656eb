-------------------------- MODULE RealmDriverProofs --------------------------
(***************************************************************************)
(* Proofs about RealmDriver: the types of the tasks and of the service     *)
(* they share, that an automatic reconciliation in flight is always        *)
(* awaited, and that only the task awaiting a request settles it.          *)
(***************************************************************************)
EXTENDS RealmDriver, RealmLifecycleProofs

(***************************************************************************)
(* The policy's two slots                                                  *)
(***************************************************************************)

\* Both slots hold requests of the active realm; only an action preflight is
\* retained, and only behind a request in flight.
SlotsOK(p) ==
    /\ p \in Policies
    /\ p.in_flight # NoRequest => p.in_flight.id = p.active
    /\ p.pending # NoRequest =>
         /\ p.in_flight # NoRequest /\ p.pending.id = p.active
         /\ p.in_flight.trigger # "ActionPreflight"
         /\ p.pending.trigger = "ActionPreflight"

\* A request a task holds is told apart from the two slots by its sequence:
\* the one in flight only if it is that very request, never the retained one.
Fits(p, x) ==
    /\ p.in_flight # NoRequest /\ x.seq = p.in_flight.seq => x = p.in_flight
    /\ p.pending # NoRequest => x.seq # p.pending.seq

Held == Requests \cup {NoRequest}

\* The request x, if it is the one in flight, is past its deadline.
Waited(p, x) == x = p.in_flight => DeadlinePassed(p)

\* Going from p to q takes no sequence but n, and a deadline that has passed
\* stays so.
Keeps(p, q, n) ==
    \A x \in Held :
      x.seq # n /\ Fits(p, x)
        => /\ Fits(q, x)
           /\ (x # NoRequest /\ Waited(p, x) => Waited(q, x))

\* The decision on an input that may ask for a reconciliation.
Opened(p, q, req, n) ==
    /\ SlotsOK(q) /\ req \in Held
    /\ Keeps(p, q, n) /\ Fits(q, req)
    /\ \/ /\ q.in_flight = req
          /\ p.in_flight = NoRequest \/ q.active # p.active
       \/ q.in_flight = p.in_flight /\ req = NoRequest

SameSlots(p, q) ==
    /\ q.active = p.active /\ q.in_flight = p.in_flight
    /\ q.pending = p.pending /\ q.sequence = p.sequence
    /\ DeadlinePassed(p) => DeadlinePassed(q)

\* A request has an identity, a trigger and a sequence that is not zero.
LEMMA RequestFields ==
    /\ \A x \in Requests : /\ x.id \in Identities /\ x.trigger \in Triggers
                           /\ x.seq \in 1..SequenceWidth - 1 /\ x # NoRequest
    /\ \A x \in Held : x.seq \in 0..SequenceWidth - 1
    /\ NoRequest.seq = 0 /\ NoRequest.id = NoIdentity
<1>1. \A x \in Requests : /\ x.id \in Identities /\ x.trigger \in Triggers
                          /\ x.seq \in 1..SequenceWidth - 1
  BY Zenon DEF Requests
<1>2. NoRequest.seq = 0 /\ NoRequest.id = NoIdentity
  BY SMT DEF NoRequest
<1> QED
  BY SMT, <1>1, <1>2, ConfigFacts DEF Held

\* The two slots of a policy hold requests or nothing.
LEMMA PolicySlots ==
    ASSUME NEW p \in Policies
    PROVE  /\ p.in_flight \in Held /\ p.pending \in Held
           /\ p.active \in Identities \cup {NoIdentity}
BY SMT DEF Policies, Held

\* The next sequence depends on the last one only.
LEMMA SequenceOfSame ==
    ASSUME NEW p, NEW q, q.sequence = p.sequence
    PROVE  NextSequence(q) = NextSequence(p)
BY Zenon DEF NextSequence

\* The request a task does not hold fits every policy.
LEMMA NoRequestFits ==
    ASSUME NEW p \in Policies
    PROVE  Fits(p, NoRequest)
<1>1. \A x \in Held : x # NoRequest => x.seq # NoRequest.seq
  BY SMT, RequestFields DEF Held
<1> QED
  BY Zenon, <1>1, PolicySlots DEF Fits

\* A policy whose slots are left alone keeps what they promise.
LEMMA SameSlotsKeep ==
    ASSUME NEW p, NEW q \in Policies, NEW n, SlotsOK(p), SameSlots(p, q)
    PROVE  SlotsOK(q) /\ Keeps(p, q, n) /\ NextSequence(q) = NextSequence(p)
<1>1. NextSequence(q) = NextSequence(p)
  BY Zenon, SequenceOfSame DEF SameSlots
<1>2. SlotsOK(q)
  BY Zenon DEF SameSlots, SlotsOK
<1>3. Keeps(p, q, n)
  BY Zenon DEF SameSlots, Keeps, Fits, Waited
<1> QED
  BY Zenon, <1>1, <1>2, <1>3

\* What two steps keep, both together keep.
LEMMA KeepsTransitive ==
    ASSUME NEW p, NEW q, NEW r, NEW n, Keeps(p, q, n), Keeps(q, r, n)
    PROVE  Keeps(p, r, n)
BY Zenon DEF Keeps

\* Empty slots promise nothing.
LEMMA EmptyKeeps ==
    ASSUME NEW p, NEW q, NEW n, q.in_flight = NoRequest, q.pending = NoRequest
    PROVE  Keeps(p, q, n) /\ (q \in Policies => SlotsOK(q))
BY Zenon DEF Keeps, Fits, Waited, SlotsOK

\* request: admitted into the free slot, retained behind another trigger, or
\* ignored.
LEMMA RequestSyncSlots ==
    ASSUME NEW p, SlotsOK(p), p.active \in Identities, NEW trigger \in Triggers
    PROVE  LET d == RequestSync(p, trigger)
           IN /\ Opened(p, d.policy, d.req, NextSequence(p)) /\ d.policy.active = p.active
              /\ p.in_flight = NoRequest => d.req # NoRequest
<1> DEFINE n == NextSequence(p)
           req == [id |-> p.active, trigger |-> trigger, seq |-> n]
           q == [p EXCEPT !.sequence = n]
           r == [q EXCEPT !.pending = req]
           a == [q EXCEPT !.last_request = 0, !.in_flight = req]
           d == RequestSync(p, trigger)
<1>0. p \in Policies
  BY Zenon DEF SlotsOK
<1>1. n \in 1..SequenceWidth - 1
  BY Zenon, <1>0, NextSequenceType
<1> SUFFICES /\ Opened(p, d.policy, d.req, n) /\ d.policy.active = p.active
             /\ p.in_flight = NoRequest => d.req # NoRequest
  BY Zenon
<1>6. d = IF p.in_flight = NoRequest THEN AdmitRequest(q, req, 0)
          ELSE IF \/ trigger # "ActionPreflight"
                  \/ p.in_flight.trigger = "ActionPreflight"
                  \/ p.pending # NoRequest
            THEN Ignored(p) ELSE Ignored(r)
  <2>1. req.seq = n
    BY SMT
  <2> QED
    BY SMT, <2>1 DEF RequestSync
<1> HIDE DEF n, d
<1>2. n \in 0..SequenceWidth - 1
  BY SMT, <1>1
<1>3. /\ req \in Requests /\ req.seq = n /\ req.id = p.active
      /\ req.trigger = trigger
  BY SMT, <1>1 DEF Requests
<1>4. q \in Policies
  BY Zenon, <1>0, <1>2 DEF Policies
<1>5. q.active = p.active /\ q.in_flight = p.in_flight /\ q.pending = p.pending
  BY SMT, <1>0 DEF Policies
<1> HIDE DEF q, req
<1>7. req # NoRequest /\ req \in Held
  BY Zenon, <1>3, RequestFields DEF Held
<1>8. CASE p.in_flight = NoRequest
  <2>1. 0 \in Ages
    BY Zenon, AgesFacts
  <2>2. a \in Policies
    BY Zenon, <1>3, <1>4, <2>1 DEF Policies
  <2>3. a.active = p.active /\ a.in_flight = req /\ a.pending = p.pending
    BY SMT, <1>4, <1>5 DEF Policies
  <2>4. d.policy = a /\ d.req = req
    BY ZenonT(60), <1>6, <1>8, DecideFields DEF AdmitRequest
  <2> HIDE DEF a
  <2>5. p.pending = NoRequest
    BY Zenon, <1>8 DEF SlotsOK
  <2>6. SlotsOK(a)
    BY Zenon, <1>3, <2>2, <2>3, <2>5 DEF SlotsOK
  <2>7. Keeps(p, a, n) /\ Fits(a, req)
    BY Zenon, <1>3, <2>3, <2>5 DEF Keeps, Fits, Waited
  <2> QED
    BY Zenon, <1>7, <1>8, <2>3, <2>4, <2>6, <2>7 DEF Opened
<1>9. CASE p.in_flight # NoRequest /\ d = Ignored(p)
  <2>1. d.policy = p /\ d.req = NoRequest
    BY Zenon, <1>9, DecideFields
  <2>2. Keeps(p, p, n) /\ Fits(p, NoRequest)
    BY Zenon, <1>0, NoRequestFits DEF Keeps
  <2> QED
    BY Zenon, <1>9, <2>1, <2>2 DEF Opened, Held
<1>10. CASE /\ p.in_flight # NoRequest /\ d = Ignored(r)
            /\ p.in_flight.trigger # "ActionPreflight"
            /\ trigger = "ActionPreflight" /\ p.pending = NoRequest
  <2>1. r \in Policies
    BY Zenon, <1>3, <1>4 DEF Policies
  <2>2. /\ r.active = p.active /\ r.in_flight = p.in_flight /\ r.pending = req
        /\ r.last_request = p.last_request
    BY SMT, <1>0, <1>4, <1>5 DEF Policies, q
  <2>3. d.policy = r /\ d.req = NoRequest
    BY Zenon, <1>10, DecideFields
  <2> HIDE DEF r
  <2>4. SlotsOK(r)
    BY Zenon, <1>3, <1>10, <2>1, <2>2 DEF SlotsOK
  <2>5. Keeps(p, r, n) /\ Fits(r, NoRequest)
    BY Zenon, <1>3, <1>10, <2>1, <2>2, NoRequestFits
       DEF Keeps, Fits, Waited, DeadlinePassed
  <2> QED
    BY Zenon, <1>10, <2>2, <2>3, <2>4, <2>5 DEF Opened, Held
<1> QED
  BY Zenon, <1>6, <1>8, <1>9, <1>10

\* Opening a request depends on the slots only.
LEMMA OpenedFromSame ==
    ASSUME NEW p, NEW q, NEW d, NEW n, SameSlots(p, q), Opened(q, d.policy, d.req, n)
    PROVE  Opened(p, d.policy, d.req, n)
<1>1. Keeps(p, d.policy, n)
  BY Zenon DEF SameSlots, Opened, Keeps, Fits, Waited
<1> QED
  BY Zenon, <1>1 DEF SameSlots, Opened

\* An input that is ignored opens no request.
LEMMA IgnoredOpens ==
    ASSUME NEW p, SlotsOK(p), NEW n
    PROVE  Opened(p, Ignored(p).policy, Ignored(p).req, n)
<1>1. Ignored(p).policy = p /\ Ignored(p).req = NoRequest
  BY Zenon, DecideFields
<1>2. Keeps(p, p, n) /\ Fits(p, NoRequest)
  BY Zenon, NoRequestFits DEF Keeps, SlotsOK
<1> QED
  BY Zenon, <1>1, <1>2 DEF Opened, Held

\* An automatic wake opens at most the request it returns.
LEMMA AutomaticSlots ==
    ASSUME NEW p, SlotsOK(p), NEW facets, NEW periodic
    PROVE  LET d == Automatic(p, facets, periodic)
           IN /\ Opened(p, d.policy, d.req, NextSequence(p)) /\ d.policy.active = p.active
<1>1. p.active # NoIdentity =>
        LET d == RequestSync(p, "ManualRefresh")
        IN /\ Opened(p, d.policy, d.req, NextSequence(p)) /\ d.policy.active = p.active
  <2>1. p.active # NoIdentity => p.active \in Identities
    BY Zenon, PolicySlots DEF SlotsOK
  <2>2. "ManualRefresh" \in Triggers /\ "ManualRefresh" # "ActionPreflight"
    BY SMT DEF Triggers
  <2> QED
    BY Zenon, <2>1, <2>2, RequestSyncSlots
<1>2. /\ Opened(p, Ignored(p).policy, Ignored(p).req, NextSequence(p)) /\ Ignored(p).policy = p
  BY Zenon, IgnoredOpens, DecideFields
<1> QED
  BY Zenon, <1>1, <1>2 DEF Automatic

\* Initialized and RealmSelected: another realm empties both slots first.
LEMMA ReduceSelection ==
    ASSUME NEW p, SlotsOK(p), NEW in, in.name \in Selections,
           in.id \in Identities
    PROVE  LET d == Reduce(p, in)
               id == in.id
           IN /\ Opened(p, d.policy, d.req, NextSequence(p)) /\ d.policy.active = id
<1> DEFINE id == in.id
           facets == in.facets
           q == IF p.active \in {NoIdentity, id} THEN p ELSE ResetActive(p)
           s == [q EXCEPT !.active = id, !.foreground = TRUE]
           y == ObserveFreshness(s, 0, facets)
           d == RequestSync(y, "Initial")
           n == NextSequence(p)
<1>0. p \in Policies
  BY Zenon DEF SlotsOK
<1>1. id \in Identities
  OBVIOUS
<1>2. Reduce(p, in) = d
  BY Zenon DEF Reduce, Selections
<1> SUFFICES Opened(p, d.policy, d.req, n) /\ d.policy.active = id
  BY Zenon, <1>2
<1> HIDE DEF id, facets
<1>3. q \in Policies
  <2>1. 0 \in 0..RetryCeiling /\ Never \in Ages
    BY SMT, ConfigFacts, AgesFacts
  <2>2. ResetActive(p) \in Policies
    BY Zenon, <1>0, <2>1 DEF ResetActive, Policies
  <2> QED
    BY Zenon, <1>0, <2>2
<1>4. /\ q.sequence = p.sequence
      /\ p.active = id => q.in_flight = p.in_flight /\ q.pending = p.pending
      /\ p.active # id => q.in_flight = NoRequest /\ q.pending = NoRequest
  <2>1. /\ ResetActive(p).sequence = p.sequence
        /\ ResetActive(p).in_flight = NoRequest /\ ResetActive(p).pending = NoRequest
    BY SMT, <1>0 DEF ResetActive, Policies
  <2>2. p.active = NoIdentity => p.in_flight = NoRequest /\ p.pending = NoRequest
    BY Zenon, <1>0, PolicySlots, RequestFields, ConfigFacts DEF SlotsOK, Held
  <2>3. p.active = id => p.active \in {NoIdentity, id}
    BY Zenon
  <2> QED
    BY Zenon, <2>1, <2>2, <2>3
<1>15. p.active = id => q.last_request = p.last_request
  BY Zenon
<1> HIDE DEF q, d, n
<1>5. s \in Policies
  BY Zenon, <1>1, <1>3 DEF Policies
<1>6. /\ s.active = id /\ s.in_flight = q.in_flight /\ s.pending = q.pending
      /\ s.sequence = q.sequence /\ s.last_request = q.last_request
  BY SMT, <1>3 DEF Policies
<1> HIDE DEF s
<1>7. /\ y \in Policies /\ y.active = s.active /\ y.in_flight = s.in_flight
      /\ y.pending = s.pending /\ y.sequence = s.sequence
      /\ y.last_request = s.last_request
  <2>1. 0 \in Ages
    BY Zenon, AgesFacts
  <2>3. y.last_request = s.last_request
    BY SMT, <1>5 DEF ObserveFreshness, Policies
  <2>2. LET z == ObserveFreshness(s, 0, facets)
        IN /\ z \in Policies /\ z.active = s.active /\ z.in_flight = s.in_flight
           /\ z.pending = s.pending /\ z.foreground = s.foreground
           /\ z.sequence = s.sequence
    BY Zenon, <1>5, <2>1, ObserveFreshnessFacts
  <2> QED
    BY Zenon, <2>2, <2>3
<1> HIDE DEF y
<1>8. /\ y.active = id /\ NextSequence(y) = n
      /\ p.active = id => /\ y.in_flight = p.in_flight /\ y.pending = p.pending
                          /\ y.last_request = p.last_request
      /\ p.active # id => y.in_flight = NoRequest /\ y.pending = NoRequest
  BY Zenon, <1>4, <1>6, <1>7, <1>15, SequenceOfSame DEF n
<1>9. SlotsOK(y) /\ Keeps(p, y, n)
  BY Zenon, <1>7, <1>8 DEF SlotsOK, Keeps, Fits, Waited, DeadlinePassed
<1>10. "Initial" \in Triggers /\ "Initial" # "ActionPreflight"
  BY SMT DEF Triggers
<1>11. Opened(y, d.policy, d.req, n) /\ d.policy.active = id
  BY Zenon, <1>1, <1>8, <1>9, <1>10, RequestSyncSlots DEF d
<1>12. Keeps(p, d.policy, n)
  BY Zenon, <1>9, <1>11, KeepsTransitive DEF Opened
<1>14. \/ /\ d.policy.in_flight = d.req
          /\ p.in_flight = NoRequest \/ d.policy.active # p.active
       \/ d.policy.in_flight = p.in_flight /\ d.req = NoRequest
  <2>1. CASE p.active = id
    BY Zenon, <1>8, <1>11, <2>1 DEF Opened
  <2>2. CASE p.active # id
    BY Zenon, <1>8, <1>11, <2>2 DEF Opened
  <2> QED
    BY Zenon, <2>1, <2>2
<1> QED
  BY Zenon, <1>11, <1>12, <1>14 DEF Opened, id

\* So do a foreground, a restored connection and a periodic tick.
LEMMA ReduceAutomatic ==
    ASSUME NEW p, SlotsOK(p), NEW in, in.name \in Signals \ {"ActionPreflight"}
    PROVE  LET d == Reduce(p, in)
           IN /\ Opened(p, d.policy, d.req, NextSequence(p)) /\ d.policy.active = p.active
<1> DEFINE q == IF in.name = "Foreground" THEN [p EXCEPT !.foreground = TRUE] ELSE p
           d == IF in.name = "PeriodicTick" THEN Automatic(q, in.facets, TRUE)
                ELSE Automatic(q, in.facets, FALSE)
<1>0. p \in Policies
  BY Zenon DEF SlotsOK
<1>1. in.name \in {"Foreground", "PeriodicTick", "ConnectivityRestored"}
  BY Zenon DEF Signals
<1>2. Reduce(p, in) = d
  <2>1. CASE in.name = "Foreground"
    BY SMT, <2>1 DEF Reduce, Selections
  <2>2. CASE in.name = "PeriodicTick"
    BY SMT, <2>2 DEF Reduce, Selections
  <2>3. CASE in.name = "ConnectivityRestored"
    BY SMT, <2>3 DEF Reduce, Selections
  <2> QED
    BY Zenon, <1>1, <2>1, <2>2, <2>3
<1>3. q \in Policies /\ SameSlots(p, q)
  <2>1. [p EXCEPT !.foreground = TRUE] \in Policies
    BY Zenon, <1>0 DEF Policies
  <2>2. SameSlots(p, [p EXCEPT !.foreground = TRUE])
    BY SMT, <1>0 DEF Policies, SameSlots, DeadlinePassed
  <2>3. SameSlots(p, p)
    BY Zenon DEF SameSlots
  <2> QED
    BY Zenon, <1>0, <2>1, <2>2, <2>3
<1> HIDE DEF q
<1>4. SlotsOK(q) /\ NextSequence(q) = NextSequence(p)
  BY Zenon, <1>3, SameSlotsKeep
<1>5. /\ Opened(q, d.policy, d.req, NextSequence(q)) /\ d.policy.active = q.active
  BY Zenon, <1>4, AutomaticSlots
<1> HIDE DEF d
<1>6. Opened(p, d.policy, d.req, NextSequence(p))
  BY Zenon, <1>3, <1>4, <1>5, OpenedFromSame
<1> QED
  BY Zenon, <1>2, <1>3, <1>4, <1>5, <1>6 DEF SameSlots

\* A preflight opens its request or retains it.
LEMMA ReducePreflight ==
    ASSUME NEW p, SlotsOK(p), NEW in, in.name = "ActionPreflight"
    PROVE  LET d == Reduce(p, in)
           IN Opened(p, d.policy, d.req, NextSequence(p)) /\ d.policy.active = p.active
<1> DEFINE d == IF p.active = NoIdentity THEN Ignored(p)
                ELSE RequestSync(p, "ActionPreflight")
<1>2. Reduce(p, in) = d
  BY SMT DEF Reduce, Selections
<1>3. p.active # NoIdentity => p.active \in Identities
  BY Zenon, PolicySlots DEF SlotsOK
<1>4. "ActionPreflight" \in Triggers
  BY SMT DEF Triggers
<1>5. Opened(p, d.policy, d.req, NextSequence(p)) /\ d.policy.active = p.active
  BY Zenon, <1>3, <1>4, RequestSyncSlots, IgnoredOpens, DecideFields
<1> QED
  BY Zenon, <1>2, <1>5

\* An observed reconciliation leaves the slots alone.
LEMMA ReduceObserved ==
    ASSUME NEW p, SlotsOK(p), NEW in, in.name = "ReconciliationObserved"
    PROVE  LET d == Reduce(p, in)
           IN d.policy \in Policies /\ SameSlots(p, d.policy) /\ d.req = NoRequest
<1> DEFINE y == ObserveFreshness(p, 0, in.facets)
           q == IF p.active = in.id THEN y ELSE p
<1>0. p \in Policies
  BY Zenon DEF SlotsOK
<1>1. Reduce(p, in) = Ignored(q)
  BY SMT DEF Reduce, Selections
<1>2. y \in Policies /\ SameSlots(p, y)
  <2>1. 0 \in Ages
    BY Zenon, AgesFacts
  <2>2. /\ y \in Policies /\ y.active = p.active /\ y.in_flight = p.in_flight
        /\ y.pending = p.pending /\ y.sequence = p.sequence
    BY Zenon, <1>0, <2>1, ObserveFreshnessFacts
  <2>3. y.last_request = p.last_request
    BY SMT, <1>0 DEF ObserveFreshness, Policies
  <2> HIDE DEF y
  <2> QED
    BY Zenon, <2>2, <2>3 DEF SameSlots, DeadlinePassed
<1> HIDE DEF y
<1>3. q \in Policies /\ SameSlots(p, q)
  BY Zenon, <1>0, <1>2 DEF SameSlots
<1> HIDE DEF q
<1> QED
  BY Zenon, <1>1, <1>3, DecideFields

\* The decision on the answer to, or the timeout of, the request x: nothing,
\* unless x is the one in flight; then the retained preflight takes its slot.
Settled(p, x, q, req) ==
    /\ SlotsOK(q) /\ req \in Held /\ Fits(q, req)
    /\ q.active = p.active /\ NextSequence(q) = NextSequence(p)
    /\ \A n : Keeps(p, q, n)
    /\ req # NoRequest => req.trigger = "ActionPreflight"
    /\ \/ p.in_flight = x /\ q.in_flight = req
       \/ p.in_flight # x /\ q = p /\ req = NoRequest

\* A result settles the request it belongs to and no other.
LEMMA SettlePolicySlots ==
    ASSUME NEW p, SlotsOK(p), NEW x \in Requests,
           p.in_flight # NoRequest /\ x.seq = p.in_flight.seq => x = p.in_flight,
           NEW age \in 0..MaxAge, NEW facets, NEW succeeded \in BOOLEAN
    PROVE  LET d == SettlePolicy(p, x.id, x.seq, age, facets, succeeded)
           IN Settled(p, x, d.policy, d.req)
<1> DEFINE d == SettlePolicy(p, x.id, x.seq, age, facets, succeeded)
           own == /\ p.active = x.id /\ p.in_flight # NoRequest
                  /\ p.in_flight.seq = x.seq
<1>0. p \in Policies
  BY Zenon DEF SlotsOK
<1>1. /\ Decided(p, d) /\ d.policy.sequence = p.sequence
      /\ ~own => d.policy = p /\ d.req = NoRequest
      /\ own => /\ d.policy.in_flight = p.pending /\ d.policy.pending = NoRequest
                /\ d.req = p.pending
  BY SMT, <1>0, SettlePolicyFacts
<1> SUFFICES Settled(p, x, d.policy, d.req)
  BY Zenon
<1> HIDE DEF d
<1>2. own <=> p.in_flight = x
  <2>1. x # NoRequest
    BY Zenon, RequestFields
  <2>2. own => p.in_flight = x
    BY Zenon
  <2>3. p.in_flight = x => own
    BY Zenon, <2>1 DEF SlotsOK
  <2> QED
    BY Zenon, <2>2, <2>3
<1>3. NextSequence(d.policy) = NextSequence(p) /\ d.policy \in Policies
  BY Zenon, <1>1, SequenceOfSame DEF Decided
<1>4. CASE own
  <2>1. SlotsOK(d.policy) /\ Fits(d.policy, d.req)
    BY Zenon, <1>1, <1>3, <1>4 DEF SlotsOK, Decided, Fits
  <2>2. \A n : Keeps(p, d.policy, n)
    BY Zenon, <1>1, <1>4 DEF Keeps, Fits, Waited
  <2>3. d.req # NoRequest => d.req.trigger = "ActionPreflight"
    BY Zenon, <1>1, <1>4 DEF SlotsOK
  <2> QED
    BY Zenon, <1>1, <1>2, <1>3, <1>4, <2>1, <2>2, <2>3 DEF Settled, Decided, Held
<1>5. CASE ~own
  <2>1. Fits(p, NoRequest) /\ \A n : Keeps(p, p, n)
    BY Zenon, <1>0, NoRequestFits DEF Keeps
  <2> QED
    BY Zenon, <1>1, <1>2, <1>5, <2>1 DEF Settled, Held
<1> QED
  BY Zenon, <1>4, <1>5

\* A timeout settles the request it belongs to and no other.
LEMMA ReduceTimedOut ==
    ASSUME NEW p, SlotsOK(p), NEW x \in Requests,
           p.in_flight # NoRequest /\ x.seq = p.in_flight.seq => x = p.in_flight
    PROVE  LET d == Reduce(p, TimedOut(x)) IN Settled(p, x, d.policy, d.req)
<1> DEFINE in == TimedOut(x)
           d == SettlePolicy(p, x.id, x.seq, 0, "Stale", FALSE)
<1>1. /\ in.name = "ReconciliationTimedOut" /\ in.id = x.id /\ in.seq = x.seq
      /\ in.facets = "Stale"
  BY SMT DEF TimedOut, Input
<1>2. Reduce(p, in) = d
  <2> HIDE DEF in
  <2> QED
    BY SMT, <1>1 DEF Reduce, Selections
<1>3. Settled(p, x, d.policy, d.req)
  BY Zenon, SettlePolicySlots, AgesFacts
<1> QED
  BY Zenon, <1>2, <1>3

-----------------------------------------------------------------------------
(***************************************************************************)
(* The inputs of the driver                                                *)
(***************************************************************************)
Reports == {"ReconciliationObserved", "ReconciliationTimedOut"}
InputRecords ==
    [name : Selections \cup Signals \cup Reports,
     id : Identities \cup {NoIdentity}, seq : 0..SequenceWidth - 1,
     facets : Facets]

DriverInputs ==
    {in \in InputRecords : in.name \in Selections => in.id \in Identities}

\* The service: its types, and the policy on the checkpoint's realm.
Sound(s) ==
    /\ s \in GuardedServices /\ SlotsOK(s.policy)
    /\ s.checkpoint.identity = s.policy.active

InputIdentity(s, in) ==
    IF in.name \in Selections THEN in.id ELSE s.checkpoint.identity

\* The checkpoint follows the identity of the input.
LEMMA ObserveInputFacts ==
    ASSUME NEW s \in GuardedServices, NEW in \in DriverInputs
    PROVE  LET c == ObserveInput(s.checkpoint, in)
           IN c \in Checkpoints /\ c.identity = InputIdentity(s, in)
<1> DEFINE c == s.checkpoint
           both == [c EXCEPT !.facets = in.facets, !.now = 0]
           aged == [c EXCEPT !.now = 0]
           new == [identity |-> in.id, facets |-> in.facets, now |-> 0]
<1>1. c \in Checkpoints
  BY SMT DEF GuardedServices
<1>2. /\ in.facets \in Facets /\ in.id \in Identities \cup {NoIdentity}
      /\ in.name \in Selections \cup Signals \cup Reports
  BY Zenon DEF DriverInputs, InputRecords
<1>3. /\ both \in Checkpoints /\ both.identity = c.identity
      /\ aged \in Checkpoints /\ aged.identity = c.identity
      /\ new \in Checkpoints /\ new.identity = in.id
  <2> HIDE DEF c
  <2>1. 0 \in 0..MaxAge
    BY Zenon, AgesFacts
  <2>2. both \in Checkpoints /\ aged \in Checkpoints /\ new \in Checkpoints
    BY Zenon, <1>1, <1>2, <2>1 DEF Checkpoints
  <2>3. both.identity = c.identity /\ aged.identity = c.identity
    BY SMT, <1>1 DEF Checkpoints
  <2> QED
    BY Zenon, <2>2, <2>3
<1> DEFINE o == ObserveInput(c, in)
<1>4. IF in.name \in Selections THEN o = new ELSE o \in {both, aged, c}
  <2> HIDE DEF c, both, aged, new
  <2>1. CASE in.name \in Selections
    BY SMT, <2>1 DEF ObserveInput, Selections, Signals, new
  <2>2. CASE in.name \in Signals
    BY SMT, <2>2 DEF ObserveInput, Selections, Signals, both
  <2>4. CASE in.name = "ReconciliationObserved"
    BY SMT, <2>4 DEF ObserveInput, Selections, Signals, both
  <2>5. CASE in.name = "ReconciliationTimedOut"
    BY SMT, <2>5 DEF ObserveInput, Selections, Signals, aged
  <2> QED
    BY Zenon, <1>2, <2>1, <2>2, <2>4, <2>5 DEF Reports
<1>5. o \in Checkpoints /\ o.identity = InputIdentity(s, in)
  <2> HIDE DEF both, aged, new, o
  <2> QED
    BY Zenon, <1>1, <1>3, <1>4 DEF InputIdentity
<1> QED
  BY Zenon, <1>5

\* Binding an input to the service changes no policy.
LEMMA BoundFacts ==
    ASSUME NEW s \in GuardedServices, NEW in \in DriverInputs
    PROVE  LET b == Bound(s, in)
           IN /\ b \in GuardedServices /\ b.policy = s.policy
              /\ b.checkpoint.identity = InputIdentity(s, in)
<1> DEFINE o == ObserveInput(s.checkpoint, in)
           c == [s EXCEPT !.checkpoint = o]
           w == SelectRealm(c.watch, in.id)
           e == [c EXCEPT !.backgrounded = FALSE, !.watch = w, !.gen = w.gen]
           b == Bound(s, in)
<1>1. o \in Checkpoints /\ o.identity = InputIdentity(s, in)
  BY Zenon, ObserveInputFacts
<1> HIDE DEF o
<1>2. c \in GuardedServices
  BY Zenon, <1>1 DEF GuardedServices
<1>3. c.policy = s.policy /\ c.checkpoint = o
  BY SMT DEF GuardedServices
<1>4. b = CASE in.name = "Backgrounded" -> Leave(c)
            [] in.name = "Foreground" -> Return(c)
            [] in.name \in Selections -> e
            [] OTHER -> c
  BY Zenon DEF Bound, o
<1> HIDE DEF c
<1>5. CASE in.name = "Backgrounded"
  <2>1. b = Leave(c)
    <3> HIDE DEF b, e
    <3> QED
      BY SMT, <1>4, <1>5 DEF Selections
  <2> QED
    BY ZenonT(60), <1>1, <1>2, <1>3, <2>1, LeaveFacts
<1>6. CASE in.name = "Foreground"
  <2>1. b = Return(c)
    <3> HIDE DEF b, e
    <3> QED
      BY SMT, <1>4, <1>6 DEF Selections
  <2> QED
    BY Zenon, <1>1, <1>2, <1>3, <2>1, ReturnFacts
<1>7. CASE in.name \in Selections
  <2>1. b = e
    <3> HIDE DEF b, e
    <3> QED
      BY SMT, <1>4, <1>7 DEF Selections
  <2>2. in.id \in Identities /\ c.watch \in Runtimes
    BY SMT, <1>2, <1>7 DEF DriverInputs, InputRecords, GuardedServices
  <2>3. w \in Runtimes
    BY Zenon, <2>2, SelectRealmFacts
  <2>4. w.gen \in 0..MaxGeneration
    BY SMT, <2>3, RuntimeFields DEF Runtimes
  <2> HIDE DEF w, b
  <2>5. e \in GuardedServices
    BY Zenon, <1>2, <2>3, <2>4 DEF GuardedServices
  <2>6. e.policy = c.policy /\ e.checkpoint = c.checkpoint
    BY SMT, <1>2 DEF GuardedServices
  <2> HIDE DEF e
  <2> QED
    BY Zenon, <1>1, <1>3, <2>1, <2>5, <2>6 DEF b
<1>8. CASE in.name \notin Selections \cup {"Backgrounded", "Foreground"}
  <2>1. b = c
    <3> HIDE DEF b, e
    <3> QED
      BY SMT, <1>4, <1>8 DEF Selections
  <2> QED
    BY Zenon, <1>1, <1>2, <1>3, <2>1
<1> QED
  BY Zenon, <1>5, <1>6, <1>7, <1>8

\* begin: refused without a trace, or the policy's decision.
LEMMA BeginFacts ==
    ASSUME NEW s \in GuardedServices, NEW in \in DriverInputs,
           Reduce(s.policy, in).policy \in Policies
    PROVE  LET b == Begin(s, in)
               d == Reduce(s.policy, in)
           IN /\ b.ok \in BOOLEAN
              /\ ~b.ok => b.svc = s /\ b.req = NoRequest /\ in.name \in Selections
              /\ b.ok => /\ b.svc \in GuardedServices /\ b.svc.policy = d.policy
                         /\ b.req = d.req
                         /\ b.svc.checkpoint.identity = InputIdentity(s, in)
<1> DEFINE b == Begin(s, in)
           a == Bound(s, in)
           d == Reduce(s.policy, in)
           e == [a EXCEPT !.policy = d.policy]
<1>1. /\ a \in GuardedServices /\ a.policy = s.policy
      /\ a.checkpoint.identity = InputIdentity(s, in)
  BY Zenon, BoundFacts
<1>2. b = IF Unresolved(s, in) THEN [svc |-> s, req |-> NoRequest, ok |-> FALSE]
          ELSE [svc |-> [a EXCEPT !.policy = Reduce(a.policy, in).policy],
                req |-> Reduce(a.policy, in).req, ok |-> TRUE]
  BY Zenon DEF Begin
<1> HIDE DEF a
<1>3. b = IF Unresolved(s, in) THEN [svc |-> s, req |-> NoRequest, ok |-> FALSE]
          ELSE [svc |-> e, req |-> d.req, ok |-> TRUE]
  BY Zenon, <1>1, <1>2
<1> HIDE DEF d
<1>4. e \in GuardedServices
  BY Zenon, <1>1 DEF GuardedServices, d
<1>5. e.policy = d.policy /\ e.checkpoint = a.checkpoint
  BY SMT, <1>1 DEF GuardedServices
<1>6. Unresolved(s, in) => in.name \in Selections
  BY Zenon DEF Unresolved
<1> HIDE DEF e, b
<1>7. CASE Unresolved(s, in)
  <2>1. ~b.ok /\ b.svc = s /\ b.req = NoRequest /\ b.ok \in BOOLEAN
    BY SMT, <1>3, <1>7
  <2> QED
    BY Zenon, <1>6, <1>7, <2>1 DEF b
<1>8. CASE ~Unresolved(s, in)
  <2>1. b.ok /\ b.svc = e /\ b.req = d.req /\ b.ok \in BOOLEAN
    BY SMT, <1>3, <1>8
  <2> QED
    BY Zenon, <1>1, <1>4, <1>5, <2>1 DEF b, d
<1> QED
  BY Zenon, <1>7, <1>8

\* An input that may ask for a reconciliation, at the service.
Opens(s, b) ==
    /\ Sound(b.svc) /\ b.ok
    /\ Opened(s.policy, b.svc.policy, b.req, NextSequence(s.policy))

\* What an input carries by default.
LEMMA InputFields ==
    ASSUME NEW name
    PROVE  /\ Input(name).name = name /\ Input(name).id = NoIdentity
           /\ Input(name).seq = 0 /\ Input(name).facets = "Stale"
BY SMT DEF Input

\* Every input of the driver is one of the lifecycle's.
LEMMA InputRecord ==
    ASSUME NEW name \in Selections \cup Signals \cup Reports
    PROVE  Input(name) \in InputRecords
<1>1. "Stale" \in Facets /\ 0 \in 0..SequenceWidth - 1
  BY SMT, ConfigFacts DEF Facets
<1> QED
  BY Zenon, <1>1 DEF Input, InputRecords

\* The input of a selection.
LEMMA SelectedInput ==
    ASSUME NEW name \in Selections, NEW id \in Identities, NEW facets \in Facets
    PROVE  LET in == Selected(name, id, facets)
           IN in \in DriverInputs /\ in.name = name /\ in.id = id
<1> DEFINE i == Input(name)
           in == [i EXCEPT !.id = id, !.facets = facets]
<1>1. i \in InputRecords /\ i.name = name
  BY Zenon, InputRecord, InputFields
<1>2. Selected(name, id, facets) = in
  BY Zenon DEF Selected
<1> HIDE DEF i
<1>3. in \in InputRecords
  BY Zenon, <1>1 DEF InputRecords
<1>4. in.name = name /\ in.id = id
  BY SMT, <1>1 DEF InputRecords
<1> HIDE DEF in
<1>5. in \in DriverInputs
  BY Zenon, <1>3, <1>4 DEF DriverInputs, InputRecords
<1> QED
  BY SMT, <1>2, <1>4, <1>5

\* The input of a signal.
LEMMA SignalInput ==
    ASSUME NEW name \in Signals, NEW facets \in Facets
    PROVE  LET in == Signal(name, facets)
           IN in \in DriverInputs /\ in.name = name
<1> DEFINE i == Input(name)
           in == [i EXCEPT !.facets = facets]
<1>1. i \in InputRecords /\ i.name = name
  BY Zenon, InputRecord, InputFields
<1>2. Signal(name, facets) = in
  BY Zenon DEF Signal
<1> HIDE DEF i
<1>3. in \in InputRecords
  BY Zenon, <1>1 DEF InputRecords
<1>4. in.name = name
  BY SMT, <1>1 DEF InputRecords
<1> HIDE DEF in
<1>5. in \in DriverInputs
  BY SMT, <1>3, <1>4 DEF DriverInputs, InputRecords, Signals, Selections
<1> QED
  BY SMT, <1>2, <1>4, <1>5

\* The input of a timeout.
LEMMA TimedOutInput ==
    ASSUME NEW x \in Requests
    PROVE  LET in == TimedOut(x)
           IN /\ in \in DriverInputs /\ in.name = "ReconciliationTimedOut"
              /\ in.seq = x.seq
<1> DEFINE i == Input("ReconciliationTimedOut")
           in == [i EXCEPT !.id = x.id, !.seq = x.seq]
<1>1. i \in InputRecords /\ i.name = "ReconciliationTimedOut"
  BY Zenon, InputRecord, InputFields DEF Reports
<1>2. TimedOut(x) = in
  BY Zenon DEF TimedOut
<1>3. x.id \in Identities \cup {NoIdentity} /\ x.seq \in 0..SequenceWidth - 1
  BY SMT, RequestFields, ConfigFacts
<1> HIDE DEF i
<1>4. in \in InputRecords
  BY Zenon, <1>1, <1>3 DEF InputRecords
<1>5. in.name = "ReconciliationTimedOut" /\ in.seq = x.seq
  BY SMT, <1>1 DEF InputRecords
<1> HIDE DEF in
<1>6. in \in DriverInputs
  BY SMT, <1>4, <1>5 DEF DriverInputs, InputRecords, Selections
<1> QED
  BY SMT, <1>2, <1>5, <1>6

\* The input of a reconciliation observed.
LEMMA ObservedInput ==
    ASSUME NEW id \in Identities \cup {NoIdentity}, NEW facets \in Facets
    PROVE  LET in == [Input("ReconciliationObserved") EXCEPT
                        !.id = id, !.facets = facets]
           IN in \in DriverInputs /\ in.name = "ReconciliationObserved"
<1> DEFINE i == Input("ReconciliationObserved")
           in == [i EXCEPT !.id = id, !.facets = facets]
<1>1. i \in InputRecords /\ i.name = "ReconciliationObserved"
  BY Zenon, InputRecord, InputFields DEF Reports
<1> HIDE DEF i
<1>2. in \in InputRecords
  BY Zenon, <1>1 DEF InputRecords
<1>3. in.name = "ReconciliationObserved"
  BY SMT, <1>1 DEF InputRecords
<1> HIDE DEF in
<1>4. in \in DriverInputs
  BY SMT, <1>2, <1>3 DEF DriverInputs, InputRecords, Selections
<1> QED
  BY Zenon, <1>3, <1>4 DEF in, i

\* Signals and results are not selections.
LEMMA SelectionNames ==
    \A name \in Signals \cup Reports : name \notin Selections
BY SMT DEF Signals, Selections, Reports

\* The types of a sound service.
LEMMA SoundFields ==
    ASSUME NEW s, Sound(s)
    PROVE  /\ s.policy \in Policies /\ s.checkpoint.facets \in Facets
           /\ s.checkpoint.identity \in Identities \cup {NoIdentity}
           /\ s.checkpoint.now \in 0..MaxAge
<1>1. s.checkpoint \in Checkpoints
  BY SMT DEF Sound, GuardedServices
<1> QED
  BY SMT, <1>1 DEF Sound, SlotsOK, Checkpoints

\* A selection is refused, or it opens at most the request it returns.
LEMMA BeginSelection ==
    ASSUME NEW s, Sound(s), NEW in \in DriverInputs, in.name \in Selections
    PROVE  LET b == Begin(s, in)
           IN /\ ~b.ok => b.svc = s /\ b.req = NoRequest
              /\ b.ok => Opens(s, b) /\ b.svc.policy.active = in.id
              /\ b.ok \in BOOLEAN
<1> DEFINE b == Begin(s, in)
           d == Reduce(s.policy, in)
<1>1. in.id \in Identities
  BY Zenon DEF DriverInputs
<1>2. /\ Opened(s.policy, d.policy, d.req, NextSequence(s.policy))
      /\ d.policy.active = in.id
  BY SMT, <1>1, ReduceSelection DEF Sound
<1>3. InputIdentity(s, in) = in.id
  BY Zenon DEF InputIdentity
<1>4. d.policy \in Policies /\ SlotsOK(d.policy)
  BY Zenon, <1>2 DEF Opened, SlotsOK
<1>5. /\ b.ok \in BOOLEAN
      /\ ~b.ok => b.svc = s /\ b.req = NoRequest
      /\ b.ok => /\ b.svc \in GuardedServices /\ b.svc.policy = d.policy
                 /\ b.req = d.req /\ b.svc.checkpoint.identity = in.id
  BY Zenon, <1>3, <1>4, BeginFacts DEF Sound
<1> HIDE DEF d
<1> SUFFICES /\ ~b.ok => b.svc = s /\ b.req = NoRequest
             /\ b.ok => Opens(s, b) /\ b.svc.policy.active = in.id
             /\ b.ok \in BOOLEAN
  BY Zenon
<1> HIDE DEF b
<1> QED
  BY Zenon, <1>2, <1>4, <1>5 DEF Opens, Sound

\* A signal keeps the realm.
LEMMA BeginSignal ==
    ASSUME NEW s, Sound(s), NEW in \in DriverInputs, in.name \in Signals
    PROVE  LET b == Begin(s, in)
           IN Opens(s, b) /\ b.svc.policy.active = s.policy.active
<1> DEFINE b == Begin(s, in)
           d == Reduce(s.policy, in)
<1>1. in.name \notin Selections
  BY Zenon, SelectionNames DEF Reports
<1>2. /\ Opened(s.policy, d.policy, d.req, NextSequence(s.policy))
      /\ d.policy.active = s.policy.active
  <2>1. CASE in.name = "ActionPreflight"
    BY Zenon, <2>1, ReducePreflight DEF Sound
  <2>2. CASE in.name # "ActionPreflight"
    <3>1. in.name \in Signals \ {"ActionPreflight"}
      BY Zenon, <2>2
    <3> QED
      BY Zenon, <3>1, ReduceAutomatic DEF Sound
  <2> QED
    BY Zenon, <2>1, <2>2
<1>3. InputIdentity(s, in) = s.policy.active
  BY Zenon, <1>1 DEF InputIdentity, Sound
<1>4. d.policy \in Policies /\ SlotsOK(d.policy)
  BY Zenon, <1>2 DEF Opened, SlotsOK
<1>5. /\ b.ok /\ b.svc \in GuardedServices /\ b.svc.policy = d.policy
      /\ b.req = d.req /\ b.svc.checkpoint.identity = s.policy.active
  BY Zenon, <1>1, <1>3, <1>4, BeginFacts DEF Sound
<1> HIDE DEF d
<1> SUFFICES Opens(s, b) /\ b.svc.policy.active = s.policy.active
  BY Zenon
<1> HIDE DEF b
<1> QED
  BY Zenon, <1>2, <1>4, <1>5 DEF Opens, Sound

\* A reconciliation observed elsewhere leaves the slots alone.
LEMMA BeginObserved ==
    ASSUME NEW s, Sound(s), NEW in \in DriverInputs,
           in.name = "ReconciliationObserved"
    PROVE  LET b == Begin(s, in)
           IN /\ Sound(b.svc) /\ SameSlots(s.policy, b.svc.policy)
              /\ b.req = NoRequest /\ b.ok
<1> DEFINE b == Begin(s, in)
           d == Reduce(s.policy, in)
<1>1. in.name \notin Selections
  BY Zenon, SelectionNames DEF Reports
<1>2. d.policy \in Policies /\ SameSlots(s.policy, d.policy) /\ d.req = NoRequest
  BY Zenon, ReduceObserved DEF Sound
<1>3. InputIdentity(s, in) = s.policy.active
  BY Zenon, <1>1 DEF InputIdentity, Sound
<1>4. SlotsOK(d.policy)
  BY Zenon, <1>2, SameSlotsKeep DEF Sound
<1>5. /\ b.svc \in GuardedServices /\ b.svc.policy = d.policy /\ b.ok
      /\ b.req = d.req /\ b.svc.checkpoint.identity = s.policy.active
  BY Zenon, <1>1, <1>2, <1>3, BeginFacts DEF Sound
<1> HIDE DEF d
<1> QED
  BY Zenon, <1>2, <1>4, <1>5 DEF Sound, SameSlots

\* The service times out the request of the task and no other.
LEMMA BeginTimedOut ==
    ASSUME NEW s, Sound(s), NEW x \in Requests,
           s.policy.in_flight # NoRequest /\ x.seq = s.policy.in_flight.seq =>
             x = s.policy.in_flight
    PROVE  LET b == Begin(s, TimedOut(x))
           IN b.ok /\ Sound(b.svc) /\ Settled(s.policy, x, b.svc.policy, b.req)
<1> DEFINE in == TimedOut(x)
           b == Begin(s, in)
           d == Reduce(s.policy, in)
<1>1. in \in DriverInputs /\ in.name \notin Selections
  BY Zenon, TimedOutInput, SelectionNames DEF Reports
<1>2. Settled(s.policy, x, d.policy, d.req)
  BY Zenon, ReduceTimedOut DEF Sound
<1> SUFFICES b.ok /\ Sound(b.svc) /\ Settled(s.policy, x, b.svc.policy, b.req)
  BY Zenon
<1> HIDE DEF in
<1>3. InputIdentity(s, in) = s.policy.active
  BY Zenon, <1>1 DEF InputIdentity, Sound
<1>4. d.policy \in Policies /\ SlotsOK(d.policy)
  BY Zenon, <1>2 DEF Settled, SlotsOK
<1>5. /\ b.ok /\ b.svc \in GuardedServices /\ b.svc.policy = d.policy
      /\ b.req = d.req /\ b.svc.checkpoint.identity = s.policy.active
  BY Zenon, <1>1, <1>3, <1>4, BeginFacts DEF Sound
<1> HIDE DEF b, d
<1> QED
  BY Zenon, <1>2, <1>4, <1>5 DEF Settled, Sound

\* The service settles the request of the task and no other.
LEMMA SettleSound ==
    ASSUME NEW s, Sound(s), NEW x \in Requests, Fits(s.policy, x),
           NEW facets \in Facets, NEW succeeded \in BOOLEAN
    PROVE  LET r == Settle(s, x, facets, succeeded)
           IN Sound(r.svc) /\ Settled(s.policy, x, r.svc.policy, r.req)
<1> DEFINE age == IF s.checkpoint.identity = x.id THEN s.checkpoint.now ELSE MaxAge
           d == SettlePolicy(s.policy, x.id, x.seq, age, facets, succeeded)
           r == Settle(s, x, facets, succeeded)
<1>1. s \in GuardedServices /\ SlotsOK(s.policy)
  BY Zenon DEF Sound
<1>2. age \in 0..MaxAge
  BY Zenon, SoundFields, AgesFacts
<1>3. Settled(s.policy, x, d.policy, d.req)
  BY Zenon, <1>1, <1>2, SettlePolicySlots DEF Fits
<1>4. /\ r.svc \in GuardedServices
      /\ r.svc.checkpoint.identity = s.checkpoint.identity
  BY Zenon, <1>1, SettleFacts
<1> DEFINE f == IF Current(s, x) THEN facets ELSE s.checkpoint.facets
           c == [s.checkpoint EXCEPT !.facets = f]
           e == [s EXCEPT !.policy = d.policy, !.checkpoint = c]
<1>5. r.svc = e /\ r.req = d.req
  BY Zenon DEF Settle
<1>6. e.policy = d.policy
  <2> HIDE DEF d, c
  <2> QED
    BY SMT, <1>1 DEF GuardedServices
<1> HIDE DEF d, r, e
<1>7. SlotsOK(d.policy) /\ d.policy.active = s.policy.active
  BY Zenon, <1>3 DEF Settled
<1>8. Sound(r.svc) /\ Settled(s.policy, x, r.svc.policy, r.req)
  BY Zenon, <1>3, <1>4, <1>5, <1>6, <1>7 DEF Sound
<1> QED
  BY Zenon, <1>8 DEF r

-----------------------------------------------------------------------------
(***************************************************************************)
(* Bounds                                                                  *)
(***************************************************************************)

\* The cap of ages is at least every bound they are compared with.
LEMMA MaxAgeBounds ==
    /\ MaxAge \in Nat /\ MaxAge >= 1
    /\ Debounce <= MaxAge /\ StaleAge <= MaxAge /\ RequestTimeout <= MaxAge
    /\ \A id \in Identities : BackoffMax + Jitter[id] <= MaxAge
<1> DEFINE S == {Debounce, StaleAge, RequestTimeout}
                  \cup {BackoffMax + Jitter[id] : id \in Identities}
           top == Debounce + StaleAge + RequestTimeout + BackoffMax + JitterWindow
<1>1. /\ {Debounce, StaleAge, RequestTimeout, BackoffMax, BackoffBase} \subseteq Nat \ {0}
      /\ JitterWindow \in Nat
      /\ \A id \in Identities : Jitter[id] \in Nat /\ Jitter[id] <= JitterWindow
  BY SMT, LifecycleConfig
<1>2. S \in SUBSET Nat /\ S # {}
  BY SMT, <1>1
<1>3. top \in Nat /\ \A x \in S : x <= top
  BY SMT, <1>1
<1>4. MaxAge = Max(S)
  BY Zenon DEF MaxAge
<1> HIDE DEF S, top
<1>5. MaxAge \in S /\ \A y \in S : MaxAge >= y
  BY Zenon, <1>2, <1>3, <1>4, BoundedMax
<1>6. /\ Debounce \in S /\ StaleAge \in S /\ RequestTimeout \in S
      /\ \A id \in Identities : BackoffMax + Jitter[id] \in S
  BY Zenon DEF S
<1> QED
  BY SMT, <1>1, <1>5, <1>6, MaxAgeNat

\* What the configuration says about the driver.
LEMMA DriverConstants ==
    /\ FirstRealm \in Identities /\ MaxDrained \in Nat \ {0}
    /\ MaxTries \in Nat /\ MaxTries > 1 /\ Answers \subseteq Facets
    /\ RequestTimeout \in Nat \ {0}
BY SMT, DriverConfig, LifecycleConfig

\* The back-off's powers of two are integers.
LEMMA PowerType == \A k \in Nat : 2 ^ k \in Int
BY SMT

\* next_wakeup_millis lies within the longest bound of the policy.
LEMMA NextWakeupBound ==
    ASSUME NEW p \in Policies, NextWakeup(p) # Never
    PROVE  NextWakeup(p) \in 0..MaxAge
<1> DEFINE left(age, bound) == IF age = Never THEN 0 ELSE Max({bound - age, 0})
           x == left(p.last_fresh, StaleAge)
           y == left(p.last_request, Debounce)
           z == left(p.last_failure, RetryDelay(p))
<1>1. /\ NextWakeup(p) = Max({x, y, z}) /\ p.active # NoIdentity
  BY Zenon DEF NextWakeup
<1>2. /\ p.active \in Identities /\ p.retry_count \in Nat
      /\ p.last_fresh \in Ages /\ p.last_request \in Ages /\ p.last_failure \in Ages
  BY SMT, <1>1, ConfigFacts DEF Policies
<1>3. ASSUME NEW age \in Ages, NEW bound \in Int, bound <= MaxAge
      PROVE  left(age, bound) \in 0..MaxAge
  <2>1. CASE age = Never
    BY SMT, <2>1, AgesFacts
  <2>2. CASE age # Never
    <3>1. age \in 0..MaxAge /\ bound - age \in Int /\ 0 \in Int
      BY SMT, <2>2, MaxAgeNat DEF Ages
    <3>2. Max({bound - age, 0}) = IF bound - age >= 0 THEN bound - age ELSE 0
      BY Zenon, <3>1, MaxPair
    <3> QED
      BY SMT, <1>3, <2>2, <3>1, <3>2, MaxAgeNat
  <2> QED
    BY Zenon, <2>1, <2>2
<1>4. /\ StaleAge \in Int /\ StaleAge <= MaxAge
      /\ Debounce \in Int /\ Debounce <= MaxAge
  BY SMT, MaxAgeBounds, LifecycleConfig
<1>5. RetryDelay(p) \in Int /\ RetryDelay(p) <= MaxAge
  <2> DEFINE k == Max({p.retry_count - 1, 0})
             e == BackoffBase * 2 ^ k
             m == Min({e, BackoffMax})
  <2>1. p.retry_count - 1 \in Int /\ 0 \in Int
    BY SMT, <1>2
  <2>2. k = IF p.retry_count - 1 >= 0 THEN p.retry_count - 1 ELSE 0
    BY Zenon, <2>1, MaxPair
  <2>3. RetryDelay(p) = m + Jitter[p.active]
    BY Zenon, <1>1 DEF RetryDelay
  <2> HIDE DEF k
  <2>4. k \in Nat
    BY SMT, <1>2, <2>2
  <2>5. 2 ^ k \in Int
    BY Zenon, <2>4, PowerType
  <2>6. /\ BackoffBase \in Nat /\ BackoffMax \in Nat /\ BackoffMax \in Int
        /\ Jitter[p.active] \in Nat
    BY SMT, <1>2, LifecycleConfig
  <2> DEFINE v == 2 ^ k
  <2>7. BackoffBase * v \in Int
    <3>1. v \in Int
      BY Zenon, <2>5
    <3> HIDE DEF v
    <3> QED
      BY SMT, <2>6, <3>1
  <2>8. e \in Int
    BY SMT, <2>7
  <2> HIDE DEF e
  <2>9. m = IF e <= BackoffMax THEN e ELSE BackoffMax
    BY Zenon, <2>6, <2>8, MinPair
  <2> HIDE DEF m
  <2>10. BackoffMax + Jitter[p.active] <= MaxAge
    BY Zenon, <1>2, MaxAgeBounds
  <2> QED
    BY SMT, <2>3, <2>6, <2>8, <2>9, <2>10, MaxAgeNat
<1>6. x \in 0..MaxAge /\ y \in 0..MaxAge /\ z \in 0..MaxAge
  BY Zenon, <1>2, <1>3, <1>4, <1>5
<1> HIDE DEF x, y, z
<1>7. {x, y, z} \in SUBSET Nat /\ \A v \in {x, y, z} : v <= MaxAge
  BY SMT, <1>6, MaxAgeNat
<1>8. Max({x, y, z}) \in {x, y, z}
  BY Zenon, <1>7, BoundedMax, MaxAgeNat
<1> QED
  BY SMT, <1>1, <1>6, <1>8

\* Time leaves the slots alone.
LEMMA AgeSound ==
    ASSUME NEW s, Sound(s)
    PROVE  Sound(Age(s)) /\ SameSlots(s.policy, Age(s).policy)
<1> DEFINE p == s.policy
           g == [request |-> Older(p.last_request), fresh |-> Older(p.last_fresh),
                 failure |-> Older(p.last_failure), now |-> Older(s.checkpoint.now)]
           q == [p EXCEPT !.last_request = g.request, !.last_fresh = g.fresh,
                          !.last_failure = g.failure]
           c == [s.checkpoint EXCEPT !.now = g.now]
           a == [s EXCEPT !.policy = q, !.checkpoint = c]
<1>1. /\ s \in GuardedServices /\ p \in Policies /\ s.checkpoint \in Checkpoints
  BY SMT DEF Sound, GuardedServices
<1>2. Age(s) = a
  BY Zenon, <1>1 DEF Age
<1>3. /\ \A x \in Ages : Older(x) \in Ages
      /\ \A x \in 0..MaxAge : Older(x) \in 0..MaxAge
  BY SMT, MaxAgeNat DEF Ages, Older, Never
<1>4. /\ p.last_request \in Ages /\ p.last_fresh \in Ages
      /\ p.last_failure \in Ages /\ s.checkpoint.now \in 0..MaxAge
  BY SMT, <1>1 DEF Policies, Checkpoints
<1>5. /\ g.request \in Ages /\ g.fresh \in Ages /\ g.failure \in Ages
      /\ g.now \in 0..MaxAge
  BY Zenon, <1>3, <1>4
<1> HIDE DEF g, p
<1>6. q \in Policies
  BY Zenon, <1>1, <1>5 DEF Policies
<1>7. SameSlots(p, q)
  <2>1. /\ q.active = p.active /\ q.in_flight = p.in_flight
        /\ q.pending = p.pending /\ q.sequence = p.sequence
        /\ q.last_request = g.request
    BY SMT, <1>1 DEF Policies
  <2>2. p.last_request >= RequestTimeout => g.request >= RequestTimeout
    <3>1. g.request = Older(p.last_request)
      BY Zenon DEF g
    <3> QED
      BY SMT, <1>4, <3>1, MaxAgeBounds, DriverConstants DEF Older, Ages, Never
  <2> HIDE DEF q
  <2> QED
    BY Zenon, <2>1, <2>2 DEF SameSlots, DeadlinePassed
<1>8. c \in Checkpoints
  BY Zenon, <1>1, <1>5 DEF Checkpoints
<1>9. c.identity = s.checkpoint.identity
  BY SMT, <1>1 DEF Checkpoints
<1> HIDE DEF q, c
<1>10. a \in GuardedServices
  BY Zenon, <1>1, <1>6, <1>8 DEF GuardedServices
<1>11. a.policy = q /\ a.checkpoint = c
  BY SMT, <1>1 DEF GuardedServices
<1> HIDE DEF a
<1>12. SlotsOK(q)
  BY Zenon, <1>6, <1>7, SameSlotsKeep DEF Sound, p
<1> QED
  BY ZenonT(60), <1>2, <1>7, <1>9, <1>10, <1>11, <1>12 DEF Sound, SameSlots, p

-----------------------------------------------------------------------------
(***************************************************************************)
(* The tasks                                                               *)
(***************************************************************************)
Executes == {"sync", "failed", "settle"}
Holding == Executes \cup {"begin"}
Places == {"free", "stopped", "list", "listed", "begin", "sync", "failed",
           "settle", "observe", "rest", "sleep", "preflight", "after", "idle",
           "ended"}
Stages == {"rest", "select", "preflight", "idle"}

\* A task holds a request while it executes one, and from a timeout to the
\* report of it.  An idle wait, and an attempt after the first, only report
\* and only execute preflights.
TaskOK(t) ==
    /\ t \in Tasks
    /\ t.pc \in Executes => t.req # NoRequest
    /\ t.req # NoRequest => t.pc \in Holding \cup {"observe"}
    /\ t.pc = "listed" => t.id \in Identities
    /\ t.pc = "begin" =>
         /\ t.input \in DriverInputs
         /\ t.stage = "idle" \/ t.try > 1 => t.input.name \in Reports
         /\ t.req # NoRequest => t.input = TimedOut(t.req)
    /\ t.pc \in Executes /\ (t.stage = "idle" \/ t.try > 1) =>
         t.req.trigger = "ActionPreflight"

\* A task that reports a request it does not hold, as an idle wait does.
Polls(t) ==
    /\ t.pc = "begin" /\ t.req = NoRequest
    /\ t.input.name = "ReconciliationTimedOut"

\* What a task holds is told apart from the policy's slots, and so is what it
\* reports without holding it: the request in flight only past its deadline.
Meets(p, t) ==
    /\ Fits(p, t.req)
    /\ Polls(t) => \E x \in Requests : /\ t.input = TimedOut(x)
                                       /\ Fits(p, x) /\ Waited(p, x)

Carries(t, f) == t.pc \in Holding /\ t.req = f

\* A task with neither a request nor an input.
Rests(t) == t \in Tasks /\ t.req = NoRequest /\ t.pc \notin Holding \cup {"listed"}

\* The fields of a task.
LEMMA TaskFields ==
    ASSUME NEW t \in Tasks
    PROVE  /\ t.pc \in Places /\ t.stage \in Stages /\ t.req \in Held
           /\ t.input \in Inputs /\ t.drained \in 0..MaxDrained + 1
           /\ t.try \in 0..MaxTries /\ t.left \in 0..MaxAge
           /\ t.outer \in 0..2 * RequestTimeout
           /\ t.proj \in BOOLEAN /\ t.err \in BOOLEAN /\ t.matched \in BOOLEAN
           /\ t.retained \in BOOLEAN /\ t.current \in BOOLEAN
           /\ t.facets \in Facets
BY Zenon DEF Tasks, Held, Places, Stages

\* What a driver sends is an input of a task.
LEMMA DriverInputType == DriverInputs \subseteq Inputs
BY Zenon DEF DriverInputs, InputRecords, Inputs, Reports

\* No input at all is one, with no sequence.
LEMMA NoInputType == NoInput \in Inputs /\ NoInput.seq = 0 /\ NoInput.name = "None"
<1>1. "Stale" \in Facets /\ 0 \in 0..SequenceWidth - 1
  BY SMT, ConfigFacts DEF Facets
<1>2. NoInput \in Inputs
  BY Zenon, <1>1 DEF NoInput, Input, Inputs
<1> QED
  BY Zenon, <1>2, InputFields DEF NoInput

\* A task that rests is in order, whatever the policy.
LEMMA RestingTask ==
    ASSUME NEW t, Rests(t)
    PROVE  TaskOK(t) /\ ~Polls(t) /\ \A p \in Policies : Meets(p, t)
<1>1. t.pc \notin Executes /\ t.pc # "begin" /\ t.pc # "listed"
  BY Zenon DEF Rests, Holding
<1>2. ~Polls(t)
  BY Zenon, <1>1 DEF Polls
<1> QED
  BY Zenon, <1>1, <1>2, NoRequestFits DEF Rests, TaskOK, Meets

\* A task that does not run.
LEMMA FreeFields ==
    /\ Free.pc = "free" /\ Free.stage = "rest" /\ Free.req = NoRequest
    /\ Free.try = 0 /\ Free.input = NoInput
    /\ Free \in Tasks
<1>1. /\ 0 \in 0..MaxDrained + 1 /\ 0 \in 0..MaxTries /\ 0 \in 0..MaxAge
      /\ 0 \in 0..2 * RequestTimeout
  BY SMT, DriverConstants, MaxAgeNat
<1>2. "Stale" \in Facets
  BY Zenon DEF Facets
<1>3. Free \in Tasks
  BY ZenonT(60), <1>1, <1>2, NoInputType DEF Free, Tasks
<1> QED
  BY SMT, <1>3 DEF Free

\* A free task, one that ended or stopped, and one just spawned rest.
LEMMA IdleTasks ==
    /\ Rests(Free) /\ Rests(Ended) /\ Ended.pc = "ended"
    /\ \A t : Rests(Stopped(t))
    /\ \A r, c \in BOOLEAN : Rests(Spawned(r, c))
<1> DEFINE at(pc) == [Free EXCEPT !.pc = pc]
           new(r, c) == [Free EXCEPT !.pc = "list", !.resumed = r, !.current = c]
<1>1. ASSUME NEW pc \in {"ended", "stopped", "free"}
      PROVE  Rests(at(pc)) /\ at(pc).pc = pc
  <2>1. at(pc) \in Tasks
    BY ZenonT(60), FreeFields DEF Tasks
  <2>2. at(pc).pc = pc /\ at(pc).req = NoRequest
    BY SMT, FreeFields DEF Tasks
  <2> HIDE DEF at
  <2> QED
    BY SMT, <2>1, <2>2 DEF Rests, Holding, Executes
<1>2. ASSUME NEW r \in BOOLEAN, NEW c \in BOOLEAN
      PROVE  Rests(new(r, c))
  <2>1. new(r, c) \in Tasks
    BY ZenonT(60), FreeFields DEF Tasks
  <2>2. new(r, c).pc = "list" /\ new(r, c).req = NoRequest
    BY SMT, FreeFields DEF Tasks
  <2> HIDE DEF new
  <2> QED
    BY SMT, <2>1, <2>2 DEF Rests, Holding, Executes
<1>3. Rests(Free)
  BY SMT, FreeFields DEF Rests, Holding, Executes
<1>4. Ended = at("ended")
  BY Zenon DEF Ended
<1>5. \A t : Stopped(t) = at("stopped") \/ Stopped(t) = at("free")
  BY Zenon DEF Stopped
<1>6. \A r, c : Spawned(r, c) = new(r, c)
  BY Zenon DEF Spawned
<1> HIDE DEF at, new
<1> QED
  BY Zenon, <1>1, <1>2, <1>3, <1>4, <1>5, <1>6

\* A task between two calls.
LEMMA AtFields ==
    ASSUME NEW t \in Tasks, NEW pc \in Places
    PROVE  LET u == At(t, pc)
           IN /\ u \in Tasks /\ u.pc = pc /\ u.stage = t.stage
              /\ u.req = NoRequest /\ u.input = NoInput /\ u.try = 0
<1> DEFINE u == [Free EXCEPT !.pc = pc, !.stage = t.stage, !.retained = t.retained,
                             !.outer = t.outer, !.current = t.current]
<1>1. u \in Tasks
  <2> DEFINE stage == t.stage
             retained == t.retained
             outer == t.outer
             current == t.current
  <2>1. /\ stage \in {"rest", "select", "preflight", "idle"}
        /\ retained \in BOOLEAN /\ outer \in 0..2 * RequestTimeout
        /\ current \in BOOLEAN
    BY Zenon, TaskFields DEF Stages
  <2>2. Free \in Tasks
    BY Zenon, FreeFields
  <2> HIDE DEF stage, retained, outer, current
  <2>3. [Free EXCEPT !.pc = pc, !.stage = stage, !.retained = retained,
                     !.outer = outer, !.current = current] \in Tasks
    BY ZenonT(60), <2>1, <2>2 DEF Tasks, Places
  <2> QED
    BY Zenon, <2>3 DEF stage, retained, outer, current
<1>2. /\ u.pc = pc /\ u.stage = t.stage /\ u.req = NoRequest
      /\ u.input = NoInput /\ u.try = 0
  BY SMT, FreeFields DEF Tasks
<1>3. At(t, pc) = u
  BY Zenon DEF At
<1> HIDE DEF u
<1> QED
  BY Zenon, <1>1, <1>2, <1>3

\* execute_with_timeout returns to a place without a request.
LEMMA ReturnedTask ==
    ASSUME NEW t \in Tasks, NEW ok
    PROVE  Rests(Returned(t, ok))
<1>1. ASSUME NEW pc \in {"rest", "preflight", "after", "idle"}
      PROVE  Rests(At(t, pc))
  <2>1. pc \in Places /\ pc \notin Holding \cup {"listed"}
    BY SMT DEF Places, Holding, Executes
  <2> QED
    BY Zenon, <2>1, AtFields DEF Rests
<1> QED
  BY Zenon, <1>1, IdleTasks DEF Returned

\* A call of execute_with_timeout.
LEMMA ExecutingTask ==
    ASSUME NEW t \in Tasks, NEW stage \in Stages, NEW in \in DriverInputs,
           stage = "idle" => in.name \in Reports
    PROVE  LET u == Executing(t, stage, in)
           IN TaskOK(u) /\ u.req = NoRequest /\ u.input = in /\ u.pc = "begin"
<1> DEFINE a == At(t, "begin")
           u == [a EXCEPT !.stage = stage, !.input = in, !.retained = FALSE,
                          !.try = 1]
<1>1. a \in Tasks /\ a.req = NoRequest /\ a.pc = "begin"
  BY Zenon, AtFields DEF Places
<1>2. Executing(t, stage, in) = u
  BY Zenon DEF Executing
<1> HIDE DEF a
<1>3. 1 \in 0..MaxTries
  BY SMT, DriverConstants
<1>4. in \in Inputs
  BY Zenon, DriverInputType
<1>5. u \in Tasks
  BY ZenonT(60), <1>1, <1>3, <1>4 DEF Tasks, Stages
<1>6. /\ u.pc = "begin" /\ u.stage = stage /\ u.req = NoRequest /\ u.input = in
      /\ u.try = 1
  BY SMT, <1>1 DEF Tasks
<1> HIDE DEF u
<1>7. TaskOK(u)
  BY SMT, <1>5, <1>6 DEF TaskOK, Executes, Holding
<1> QED
  BY Zenon, <1>2, <1>6, <1>7

\* The first poll of a future: the task executes the request.
LEMMA AwaitTask ==
    ASSUME NEW t \in Tasks, NEW req \in Requests,
           t.stage = "idle" \/ t.try > 1 => req.trigger = "ActionPreflight"
    PROVE  LET u == Await(t, req)
           IN TaskOK(u) /\ u.req = req /\ u.pc = "sync"
<1> DEFINE u == [t EXCEPT !.pc = "sync", !.input = NoInput, !.req = req,
                          !.drained = 1, !.left = RequestTimeout]
<1>1. /\ 1 \in 0..MaxDrained + 1 /\ RequestTimeout \in 0..MaxAge
      /\ req # NoRequest
  BY SMT, DriverConstants, MaxAgeBounds, RequestFields
<1>2. u \in Tasks
  BY ZenonT(60), <1>1, NoInputType DEF Tasks
<1>3. /\ u.pc = "sync" /\ u.stage = t.stage /\ u.req = req /\ u.try = t.try
  BY SMT DEF Tasks
<1>4. Await(t, req) = u
  BY Zenon DEF Await
<1> HIDE DEF u
<1>5. TaskOK(u)
  BY SMT, <1>1, <1>2, <1>3 DEF TaskOK, Executes, Holding
<1> QED
  BY Zenon, <1>3, <1>4, <1>5

\* A settle that exposed `req' leads on to it, or out of the call; only a
\* future that completes keeps the request it has settled, to observe it.
LEMMA DrainedTask ==
    ASSUME NEW t \in Tasks, t.req # NoRequest, t.pc \in Executes, NEW req \in Held,
           req # NoRequest => req.trigger = "ActionPreflight"
    PROVE  LET u == Drained(t, req)
           IN /\ TaskOK(u) /\ ~Polls(u) /\ u.req \in {NoRequest, t.req, req}
              /\ u.pc = t.pc => u.drained # t.drained
<1> DEFINE o == [t EXCEPT !.pc = "observe"]
           pc == IF t.drained = MaxDrained THEN "failed" ELSE "sync"
           k == t.drained + 1
           d == [t EXCEPT !.pc = pc, !.req = req, !.drained = k]
           u == Drained(t, req)
<1>1. ASSUME NEW r, Rests(r)
      PROVE  /\ TaskOK(r) /\ ~Polls(r) /\ r.req \in {NoRequest, t.req, req}
             /\ r.pc # t.pc
  BY Zenon, <1>1, RestingTask DEF Rests, Holding
<1>2. /\ TaskOK(o) /\ ~Polls(o) /\ o.req \in {NoRequest, t.req, req}
      /\ o.pc # t.pc
  <2>1. o \in Tasks
    BY ZenonT(60) DEF Tasks
  <2>2. o.pc = "observe" /\ o.req = t.req
    BY SMT DEF Tasks
  <2> HIDE DEF o
  <2> QED
    BY SMT, <2>1, <2>2 DEF TaskOK, Polls, Executes, Holding
<1>3. ASSUME ~(t.drained > MaxDrained), req # NoRequest
      PROVE  /\ TaskOK(d) /\ ~Polls(d) /\ d.req \in {NoRequest, t.req, req}
             /\ d.drained # t.drained
  <2>1. k \in 0..MaxDrained + 1 /\ k # t.drained /\ pc \in {"failed", "sync"}
    <3>1. t.drained \in 0..MaxDrained + 1
      BY Zenon, TaskFields
    <3> QED
      BY SMT, <1>3, <3>1, DriverConstants
  <2>2. req \in Requests
    BY Zenon, <1>3 DEF Held
  <2> HIDE DEF pc, k
  <2>3. d \in Tasks
    BY ZenonT(60), <2>1, <2>2 DEF Tasks
  <2>4. d.pc = pc /\ d.req = req /\ d.drained = k
    BY SMT DEF Tasks
  <2> HIDE DEF d
  <2> QED
    BY SMT, <1>3, <2>1, <2>3, <2>4 DEF TaskOK, Polls, Executes, Holding
<1>4. /\ Rests(Returned(t, FALSE)) /\ Rests(Returned(t, TRUE))
  BY Zenon, ReturnedTask
<1>5. u = IF t.drained > MaxDrained THEN Returned(t, FALSE)
          ELSE IF req = NoRequest THEN Finished(t) ELSE d
  BY Zenon DEF Drained
<1>6. Finished(t) \in {Returned(t, FALSE), Returned(t, TRUE), o}
  BY Zenon DEF Finished
<1> HIDE DEF o, d, u
<1>7. /\ TaskOK(u) /\ ~Polls(u) /\ u.req \in {NoRequest, t.req, req}
      /\ u.pc = t.pc => u.drained # t.drained
  BY Zenon, <1>1, <1>2, <1>3, <1>4, <1>5, <1>6
<1> QED
  BY Zenon, <1>7 DEF u

-----------------------------------------------------------------------------
(***************************************************************************)
(* One step of one task                                                    *)
(***************************************************************************)

\* The policy goes from p to q and the task from t to u.  No sequence but n
\* is taken; an automatic reconciliation in flight afterwards is the task's
\* own, or was in flight and not the task's.
Moves(p, t, q, u, n) ==
    /\ TaskOK(u) /\ Meets(q, u) /\ Keeps(p, q, n)
    /\ q.in_flight # NoRequest /\ q.in_flight.trigger # "ActionPreflight" =>
         \/ Carries(u, q.in_flight)
         \/ q.in_flight = p.in_flight /\ ~Carries(t, q.in_flight)

\* It takes nothing out of flight that is not the task's.
Owned(p, t, q, u) ==
    p.in_flight # NoRequest /\ q.in_flight # p.in_flight
      => \/ Carries(t, p.in_flight) /\ u # t
         \/ DeadlinePassed(p)
         \/ q.active # p.active

\* No request has the width for its sequence.
LEMMA WidthFree == \A x \in Held : x.seq # SequenceWidth
BY SMT, RequestFields, ConfigFacts

\* A task settles the request it executes.
LEMMA SettleMoves ==
    ASSUME NEW s, Sound(s), NEW t, TaskOK(t), Fits(s.policy, t.req),
           t.pc \in Executes, NEW q, NEW req, Settled(s.policy, t.req, q, req),
           NEW v \in Tasks, v.req = t.req, v.pc = t.pc, v.stage = t.stage,
           v.try = t.try, v.drained = t.drained
    PROVE  LET u == Drained(v, req)
           IN /\ Moves(s.policy, t, q, u, SequenceWidth)
              /\ Owned(s.policy, t, q, u)
<1> DEFINE u == Drained(v, req)
           p == s.policy
<1>1. t.req # NoRequest /\ t.req \in Held
  BY Zenon, TaskFields DEF TaskOK
<1>2. /\ req \in Held /\ Fits(q, req) /\ Keeps(p, q, SequenceWidth)
      /\ req # NoRequest => req.trigger = "ActionPreflight"
      /\ q \in Policies
  BY Zenon DEF Settled, SlotsOK
<1>3. /\ TaskOK(u) /\ ~Polls(u) /\ u.req \in {NoRequest, t.req, req}
      /\ u.pc = t.pc => u.drained # t.drained
  BY Zenon, <1>1, <1>2, DrainedTask
<1> HIDE DEF u
<1>4. Meets(q, u)
  <2>1. Fits(q, t.req)
    BY Zenon, <1>1, <1>2, WidthFree DEF Keeps
  <2> QED
    BY Zenon, <1>2, <1>3, <2>1, NoRequestFits DEF Meets
<1>5. u # t
  BY Zenon, <1>3
<1>6. CASE p.in_flight = t.req
  <2>1. q.in_flight = req /\ Carries(t, p.in_flight)
    BY Zenon, <1>6 DEF Settled, Carries, Holding
  <2> QED
    BY Zenon, <1>2, <1>3, <1>4, <1>5, <2>1 DEF Moves, Owned, u
<1>7. CASE p.in_flight # t.req
  <2>1. q = p
    BY Zenon, <1>7 DEF Settled
  <2> QED
    BY Zenon, <1>2, <1>3, <1>4, <1>7, <2>1 DEF Moves, Owned, Carries, u
<1> QED
  BY Zenon, <1>6, <1>7

\* A task that is given no request goes on without one.
Sent(t, b) ==
    IF ~b.ok THEN Returned(t, FALSE)
    ELSE IF b.req # NoRequest THEN Await(t, b.req)
    ELSE Returned([t EXCEPT !.retained =
                     b.svc.policy.pending \notin {NoRequest, svc.policy.pending}],
                  t.matched)

\* The only requests given to an idle wait, or to an attempt after the first,
\* are preflights.
MayHold(t, req) ==
    (t.stage = "idle" \/ t.try > 1) /\ req # NoRequest =>
      req.trigger = "ActionPreflight"

\* What becomes of a task that has sent its input.
LEMMA SentTask ==
    ASSUME NEW t \in Tasks, t.pc = "begin", NEW b, b.req \in Held,
           MayHold(t, b.req)
    PROVE  /\ TaskOK(Sent(t, b)) /\ Sent(t, b) # t /\ ~Polls(Sent(t, b))
           /\ Sent(t, b).req \in {NoRequest, b.req}
           /\ \/ ~b.ok \/ b.req = NoRequest
              \/ Sent(t, b).req = b.req /\ Sent(t, b).pc = "sync"
<1> DEFINE m == b.svc.policy.pending \notin {NoRequest, svc.policy.pending}
           k == [t EXCEPT !.retained = m]
           u == Sent(t, b)
<1>1. k \in Tasks
  <2>1. m \in BOOLEAN
    BY Zenon
  <2> HIDE DEF m
  <2> QED
    BY ZenonT(60), <2>1 DEF Tasks
<1>2. u = IF ~b.ok THEN Returned(t, FALSE)
          ELSE IF b.req # NoRequest THEN Await(t, b.req)
          ELSE Returned(k, t.matched)
  BY Zenon DEF Sent
<1> HIDE DEF u, k
<1>3. CASE ~b.ok \/ b.req = NoRequest
  <2>1. Rests(u)
    BY Zenon, <1>1, <1>2, <1>3, ReturnedTask
  <2>2. TaskOK(u) /\ ~Polls(u) /\ u.req = NoRequest /\ u.pc # "begin"
    BY Zenon, <2>1, RestingTask DEF Rests, Holding
  <2> QED
    BY Zenon, <1>3, <2>2 DEF u
<1>4. CASE b.ok /\ b.req # NoRequest
  <2>1. b.req \in Requests
    BY Zenon, <1>4 DEF Held
  <2>2. TaskOK(u) /\ u.req = b.req /\ u.pc = "sync"
    BY Zenon, <1>2, <1>4, <2>1, AwaitTask DEF MayHold
  <2>3. ~Polls(u) /\ u # t
    BY SMT, <2>2 DEF Polls
  <2> QED
    BY Zenon, <1>4, <2>2, <2>3 DEF u
<1> QED
  BY Zenon, <1>3, <1>4

\* Sending an input that may ask for a reconciliation.
LEMMA OpenMoves ==
    ASSUME Sound(svc), NEW t, TaskOK(t), t.pc = "begin", NEW b,
           t.input.name \in Selections \cup Signals, Opens(svc, b)
    PROVE  LET u == Sent(t, b)
               p == svc.policy
           IN /\ Moves(p, t, b.svc.policy, u, NextSequence(p))
              /\ Owned(p, t, b.svc.policy, u)
<1> DEFINE u == Sent(t, b)
           p == svc.policy
           q == b.svc.policy
<1>1. /\ b.ok /\ b.req \in Held /\ Fits(q, b.req) /\ Keeps(p, q, NextSequence(p))
      /\ q \in Policies
      /\ \/ /\ q.in_flight = b.req
            /\ p.in_flight = NoRequest \/ q.active # p.active
         \/ q.in_flight = p.in_flight /\ b.req = NoRequest
  BY Zenon DEF Opens, Opened, SlotsOK
<1>2. t.input.name \notin Reports
  BY SMT DEF Selections, Signals, Reports
<1>3. t.req = NoRequest
  <2>1. t.req # NoRequest => t.req \in Requests /\ t.input = TimedOut(t.req)
    BY Zenon, TaskFields DEF TaskOK, Held
  <2> QED
    BY Zenon, <1>2, <2>1, TimedOutInput DEF Reports
<1>4. /\ TaskOK(u) /\ ~Polls(u)
      /\ u.req = NoRequest \/ u.req = b.req
      /\ b.req # NoRequest => u.req = b.req /\ u.pc = "sync"
  <2>1. MayHold(t, b.req) /\ t \in Tasks
    BY Zenon, <1>2 DEF TaskOK, MayHold
  <2> QED
    BY Zenon, <1>1, <2>1, SentTask
<1> HIDE DEF u, q
<1>5. Meets(q, u)
  BY Zenon, <1>1, <1>4, NoRequestFits DEF Meets
<1>6. b.req # NoRequest => Carries(u, b.req)
  BY Zenon, <1>4 DEF Carries, Holding, Executes
<1>7. Moves(p, t, q, u, NextSequence(p))
  BY Zenon, <1>1, <1>3, <1>4, <1>5, <1>6 DEF Moves, Carries
<1>8. Owned(p, t, q, u)
  BY Zenon, <1>1 DEF Owned
<1> QED
  BY Zenon, <1>7, <1>8 DEF u, q

\* A step that leaves the slots alone and ends without a request.
LEMMA QuietMoves ==
    ASSUME NEW p, SlotsOK(p), NEW q \in Policies, SameSlots(p, q), NEW t, NEW u,
           TaskOK(u), ~Polls(u), u.req = NoRequest,
           \/ t.req = NoRequest
           \/ t.req.trigger = "ActionPreflight"
           \/ t.pc \notin Holding
    PROVE  Moves(p, t, q, u, SequenceWidth) /\ Owned(p, t, q, u)
<1>1. Keeps(p, q, SequenceWidth)
  BY Zenon, SameSlotsKeep
<1>2. Meets(q, u)
  BY Zenon, NoRequestFits DEF Meets
<1>3. q.in_flight = p.in_flight
  BY Zenon DEF SameSlots
<1> QED
  BY Zenon, <1>1, <1>2, <1>3 DEF Moves, Owned, Carries

\* Reporting a timeout, of the task's own request or of one past its deadline.
LEMMA TimedOutMoves ==
    ASSUME Sound(svc), NEW t, TaskOK(t), t.pc = "begin", NEW x \in Requests,
           t.input = TimedOut(x), Fits(svc.policy, x),
           t.req = x \/ (t.req = NoRequest /\ Waited(svc.policy, x))
    PROVE  LET b == Begin(svc, t.input)
               u == Sent(t, b)
               p == svc.policy
           IN /\ Sound(b.svc) /\ Moves(p, t, b.svc.policy, u, SequenceWidth)
              /\ Owned(p, t, b.svc.policy, u)
<1> DEFINE b == Begin(svc, t.input)
           u == Sent(t, b)
           p == svc.policy
           q == b.svc.policy
<1>1. b.ok /\ Sound(b.svc) /\ Settled(p, x, q, b.req)
  <2>1. p.in_flight # NoRequest /\ x.seq = p.in_flight.seq => x = p.in_flight
    BY Zenon DEF Fits
  <2> QED
    BY Zenon, <2>1, BeginTimedOut
<1> HIDE DEF b
<1>2. /\ b.req \in Held /\ Fits(q, b.req) /\ q \in Policies
      /\ Keeps(p, q, SequenceWidth)
      /\ b.req # NoRequest => b.req.trigger = "ActionPreflight"
      /\ \/ p.in_flight = x /\ q.in_flight = b.req
         \/ p.in_flight # x /\ q = p
  BY Zenon, <1>1 DEF Settled, SlotsOK
<1>3. /\ TaskOK(u) /\ u # t /\ ~Polls(u)
      /\ u.req = NoRequest \/ u.req = b.req
  <2>1. t \in Tasks /\ MayHold(t, b.req)
    BY Zenon, <1>2 DEF TaskOK, MayHold
  <2> QED
    BY Zenon, <1>2, <2>1, SentTask
<1> HIDE DEF u, q
<1>4. Meets(q, u)
  BY Zenon, <1>2, <1>3, NoRequestFits DEF Meets
<1>5. CASE p.in_flight = x /\ q.in_flight = b.req
  <2>1. Moves(p, t, q, u, SequenceWidth)
    BY Zenon, <1>2, <1>3, <1>4, <1>5 DEF Moves
  <2>2. DeadlinePassed(p) \/ Carries(t, p.in_flight)
    BY Zenon, <1>5 DEF Waited, Carries, Holding
  <2> QED
    BY Zenon, <1>1, <1>3, <2>1, <2>2 DEF Owned, u, q, b
<1>6. CASE p.in_flight # x /\ q = p
  <2>1. ~Carries(t, q.in_flight) \/ q.in_flight = NoRequest
    BY Zenon, <1>6 DEF Carries
  <2>2. Moves(p, t, q, u, SequenceWidth)
    BY Zenon, <1>2, <1>3, <1>4, <1>6, <2>1 DEF Moves
  <2> QED
    BY Zenon, <1>1, <1>6, <2>2 DEF Owned, u, q, b
<1> QED
  BY Zenon, <1>2, <1>5, <1>6

\* A task sends its input: a new sequence is only taken by a selection or a
\* signal.
LEMMA AdmitMoves ==
    ASSUME Sound(svc), NEW t, TaskOK(t), Meets(svc.policy, t), t.pc = "begin"
    PROVE  LET b == Begin(svc, t.input)
               u == Sent(t, b)
               p == svc.policy
           IN /\ Sound(b.svc) /\ Owned(p, t, b.svc.policy, u)
              /\ \/ Moves(p, t, b.svc.policy, u, SequenceWidth)
                 \/ /\ Moves(p, t, b.svc.policy, u, NextSequence(p))
                    /\ t.input.name \in Selections \cup Signals
<1> DEFINE b == Begin(svc, t.input)
           u == Sent(t, b)
           p == svc.policy
<1>1. t \in Tasks /\ t.input \in DriverInputs /\ p \in Policies /\ SlotsOK(p)
  BY Zenon DEF TaskOK, Sound, SlotsOK
<1>2. t.input.name \in Selections \cup Signals \cup Reports
  BY Zenon, <1>1 DEF DriverInputs, InputRecords
<1>3. t.req # NoRequest => /\ t.req \in Requests /\ t.input = TimedOut(t.req)
                           /\ t.input.name = "ReconciliationTimedOut"
  <2>1. t.req # NoRequest => t.req \in Requests /\ t.input = TimedOut(t.req)
    BY Zenon, <1>1, TaskFields DEF TaskOK, Held
  <2> QED
    BY Zenon, <2>1, TimedOutInput
<1>4. ASSUME b.req = NoRequest, Sound(b.svc),
             SameSlots(p, b.svc.policy), t.req = NoRequest
      PROVE  /\ Sound(b.svc) /\ Owned(p, t, b.svc.policy, u)
             /\ Moves(p, t, b.svc.policy, u, SequenceWidth)
  <2>1. TaskOK(u) /\ ~Polls(u) /\ u.req = NoRequest
    <3>1. b.req \in Held /\ MayHold(t, b.req)
      BY Zenon, <1>4 DEF Held, MayHold
    <3> HIDE DEF b
    <3> QED
      BY Zenon, <1>1, <1>4, <3>1, SentTask
  <2>2. b.svc.policy \in Policies
    BY Zenon, <1>4 DEF Sound, SlotsOK
  <2> HIDE DEF u, b
  <2> QED
    BY Zenon, <1>1, <1>4, <2>1, <2>2, QuietMoves
<1>5. CASE t.input.name \in Selections
  <2>1. /\ ~b.ok => b.svc = svc /\ b.req = NoRequest
        /\ b.ok => Opens(svc, b)
        /\ b.ok \in BOOLEAN
    BY Zenon, <1>1, <1>5, BeginSelection
  <2>2. CASE b.ok
    BY Zenon, <1>5, <2>1, <2>2, OpenMoves DEF Opens
  <2>3. CASE ~b.ok
    <3>1. SameSlots(p, p)
      BY Zenon DEF SameSlots
    <3>2. t.req = NoRequest
      BY SMT, <1>3, <1>5 DEF Selections
    <3> QED
      BY Zenon, <1>4, <2>1, <2>3, <3>1, <3>2
  <2> QED
    BY Zenon, <2>1, <2>2, <2>3
<1>6. CASE t.input.name \in Signals
  <2>1. Opens(svc, b)
    BY Zenon, <1>1, <1>6, BeginSignal
  <2> QED
    BY Zenon, <1>6, <2>1, OpenMoves DEF Opens
<1>7. CASE t.input.name = "ReconciliationObserved"
  <2>1. /\ Sound(b.svc) /\ SameSlots(p, b.svc.policy) /\ b.req = NoRequest /\ b.ok
    BY Zenon, <1>1, <1>7, BeginObserved
  <2>2. t.req = NoRequest
    BY SMT, <1>3, <1>7
  <2> QED
    BY Zenon, <1>4, <2>1, <2>2
<1>8. CASE t.input.name = "ReconciliationTimedOut"
  <2>1. \E x \in Requests :
          /\ t.input = TimedOut(x) /\ Fits(p, x)
          /\ t.req = x \/ (t.req = NoRequest /\ Waited(p, x))
    <3>1. CASE t.req # NoRequest
      BY Zenon, <1>3, <3>1 DEF Meets
    <3>2. CASE t.req = NoRequest
      BY Zenon, <1>8, <3>2 DEF Meets, Polls
    <3> QED
      BY Zenon, <3>1, <3>2
  <2> QED
    BY Zenon, <2>1, TimedOutMoves
<1> QED
  BY Zenon, <1>2, <1>5, <1>6, <1>7, <1>8 DEF Reports

-----------------------------------------------------------------------------
(***************************************************************************)
(* The inductive invariant                                                 *)
(***************************************************************************)

\* Every task is well formed, and no request it holds or reports is mistaken
\* for one of the policy's slots.
Tasked ==
    /\ worker \in [Workers -> Tasks]
    /\ \A w \in Workers : TaskOK(worker[w]) /\ Meets(svc.policy, worker[w])

Core == Sound(svc) /\ Tasked /\ AutomaticIsAwaited

IInv ==
    /\ Core
    /\ selected \in Identities /\ hidden \in BOOLEAN /\ events \in 0..MaxEvents

\* The step OnlyOwnerSettles allows.
OwnerSettles ==
    InFlight # NoRequest /\ InFlight' # InFlight
      => \/ \E w \in Workers : Holds(w) /\ worker'[w] # worker[w]
         \/ DeadlinePassed(svc.policy)
         \/ ~svc'.policy.foreground
         \/ svc'.policy.active # svc.policy.active

Room(w, n) ==
    \A v \in Workers \ {w} : n \notin {worker[v].req.seq, worker[v].input.seq}

\* A sequence no task can hold or report.
LEMMA AnyRoom == ASSUME Core, NEW w PROVE Room(w, SequenceWidth)
<1>1. \A v \in Workers : worker[v].req \in Held /\ worker[v].input \in Inputs
  BY Zenon, TaskFields DEF Core, Tasked
<1>2. \A in \in Inputs : in.seq # SequenceWidth
  BY SMT, ConfigFacts DEF Inputs
<1> QED
  BY Zenon, <1>1, <1>2, WidthFree DEF Room

\* What the invariant says about one task.
LEMMA CoreFields ==
    ASSUME Core, NEW w \in Workers
    PROVE  /\ Sound(svc) /\ TaskOK(worker[w]) /\ worker[w] \in Tasks
           /\ Meets(svc.policy, worker[w]) /\ SlotsOK(svc.policy)
           /\ svc.policy \in Policies
BY Zenon DEF Core, Tasked, Sound, SlotsOK

\* Holds, in terms of the task.
LEMMA HoldsCarries == \A w \in Workers : Holds(w) <=> Carries(worker[w], InFlight)
BY Zenon DEF Holds, Carries, Holding, Executes

\* Another task keeps meeting the policy.
LEMMA MeetsKept ==
    ASSUME NEW p, NEW q, NEW n, Keeps(p, q, n), NEW t \in Tasks, Meets(p, t),
           n \notin {t.req.seq, t.input.seq}
    PROVE  Meets(q, t)
<1>1. Fits(q, t.req)
  BY Zenon, TaskFields DEF Meets, Keeps
<1>2. ASSUME Polls(t)
      PROVE  \E x \in Requests : /\ t.input = TimedOut(x)
                                 /\ Fits(q, x) /\ Waited(q, x)
  <2>1. PICK x \in Requests : t.input = TimedOut(x) /\ Fits(p, x) /\ Waited(p, x)
    BY Zenon, <1>2 DEF Meets
  <2>2. x.seq # n /\ x \in Held /\ x # NoRequest
    BY Zenon, <2>1, TimedOutInput, RequestFields DEF Held
  <2> QED
    BY Zenon, <2>1, <2>2 DEF Keeps
<1> QED
  BY Zenon, <1>1, <1>2 DEF Meets

\* A step of one task.
LEMMA TaskStep ==
    ASSUME Core, NEW w \in Workers, NEW u, NEW n, Sound(svc'),
           worker' = [worker EXCEPT ![w] = u], Room(w, n),
           Moves(svc.policy, worker[w], svc'.policy, u, n),
           Owned(svc.policy, worker[w], svc'.policy, u)
    PROVE  Core' /\ OwnerSettles
<1>1. u \in Tasks /\ worker \in [Workers -> Tasks]
  BY Zenon DEF Moves, TaskOK, Core, Tasked
<1>2. /\ worker' \in [Workers -> Tasks] /\ worker'[w] = u
      /\ \A v \in Workers \ {w} : worker'[v] = worker[v]
  BY SMT, <1>1
<1>3. ASSUME NEW v \in Workers
      PROVE  TaskOK(worker'[v]) /\ Meets(svc'.policy, worker'[v])
  <2>1. CASE v = w
    BY Zenon, <1>2, <2>1 DEF Moves
  <2>2. CASE v # w
    <3>1. worker'[v] = worker[v] /\ n \notin {worker[v].req.seq, worker[v].input.seq}
      BY Zenon, <1>2, <2>2 DEF Room
    <3>2. TaskOK(worker[v]) /\ Meets(svc.policy, worker[v]) /\ worker[v] \in Tasks
      BY Zenon, CoreFields
    <3>3. Meets(svc'.policy, worker[v])
      BY Zenon, <3>1, <3>2, MeetsKept DEF Moves
    <3> QED
      BY Zenon, <3>1, <3>2, <3>3
  <2> QED
    BY Zenon, <2>1, <2>2
<1>4. AutomaticIsAwaited'
  <2> DEFINE f == svc'.policy.in_flight
  <2> SUFFICES ASSUME f # NoRequest, f.trigger # "ActionPreflight"
               PROVE  \E v \in Workers : Carries(worker'[v], f)
    BY Zenon DEF AutomaticIsAwaited, Holds, InFlight, Carries, Holding, Executes
  <2>1. \/ Carries(u, f)
        \/ f = svc.policy.in_flight /\ ~Carries(worker[w], f)
    BY Zenon DEF Moves
  <2> HIDE DEF f
  <2>2. CASE Carries(u, f)
    BY Zenon, <1>2, <2>2
  <2>3. CASE f = svc.policy.in_flight /\ ~Carries(worker[w], f)
    <3>1. PICK v \in Workers : Carries(worker[v], f)
      BY Zenon, <2>3, HoldsCarries DEF Core, AutomaticIsAwaited, InFlight
    <3> QED
      BY Zenon, <1>2, <2>3, <3>1
  <2> QED
    BY Zenon, <2>1, <2>2, <2>3
<1>5. OwnerSettles
  <2>1. Carries(worker[w], InFlight) => Holds(w)
    BY Zenon, HoldsCarries
  <2> QED
    BY Zenon, <1>2, <2>1 DEF Owned, OwnerSettles, InFlight
<1> QED
  BY Zenon, <1>2, <1>3, <1>4, <1>5 DEF Core, Tasked

\* A step of one task that only reads the service, and ends without a
\* request; it lets go of a preflight, or of nothing it was executing.
LEMMA QuietStep ==
    ASSUME Core, NEW w \in Workers, NEW u, TaskOK(u), ~Polls(u), u.req = NoRequest,
           worker' = [worker EXCEPT ![w] = u], svc' = svc,
           \/ worker[w].req = NoRequest
           \/ worker[w].req.trigger = "ActionPreflight"
           \/ worker[w].pc \notin Holding
    PROVE  Core' /\ OwnerSettles
<1>1. SlotsOK(svc.policy) /\ svc'.policy \in Policies /\ Sound(svc')
  BY Zenon, CoreFields
<1>2. SameSlots(svc.policy, svc'.policy)
  BY Zenon DEF SameSlots
<1>3. /\ Moves(svc.policy, worker[w], svc'.policy, u, SequenceWidth)
      /\ Owned(svc.policy, worker[w], svc'.policy, u)
  BY Zenon, <1>1, <1>2, QuietMoves
<1> QED
  BY Zenon, <1>1, <1>3, AnyRoom, TaskStep

\* A step of one task that only reads the service and keeps its request.
LEMMA KeepingStep ==
    ASSUME Core, NEW w \in Workers, NEW u, TaskOK(u), ~Polls(u),
           u.req = worker[w].req, worker[w].pc \in Holding => u.pc \in Holding,
           worker' = [worker EXCEPT ![w] = u], svc' = svc
    PROVE  Core' /\ OwnerSettles
<1> DEFINE p == svc.policy
           t == worker[w]
<1>1. SlotsOK(p) /\ p \in Policies /\ Sound(svc') /\ Fits(p, t.req)
  BY Zenon, CoreFields DEF Meets
<1>2. Keeps(p, p, SequenceWidth)
  BY Zenon DEF Keeps
<1>3. Meets(p, u)
  BY Zenon, <1>1 DEF Meets
<1>4. Carries(t, p.in_flight) => Carries(u, p.in_flight)
  BY Zenon DEF Carries
<1>5. Moves(p, t, p, u, SequenceWidth) /\ Owned(p, t, p, u)
  BY Zenon, <1>2, <1>3, <1>4 DEF Moves, Owned
<1> QED
  BY Zenon, <1>1, <1>5, AnyRoom, TaskStep

\* A step that leaves every task its place, its request and its input, or
\* finds and leaves it at rest, and the policy its slots.
LEMMA RenewStep ==
    ASSUME Core, Sound(svc'), SameSlots(svc.policy, svc'.policy),
           worker' \in [Workers -> Tasks],
           \A v \in Workers :
             \/ /\ TaskOK(worker'[v]) /\ worker'[v].req = worker[v].req
                /\ worker'[v].pc = worker[v].pc /\ worker'[v].input = worker[v].input
             \/ Rests(worker[v]) /\ Rests(worker'[v])
    PROVE  Core' /\ OwnerSettles
<1> DEFINE p == svc.policy
           q == svc'.policy
<1>1. SlotsOK(p) /\ q \in Policies
  BY Zenon DEF Core, Sound, SlotsOK
<1>2. Keeps(p, q, SequenceWidth)
  BY Zenon, <1>1, SameSlotsKeep
<1>3. ASSUME NEW v \in Workers
      PROVE  TaskOK(worker'[v]) /\ Meets(q, worker'[v])
  <2>1. CASE Rests(worker'[v])
    BY Zenon, <1>1, <2>1, RestingTask
  <2>2. CASE /\ TaskOK(worker'[v]) /\ worker'[v].req = worker[v].req
             /\ worker'[v].pc = worker[v].pc /\ worker'[v].input = worker[v].input
    <3>1. worker[v] \in Tasks /\ Meets(p, worker[v])
      BY Zenon, CoreFields
    <3>2. SequenceWidth \notin {worker[v].req.seq, worker[v].input.seq}
      <4>1. worker[v].input.seq # SequenceWidth
        <5>1. worker[v].input \in Inputs
          BY Zenon, <3>1, TaskFields
        <5> QED
          BY SMT, <5>1, ConfigFacts DEF Inputs
      <4> QED
        BY Zenon, <3>1, <4>1, TaskFields, WidthFree
    <3>3. Meets(q, worker[v])
      BY Zenon, <1>2, <3>1, <3>2, MeetsKept
    <3> QED
      BY Zenon, <2>2, <3>3 DEF Meets, Polls
  <2> QED
    BY Zenon, <2>1, <2>2
<1>4. InFlight' = InFlight
  BY Zenon DEF SameSlots, InFlight
<1>5. ASSUME NEW v \in Workers, Holds(v)
      PROVE  Holds(v)'
  <2>1. ~Rests(worker[v])
    BY Zenon, <1>5 DEF Holds, Rests, Holding, Executes
  <2> QED
    BY Zenon, <1>4, <1>5, <2>1 DEF Holds
<1>6. AutomaticIsAwaited'
  BY Zenon, <1>4, <1>5 DEF Core, AutomaticIsAwaited
<1> QED
  BY Zenon, <1>3, <1>4, <1>6 DEF Core, Tasked, OwnerSettles

-----------------------------------------------------------------------------
(***************************************************************************)
(* Initial states and actions                                              *)
(***************************************************************************)

\* The driver starts with one task, at its listing.
LEMMA InitInv == Init => IInv
<1> SUFFICES ASSUME Init PROVE IInv
  OBVIOUS
<1> DEFINE first == CHOOSE w \in RealmWorkers : TRUE
<1>1. Sound(svc) /\ InFlight = NoRequest /\ svc.policy \in Policies
  <2>1. svc = NewService
    BY Zenon DEF Init
  <2>2. /\ NewService \in GuardedServices /\ NewService.policy = NewPolicy
        /\ NewService.checkpoint.identity = NoIdentity
    BY Zenon, NewServiceFacts
  <2>3. SlotsOK(NewPolicy)
    BY Zenon, NewPolicyFacts DEF SlotsOK
  <2> QED
    BY Zenon, <2>1, <2>2, <2>3, NewPolicyFacts DEF Sound, InFlight
<1>2. worker = [w \in Workers |-> IF w = first THEN Spawned(FALSE, TRUE) ELSE Free]
  BY Zenon DEF Init
<1> HIDE DEF first
<1>3. \A w \in Workers : Rests(worker[w])
  BY Zenon, <1>2, IdleTasks
<1>4. worker \in [Workers -> Tasks]
  <2>1. Spawned(FALSE, TRUE) \in Tasks /\ Free \in Tasks
    BY Zenon, IdleTasks DEF Rests
  <2> QED
    BY Zenon, <1>2, <2>1
<1>5. Tasked
  BY Zenon, <1>1, <1>3, <1>4, RestingTask DEF Tasked
<1>6. AutomaticIsAwaited
  BY Zenon, <1>1 DEF AutomaticIsAwaited
<1>7. selected \in Identities /\ hidden \in BOOLEAN /\ events \in 0..MaxEvents
  <2>1. selected = FirstRealm /\ hidden = FALSE /\ events = 0
    BY Zenon DEF Init
  <2>2. 0 \in 0..MaxEvents
    BY SMT, DriverConfig
  <2> QED
    BY Zenon, <2>1, <2>2, DriverConstants
<1> QED
  BY Zenon, <1>1, <1>5, <1>6, <1>7 DEF IInv, Core

\* A task outside execute_with_timeout has no request.
LEMMA NoneHeld ==
    ASSUME NEW t, TaskOK(t), t.pc \notin Holding \cup {"observe"}
    PROVE  t.req = NoRequest
BY Zenon DEF TaskOK

\* A task that rests, with no request, goes on at rest.
LEMMA RestStep ==
    ASSUME Core, NEW w \in Workers, worker[w].pc \notin Holding, NEW u, Rests(u),
           worker' = [worker EXCEPT ![w] = u], svc' = svc
    PROVE  Core' /\ OwnerSettles
<1>1. TaskOK(u) /\ ~Polls(u) /\ u.req = NoRequest
  BY Zenon, RestingTask DEF Rests
<1> QED
  BY Zenon, <1>1, QuietStep

\* A task at rest calls execute_with_timeout.
LEMMA CallStep ==
    ASSUME Core, NEW w \in Workers, worker[w].pc \notin Holding,
           NEW stage \in Stages, NEW in \in DriverInputs,
           stage = "idle" => in.name \in Reports,
           in.name # "ReconciliationTimedOut",
           worker' = [worker EXCEPT ![w] = Executing(worker[w], stage, in)],
           svc' = svc
    PROVE  Core' /\ OwnerSettles
<1> DEFINE u == Executing(worker[w], stage, in)
<1>1. worker[w] \in Tasks
  BY Zenon, CoreFields
<1>2. TaskOK(u) /\ u.req = NoRequest /\ u.input = in
  BY Zenon, <1>1, ExecutingTask
<1>3. worker' = [worker EXCEPT ![w] = u]
  BY Zenon
<1> HIDE DEF u
<1>4. ~Polls(u)
  BY Zenon, <1>2 DEF Polls
<1> QED
  BY Zenon, <1>2, <1>3, <1>4, QuietStep

\* A task lists the networks.
LEMMA ListStep ==
    ASSUME Core, selected \in Identities, NEW w \in Workers, List(w)
    PROVE  Core' /\ OwnerSettles
<1> DEFINE t == worker[w]
           u == [t EXCEPT !.pc = "listed", !.id = selected]
<1>1. t.pc = "list" /\ svc' = svc
  BY Zenon DEF List, CanList, Read
<1>2. worker' = [worker EXCEPT ![w] = u]
  BY Zenon DEF List, Read, Go
<1>3. t \in Tasks /\ TaskOK(t)
  BY Zenon, CoreFields
<1>4. t.req = NoRequest
  BY SMT, <1>1, <1>3 DEF TaskOK, Holding, Executes
<1>5. ASSUME NEW k \in Tasks, k.req = NoRequest
      PROVE  LET l == [k EXCEPT !.pc = "listed", !.id = selected]
             IN TaskOK(l) /\ ~Polls(l) /\ l.req = NoRequest
  <2> DEFINE l == [k EXCEPT !.pc = "listed", !.id = selected]
  <2>1. l \in Tasks
    BY ZenonT(60) DEF Tasks
  <2>2. l.pc = "listed" /\ l.id = selected /\ l.req = NoRequest
    BY SMT, <1>5 DEF Tasks
  <2> HIDE DEF l
  <2>3. TaskOK(l) /\ ~Polls(l)
    BY SMT, <2>1, <2>2 DEF TaskOK, Polls, Executes, Holding
  <2> QED
    BY Zenon, <2>2, <2>3 DEF l
<1>6. TaskOK(u) /\ ~Polls(u) /\ u.req = NoRequest
  BY Zenon, <1>3, <1>4, <1>5
<1> HIDE DEF u
<1> QED
  BY Zenon, <1>1, <1>2, <1>4, <1>6, QuietStep DEF t

\* A listing fails.
LEMMA ListFailsStep ==
    ASSUME Core, NEW w \in Workers, ListFails(w)
    PROVE  Core' /\ OwnerSettles
<1> DEFINE u == IF w \in RetryWorkers THEN Ended ELSE Stopped(worker[w])
<1>1. worker[w].pc = "list" /\ svc' = svc /\ worker' = [worker EXCEPT ![w] = u]
  BY Zenon DEF ListFails, CanList, Go
<1>2. Rests(u)
  BY Zenon, IdleTasks
<1>3. worker[w].pc \notin Holding
  BY SMT, <1>1 DEF Holding, Executes
<1> HIDE DEF u
<1> QED
  BY Zenon, <1>1, <1>2, <1>3, RestStep

\* What a listing calls for.
LEMMA InitialInputType ==
    ASSUME NEW s, Sound(s), NEW t, t.id \in Identities
    PROVE  LET in == InitialInput(s, t)
           IN in \in DriverInputs /\ in.name # "ReconciliationTimedOut"
<1>1. s.checkpoint.facets \in Facets /\ "Stale" \in Facets
  BY Zenon, SoundFields DEF Facets
<1>2. /\ "Initialized" \in Selections /\ "RealmSelected" \in Selections
      /\ "Foreground" \in Signals /\ "PeriodicTick" \in Signals
      /\ "ReconciliationTimedOut" \notin Selections \cup Signals
  BY SMT DEF Selections, Signals
<1>3. ASSUME NEW name \in Selections
      PROVE  LET in == Selected(name, t.id, "Stale")
             IN in \in DriverInputs /\ in.name = name
  BY Zenon, <1>1, SelectedInput
<1>4. ASSUME NEW name \in Signals
      PROVE  LET in == Signal(name, s.checkpoint.facets)
             IN in \in DriverInputs /\ in.name = name
  BY Zenon, <1>1, SignalInput
<1> QED
  BY Zenon, <1>2, <1>3, <1>4 DEF InitialInput

\* A task sends the input its listing calls for.
LEMMA StartStep ==
    ASSUME Core, NEW w \in Workers, Start(w)
    PROVE  Core' /\ OwnerSettles
<1> DEFINE t == worker[w]
           in == InitialInput(svc, t)
<1>1. /\ t.pc = "listed" /\ svc' = svc
      /\ worker' = [worker EXCEPT ![w] =
                      IF w \in RealmWorkers THEN Executing(t, "rest", in)
                      ELSE IF svc.checkpoint.identity = t.id THEN At(t, "preflight")
                      ELSE Executing(t, "select", in)]
  BY Zenon DEF Start, CanStart, Read, Go
<1>2. Sound(svc) /\ TaskOK(t) /\ t \in Tasks
  BY Zenon, CoreFields
<1>3. in \in DriverInputs /\ in.name # "ReconciliationTimedOut"
  <2>1. t.id \in Identities
    BY Zenon, <1>1, <1>2 DEF TaskOK
  <2> QED
    BY Zenon, <1>2, <2>1, InitialInputType
<1>4. t.pc \notin Holding
  BY SMT, <1>1 DEF Holding, Executes
<1> HIDE DEF in
<1>5. ASSUME NEW stage \in {"rest", "select"},
             worker' = [worker EXCEPT ![w] = Executing(t, stage, in)]
      PROVE  Core' /\ OwnerSettles
  <2>1. stage \in Stages /\ stage # "idle"
    BY SMT DEF Stages
  <2> QED
    <3>1. svc' = svc /\ t.pc \notin Holding
      BY Zenon, <1>1, <1>4
    <3> QED
      BY ZenonT(60), <1>3, <1>5, <2>1, <3>1, CallStep
<1>6. ASSUME worker' = [worker EXCEPT ![w] = At(t, "preflight")]
      PROVE  Core' /\ OwnerSettles
  <2>1. "preflight" \in Places /\ "preflight" \notin Holding \cup {"listed"}
    BY SMT DEF Places, Holding, Executes
  <2>2. Rests(At(t, "preflight"))
    BY Zenon, <1>2, <2>1, AtFields DEF Rests
  <2> QED
    BY Zenon, <1>1, <1>4, <1>6, <2>2, RestStep
<1> QED
  BY Zenon, <1>1, <1>5, <1>6

\* A task sends an input.
LEMMA AdmitStep ==
    ASSUME Core, NEW w \in Workers, Admit(w)
    PROVE  Core' /\ OwnerSettles
<1> DEFINE t == worker[w]
           b == Begin(svc, t.input)
           u == Sent(t, b)
<1>1. /\ t.pc = "begin" /\ SequenceRoom(w)
      /\ svc' = b.svc /\ worker' = [worker EXCEPT ![w] = u]
  BY Zenon DEF Admit, CanAdmit, Write, Go, Sent
<1>2. Sound(svc) /\ TaskOK(t) /\ Meets(svc.policy, t)
  BY Zenon, CoreFields
<1>3. /\ Sound(b.svc) /\ Owned(svc.policy, t, b.svc.policy, u)
      /\ \/ Moves(svc.policy, t, b.svc.policy, u, SequenceWidth)
         \/ /\ Moves(svc.policy, t, b.svc.policy, u, NextSequence(svc.policy))
            /\ t.input.name \in Selections \cup Signals
  BY Zenon, <1>1, <1>2, AdmitMoves
<1>4. t.input.name \in Selections \cup Signals => Room(w, NextSequence(svc.policy))
  BY Zenon, <1>1 DEF SequenceRoom, Room
<1> HIDE DEF b, u
<1>5. CASE Moves(svc.policy, t, b.svc.policy, u, SequenceWidth)
  BY Zenon, <1>1, <1>3, <1>5, AnyRoom, TaskStep
<1>6. CASE /\ Moves(svc.policy, t, b.svc.policy, u, NextSequence(svc.policy))
           /\ t.input.name \in Selections \cup Signals
  BY Zenon, <1>1, <1>3, <1>4, <1>6, TaskStep
<1> QED
  BY Zenon, <1>3, <1>5, <1>6

\* A task about to settle a failed request keeps it.
LEMMA SettlingTask ==
    ASSUME NEW t, TaskOK(t), t.pc \in Executes, NEW facets \in Facets
    PROVE  LET u == [t EXCEPT !.pc = "settle", !.facets = facets]
           IN TaskOK(u) /\ ~Polls(u) /\ u.req = t.req /\ u.pc \in Holding
<1> DEFINE u == [t EXCEPT !.pc = "settle", !.facets = facets]
<1>1. t \in Tasks
  BY Zenon DEF TaskOK
<1>2. u \in Tasks
  BY ZenonT(60), <1>1 DEF Tasks
<1>3. u.pc = "settle" /\ u.req = t.req /\ u.stage = t.stage /\ u.try = t.try
  BY SMT, <1>1 DEF Tasks
<1> HIDE DEF u
<1>4. TaskOK(u) /\ ~Polls(u) /\ u.pc \in Holding
  BY SMT, <1>2, <1>3 DEF TaskOK, Polls, Executes, Holding
<1> QED
  BY Zenon, <1>3, <1>4 DEF u

\* A task settles what it executes.
LEMMA SettleStep ==
    ASSUME Core, NEW w \in Workers, worker[w].pc \in Executes,
           NEW facets \in Facets, NEW ok \in BOOLEAN,
           NEW v \in Tasks, v.req = worker[w].req, v.pc = worker[w].pc,
           v.stage = worker[w].stage, v.try = worker[w].try,
           v.drained = worker[w].drained,
           LET r == Settle(svc, worker[w].req, facets, ok)
           IN svc' = r.svc /\ worker' = [worker EXCEPT ![w] = Drained(v, r.req)]
    PROVE  Core' /\ OwnerSettles
<1> DEFINE t == worker[w]
           r == Settle(svc, t.req, facets, ok)
           u == Drained(v, r.req)
<1>1. svc' = r.svc /\ worker' = [worker EXCEPT ![w] = u]
  BY Zenon
<1>2. Sound(svc) /\ TaskOK(t) /\ Fits(svc.policy, t.req)
  BY Zenon, CoreFields DEF Meets
<1>3. t.req \in Requests
  BY Zenon, <1>2, TaskFields DEF TaskOK, Held
<1>4. Sound(r.svc) /\ Settled(svc.policy, t.req, r.svc.policy, r.req)
  BY Zenon, <1>2, <1>3, SettleSound
<1> HIDE DEF r
<1>5. /\ Moves(svc.policy, t, r.svc.policy, u, SequenceWidth)
      /\ Owned(svc.policy, t, r.svc.policy, u)
  BY Zenon, <1>2, <1>4, SettleMoves
<1> HIDE DEF u
<1> QED
  BY Zenon, <1>1, <1>4, <1>5, AnyRoom, TaskStep

\* The answer of a sync call changes what the future will report, no more.
AnsweredTask(t, c) == [t EXCEPT !.proj = @ \/ c, !.err = @ /\ ~c]
LEMMA ReportedTask ==
    ASSUME NEW t \in Tasks, NEW c
    PROVE  LET v == AnsweredTask(t, c)
           IN /\ v \in Tasks /\ v.req = t.req /\ v.pc = t.pc /\ v.stage = t.stage
              /\ v.try = t.try /\ v.drained = t.drained
<1> DEFINE v == [t EXCEPT !.proj = @ \/ c, !.err = @ /\ ~c]
<1>1. v \in Tasks
  BY ZenonT(60) DEF Tasks
<1>2. /\ v.req = t.req /\ v.pc = t.pc /\ v.stage = t.stage
      /\ v.try = t.try /\ v.drained = t.drained
  BY SMT DEF Tasks
<1> QED
  BY Zenon, <1>1, <1>2 DEF AnsweredTask

\* A task whose sync call failed keeps its request.
LEMMA FailedTask ==
    ASSUME NEW t, TaskOK(t), t.pc \in Executes
    PROVE  LET u == [t EXCEPT !.pc = "failed"]
           IN TaskOK(u) /\ ~Polls(u) /\ u.req = t.req /\ u.pc \in Holding
<1> DEFINE u == [t EXCEPT !.pc = "failed"]
<1>1. t \in Tasks
  BY Zenon DEF TaskOK
<1>2. u \in Tasks
  BY ZenonT(60), <1>1 DEF Tasks
<1>3. u.pc = "failed" /\ u.req = t.req /\ u.stage = t.stage /\ u.try = t.try
  BY SMT, <1>1 DEF Tasks
<1> HIDE DEF u
<1>4. TaskOK(u) /\ ~Polls(u) /\ u.pc \in Holding
  BY SMT, <1>2, <1>3 DEF TaskOK, Polls, Executes, Holding
<1> QED
  BY Zenon, <1>3, <1>4 DEF u

\* A sync call answers.
LEMMA CompleteStep ==
    ASSUME Core, NEW w \in Workers, Complete(w)
    PROVE  Core' /\ OwnerSettles
<1> DEFINE t == worker[w]
           c == Current(svc, t.req)
           v == [t EXCEPT !.proj = @ \/ c, !.err = @ /\ ~c]
<1>1. t.pc = "sync" /\ t.pc \in Executes /\ t.pc \in Holding
  BY Zenon DEF Complete, Executes, Holding
<1>2. TaskOK(t) /\ t \in Tasks /\ t.proj \in BOOLEAN /\ t.err \in BOOLEAN
  BY Zenon, CoreFields, TaskFields
<1>3. CASE Read(w, [t EXCEPT !.pc = "failed"])
  <2> DEFINE u == [t EXCEPT !.pc = "failed"]
  <2>1. svc' = svc /\ worker' = [worker EXCEPT ![w] = u]
    BY Zenon, <1>3 DEF Read, Go
  <2>2. TaskOK(u) /\ ~Polls(u) /\ u.req = t.req /\ u.pc \in Holding
    BY Zenon, <1>1, <1>2, FailedTask
  <2> HIDE DEF u
  <2> QED
    BY Zenon, <2>1, <2>2, KeepingStep
<1>4. ASSUME NEW facets \in Answers,
             LET r == Settle(svc, t.req, facets, TRUE)
             IN Write(w, r.svc, Drained(v, r.req))
      PROVE  Core' /\ OwnerSettles
  <2>1. facets \in Facets
    BY Zenon, DriverConstants
  <2>2. /\ v \in Tasks /\ v.req = t.req /\ v.pc = t.pc /\ v.stage = t.stage
        /\ v.try = t.try /\ v.drained = t.drained
    <3>1. v = AnsweredTask(t, c)
      BY Zenon DEF AnsweredTask
    <3> HIDE DEF v
    <3> QED
      BY Zenon, <1>2, <3>1, ReportedTask
  <2>3. LET r == Settle(svc, t.req, facets, TRUE)
        IN svc' = r.svc /\ worker' = [worker EXCEPT ![w] = Drained(v, r.req)]
    BY Zenon, <1>4 DEF Write, Go
  <2> HIDE DEF v
  <2> QED
    BY ZenonT(60), <1>1, <2>1, <2>2, <2>3, SettleStep
<1> QED
  BY Zenon, <1>3, <1>4 DEF Complete

\* A failed request takes the facets to report.
LEMMA FallBackStep ==
    ASSUME Core, NEW w \in Workers, FallBack(w)
    PROVE  Core' /\ OwnerSettles
<1> DEFINE t == worker[w]
           f == FallbackFacets(svc, t.req.id)
           u == [t EXCEPT !.pc = "settle", !.facets = f]
<1>1. t.pc = "failed" /\ svc' = svc /\ worker' = [worker EXCEPT ![w] = u]
  BY Zenon DEF FallBack, CanFallBack, Read, Go
<1>2. TaskOK(t) /\ t.pc \in Executes /\ svc \in GuardedServices
  BY Zenon, <1>1, CoreFields DEF Executes, Sound
<1>3. f \in Facets
  BY Zenon, <1>2, FallbackType
<1> HIDE DEF f
<1>4. TaskOK(u) /\ ~Polls(u) /\ u.req = t.req /\ u.pc \in Holding
  BY Zenon, <1>2, <1>3, SettlingTask
<1> HIDE DEF u
<1> QED
  BY Zenon, <1>1, <1>4, KeepingStep

\* A failed request is settled.
LEMMA FailStep ==
    ASSUME Core, NEW w \in Workers, Fail(w)
    PROVE  Core' /\ OwnerSettles
<1> DEFINE t == worker[w]
           c == Current(svc, t.req)
           v == [t EXCEPT !.err = @ \/ c, !.facets = "Stale"]
<1>1. t.pc = "settle" /\ t.pc \in Executes
  BY Zenon DEF Fail, CanFail, Executes
<1>2. t \in Tasks /\ t.facets \in Facets /\ t.err \in BOOLEAN
  BY Zenon, CoreFields, TaskFields
<1>3. /\ v \in Tasks /\ v.req = t.req /\ v.pc = t.pc /\ v.stage = t.stage
      /\ v.try = t.try /\ v.drained = t.drained
  <2> DEFINE err == t.err \/ c
             k == [t EXCEPT !.err = err, !.facets = "Stale"]
  <2>1. err \in BOOLEAN /\ "Stale" \in Facets
    BY Zenon DEF Facets
  <2>2. v = k
    BY Zenon, <1>2
  <2> HIDE DEF err, t
  <2>3. k \in Tasks
    BY ZenonT(60), <1>2, <2>1 DEF Tasks
  <2>4. /\ k.req = t.req /\ k.pc = t.pc /\ k.stage = t.stage
        /\ k.try = t.try /\ k.drained = t.drained
    BY SMT, <1>2 DEF Tasks
  <2> HIDE DEF k
  <2> QED
    BY Zenon, <2>2, <2>3, <2>4
<1>4. LET r == Settle(svc, t.req, t.facets, FALSE)
      IN svc' = r.svc /\ worker' = [worker EXCEPT ![w] = Drained(v, r.req)]
  BY Zenon DEF Fail, Write, Go
<1> HIDE DEF v
<1> QED
  BY ZenonT(60), <1>1, <1>2, <1>3, <1>4, SettleStep

\* A task sends back the status of its success.
LEMMA ObserveStep ==
    ASSUME Core, NEW w \in Workers, Observe(w)
    PROVE  Core' /\ OwnerSettles
<1> DEFINE t == worker[w]
           in == [Input("ReconciliationObserved") EXCEPT
                    !.id = t.req.id, !.facets = svc.checkpoint.facets]
<1>1. /\ t.pc = "observe" /\ svc' = svc
      /\ worker' = [worker EXCEPT ![w] = Executing(t, t.stage, in)]
  BY Zenon DEF Observe, CanObserve, Read, Go
<1>2. Sound(svc) /\ t \in Tasks /\ t.stage \in Stages /\ t.req \in Held
  BY Zenon, CoreFields, TaskFields
<1>3. in \in DriverInputs /\ in.name = "ReconciliationObserved"
  <2>1. t.req.id \in Identities \cup {NoIdentity}
    BY Zenon, <1>2, RequestFields DEF Held
  <2> QED
    BY Zenon, <1>2, <2>1, SoundFields, ObservedInput
<1> HIDE DEF in
<1>4. in.name \in Reports /\ in.name # "ReconciliationTimedOut"
  BY SMT, <1>3 DEF Reports
<1>5. t.pc \notin Holding
  BY SMT, <1>1 DEF Holding, Executes
<1> DEFINE stage == t.stage
<1>6. stage \in Stages /\ worker' = [worker EXCEPT ![w] = Executing(t, stage, in)]
  BY Zenon, <1>1, <1>2
<1> HIDE DEF stage
<1> QED
  BY ZenonT(60), <1>1, <1>3, <1>4, <1>5, <1>6, CallStep

\* A task looks up the request that timed out, to report it.
LEMMA ReportingTask ==
    ASSUME NEW t, TaskOK(t), t.pc = "sync", t.try # MaxTries, NEW m \in BOOLEAN
    PROVE  LET u == [At(t, "begin") EXCEPT !.input = TimedOut(t.req), !.req = t.req,
                                           !.matched = m, !.try = t.try + 1]
           IN TaskOK(u) /\ ~Polls(u) /\ u.req = t.req /\ u.pc \in Holding
<1> DEFINE a == At(t, "begin")
           in == TimedOut(t.req)
           req == t.req
           try == t.try + 1
           u == [a EXCEPT !.input = in, !.req = req, !.matched = m, !.try = try]
<1>1. t \in Tasks
  BY Zenon DEF TaskOK
<1>2. a \in Tasks /\ a.pc = "begin"
  BY Zenon, <1>1, AtFields DEF Places
<1>3. req \in Requests /\ req # NoRequest
  BY Zenon, <1>1, TaskFields DEF TaskOK, Executes, Held
<1>4. in \in DriverInputs /\ in.name \in Reports /\ in \in Inputs
  BY Zenon, <1>3, TimedOutInput, DriverInputType DEF Reports
<1>5. try \in 0..MaxTries
  <2>1. t.try \in 0..MaxTries
    BY Zenon, <1>1, TaskFields
  <2> QED
    BY SMT, <2>1, DriverConstants
<1>6. in = TimedOut(req)
  BY Zenon
<1>7. [At(t, "begin") EXCEPT !.input = TimedOut(t.req), !.req = t.req,
                             !.matched = m, !.try = t.try + 1] = u
  BY Zenon
<1> HIDE DEF a, in, req, try
<1>8. u \in Tasks
  BY ZenonT(60), <1>2, <1>3, <1>4, <1>5 DEF Tasks
<1>9. u.pc = "begin" /\ u.input = in /\ u.req = req
  BY SMT, <1>2 DEF Tasks
<1> HIDE DEF u
<1>10. u.pc \notin Executes /\ u.pc \in Holding /\ u.pc # "listed"
  BY SMT, <1>9 DEF Executes, Holding
<1>11. TaskOK(u) /\ ~Polls(u)
  BY Zenon, <1>3, <1>4, <1>6, <1>8, <1>9, <1>10 DEF TaskOK, Polls
<1> QED
  BY Zenon, <1>7, <1>9, <1>10, <1>11 DEF req

\* A timeout drops the future: the task reports it, or has tried enough, and
\* then it was executing a preflight.
LEMMA TimeoutStep ==
    ASSUME Core, NEW w \in Workers, Timeout(w)
    PROVE  Core' /\ OwnerSettles
<1> DEFINE t == worker[w]
           m == InFlight.id = t.req.id /\ InFlight.seq = t.req.seq
           u == [At(t, "begin") EXCEPT !.input = TimedOut(t.req), !.req = t.req,
                                       !.matched = m, !.try = t.try + 1]
<1>1. /\ t.pc = "sync" /\ svc' = svc
      /\ worker' = [worker EXCEPT ![w] = IF t.try = MaxTries THEN Returned(t, FALSE)
                                         ELSE u]
  BY Zenon DEF Timeout, CanTimeout, Read, Go
<1>2. TaskOK(t) /\ t \in Tasks
  BY Zenon, CoreFields
<1>3. CASE t.try = MaxTries
  <2>1. t.req.trigger = "ActionPreflight"
    <3>1. t.try > 1 /\ t.pc \in Executes
      BY SMT, <1>1, <1>3, DriverConstants DEF Executes
    <3> QED
      BY Zenon, <1>2, <3>1 DEF TaskOK
  <2>2. Rests(Returned(t, FALSE))
    BY Zenon, <1>2, ReturnedTask
  <2>3. TaskOK(Returned(t, FALSE)) /\ ~Polls(Returned(t, FALSE))
        /\ Returned(t, FALSE).req = NoRequest
    BY Zenon, <2>2, RestingTask DEF Rests
  <2>4. worker' = [worker EXCEPT ![w] = Returned(t, FALSE)]
    BY Zenon, <1>1, <1>3
  <2> QED
    BY Zenon, <1>1, <2>1, <2>3, <2>4, QuietStep
<1>4. CASE t.try # MaxTries
  <2>1. m \in BOOLEAN
    BY Zenon
  <2>2. worker' = [worker EXCEPT ![w] = u]
    BY Zenon, <1>1, <1>4
  <2>3. TaskOK(u) /\ ~Polls(u) /\ u.req = t.req /\ u.pc \in Holding
    <3> HIDE DEF m, t
    <3> QED
      BY Zenon, <1>1, <1>2, <1>4, <2>1, ReportingTask
  <2> HIDE DEF u
  <2> QED
    BY Zenon, <1>1, <2>2, <2>3, KeepingStep
<1> QED
  BY Zenon, <1>3, <1>4

\* A sleeping task.
LEMMA SleepingTask ==
    ASSUME NEW t \in Tasks, NEW left \in 0..MaxAge
    PROVE  Rests([At(t, "sleep") EXCEPT !.left = left])
<1> DEFINE a == At(t, "sleep")
           u == [a EXCEPT !.left = left]
<1>1. a \in Tasks /\ a.pc = "sleep" /\ a.req = NoRequest
  BY Zenon, AtFields DEF Places
<1> HIDE DEF a
<1>2. u \in Tasks
  BY ZenonT(60), <1>1 DEF Tasks
<1>3. u.pc = "sleep" /\ u.req = NoRequest
  BY SMT, <1>1 DEF Tasks
<1> HIDE DEF u
<1>4. Rests(u)
  BY SMT, <1>2, <1>3 DEF Rests, Holding, Executes
<1> QED
  BY Zenon, <1>4 DEF u, a

\* A realm worker goes to sleep, or ends.
LEMMA SleepStep ==
    ASSUME Core, NEW w \in Workers, Rest(w)
    PROVE  Core' /\ OwnerSettles
<1> DEFINE t == worker[w]
           due == NextWakeup(svc.policy)
           sleep(left) == [At(t, "sleep") EXCEPT !.left = left]
           u == IF due # Never THEN sleep(Max({due, 1}))
                ELSE IF InFlight # NoRequest THEN sleep(1)
                ELSE Stopped(t)
<1>1. t.pc = "rest" /\ svc' = svc /\ worker' = [worker EXCEPT ![w] = u]
  BY Zenon DEF Rest, CanRest, Read, Go
<1>2. t \in Tasks /\ svc.policy \in Policies
  BY Zenon, CoreFields
<1>3. ASSUME NEW left \in 0..MaxAge
      PROVE  Rests(sleep(left))
  BY Zenon, <1>2, SleepingTask
<1>4. due # Never => Max({due, 1}) \in 0..MaxAge
  <2> SUFFICES ASSUME due # Never PROVE Max({due, 1}) \in 0..MaxAge
    OBVIOUS
  <2>1. due \in 0..MaxAge
    BY Zenon, <1>2, NextWakeupBound
  <2> HIDE DEF due
  <2>2. due \in Int /\ due <= MaxAge /\ due >= 0
    BY SMT, <2>1, MaxAgeBounds
  <2>3. Max({due, 1}) = IF due >= 1 THEN due ELSE 1
    BY <2>2, MaxPair
  <2> QED
    BY SMT, <2>2, <2>3, MaxAgeBounds
<1>5. 1 \in 0..MaxAge
  BY SMT, MaxAgeBounds
<1> HIDE DEF sleep, due
<1>6. Rests(u)
  BY Zenon, <1>3, <1>4, <1>5, IdleTasks
<1>7. t.pc \notin Holding
  BY SMT, <1>1 DEF Holding, Executes
<1> HIDE DEF u
<1> QED
  BY Zenon, <1>1, <1>6, <1>7, RestStep

\* A retry asks for an action preflight.
LEMMA PreflightStep ==
    ASSUME Core, NEW w \in Workers, Preflight(w)
    PROVE  Core' /\ OwnerSettles
<1> DEFINE t == worker[w]
           in == Signal("ActionPreflight", svc.checkpoint.facets)
           stage == "preflight"
<1>1. /\ t.pc = "preflight" /\ svc' = svc
      /\ worker' = [worker EXCEPT ![w] = Executing(t, stage, in)]
  BY Zenon DEF Preflight, CanPreflight, Read, Go
<1>2. in \in DriverInputs /\ in.name = "ActionPreflight"
  <2>1. "ActionPreflight" \in Signals
    BY SMT DEF Signals
  <2>2. svc.checkpoint.facets \in Facets
    BY Zenon, CoreFields, SoundFields
  <2> QED
    BY Zenon, <2>1, <2>2, SignalInput
<1>3. stage \in Stages /\ stage # "idle" /\ t.pc \notin Holding
  BY SMT, <1>1 DEF Stages, Holding, Executes
<1> HIDE DEF in, stage
<1>4. in.name # "ReconciliationTimedOut"
  BY SMT, <1>2
<1> QED
  BY ZenonT(60), <1>1, <1>2, <1>3, <1>4, CallStep

\* A retry waits for the service to become idle, or ends.
LEMMA FollowStep ==
    ASSUME Core, NEW w \in Workers, Follow(w)
    PROVE  Core' /\ OwnerSettles
<1> DEFINE t == worker[w]
           k == [Free EXCEPT !.pc = "idle", !.stage = "idle",
                             !.outer = 2 * RequestTimeout]
           u == IF t.retained \/ InFlight # NoRequest THEN k ELSE Ended
<1>1. t.pc = "after" /\ svc' = svc /\ worker' = [worker EXCEPT ![w] = u]
  BY Zenon DEF Follow, CanFollow, Read, Go
<1>2. Rests(k)
  <2>1. 2 * RequestTimeout \in 0..2 * RequestTimeout
    BY SMT, DriverConstants
  <2>2. k \in Tasks
    BY ZenonT(60), <2>1, FreeFields DEF Tasks
  <2>3. k.pc = "idle" /\ k.req = NoRequest
    BY SMT, FreeFields DEF Tasks
  <2> HIDE DEF k
  <2> QED
    BY SMT, <2>2, <2>3 DEF Rests, Holding, Executes
<1> HIDE DEF k
<1>3. Rests(u)
  BY Zenon, <1>2, IdleTasks
<1>4. t.pc \notin Holding
  BY SMT, <1>1 DEF Holding, Executes
<1> HIDE DEF u
<1> QED
  BY Zenon, <1>1, <1>3, <1>4, RestStep

\* A poll of the idle wait: it is over, or the task is to report the request
\* that it finds in flight past its deadline.
LEMMA PollStep ==
    ASSUME Core, NEW w \in Workers, Poll(w)
    PROVE  Core' /\ OwnerSettles
<1> DEFINE t == worker[w]
           p == svc.policy
           f == p.in_flight
           in == TimedOut(f)
           stage == "idle"
           u == Executing(t, stage, in)
<1>1. /\ t.pc = "idle" /\ svc' = svc
      /\ f = NoRequest \/ DeadlinePassed(p)
      /\ worker' = [worker EXCEPT ![w] = IF f = NoRequest THEN Ended ELSE u]
  BY Zenon DEF Poll, CanPoll, Read, Go, InFlight
<1>2. t.pc \notin Holding /\ stage \in Stages
  BY SMT, <1>1 DEF Holding, Executes, Stages
<1>3. CASE f = NoRequest
  <2>1. worker' = [worker EXCEPT ![w] = Ended]
    BY Zenon, <1>1, <1>3
  <2> QED
    BY Zenon, <1>1, <1>2, <2>1, IdleTasks, RestStep
<1>4. CASE f # NoRequest
  <2>1. /\ Sound(svc') /\ SlotsOK(p) /\ p \in Policies /\ t \in Tasks
        /\ svc'.policy = p
    BY Zenon, <1>1, CoreFields
  <2>2. f \in Requests
    BY Zenon, <1>4, <2>1, PolicySlots DEF Held
  <2>10. Fits(p, f)
    <3>1. CASE p.pending = NoRequest
      BY Zenon, <3>1 DEF Fits
    <3>2. CASE p.pending # NoRequest
      <4>1. f.trigger # "ActionPreflight"
        BY Zenon, <2>1, <3>2 DEF SlotsOK
      <4>2. PICK v \in Workers : Holds(v)
        BY Zenon, <1>4, <4>1 DEF Core, AutomaticIsAwaited, InFlight
      <4>3. Fits(p, worker[v].req) /\ worker[v].req = f
        BY Zenon, <4>2, CoreFields DEF Meets, Holds, InFlight
      <4> QED
        BY Zenon, <4>3
    <3> QED
      BY Zenon, <3>1, <3>2
  <2>3. in \in DriverInputs /\ in.name \in Reports
    BY Zenon, <2>2, TimedOutInput DEF Reports
  <2>4. TaskOK(u) /\ u.req = NoRequest /\ u.input = in
    <3> HIDE DEF in, t, stage
    <3> QED
      BY Zenon, <1>2, <2>1, <2>3, ExecutingTask
  <2>5. worker' = [worker EXCEPT ![w] = u]
    BY Zenon, <1>1, <1>4
  <2>6. Waited(p, f)
    BY Zenon, <1>1, <1>4 DEF Waited
  <2> HIDE DEF u
  <2>7. Meets(p, u)
    BY Zenon, <2>1, <2>2, <2>4, <2>6, <2>10, NoRequestFits DEF Meets
  <2>8. Keeps(p, p, SequenceWidth)
    BY Zenon DEF Keeps
  <2>9. Moves(p, t, p, u, SequenceWidth) /\ Owned(p, t, p, u)
    BY Zenon, <1>2, <2>4, <2>7, <2>8 DEF Moves, Owned, Carries
  <2> QED
    BY Zenon, <2>1, <2>5, <2>9, AnyRoom, TaskStep
<1> QED
  BY Zenon, <1>3, <1>4

\* The idle wait times out.
LEMMA GiveUpStep ==
    ASSUME Core, NEW w \in Workers, GiveUp(w)
    PROVE  Core' /\ OwnerSettles
<1> DEFINE t == worker[w]
<1>1. /\ t.pc = "idle" \/ (t.pc = "sync" /\ t.stage = "idle")
      /\ svc' = svc /\ worker' = [worker EXCEPT ![w] = Ended]
  BY Zenon DEF GiveUp, CanGiveUp, Read, Go
<1>2. TaskOK(t)
  BY Zenon, CoreFields
<1>3. t.pc \notin Holding \/ t.req.trigger = "ActionPreflight"
  BY SMT, <1>1, <1>2 DEF TaskOK, Holding, Executes
<1>4. TaskOK(Ended) /\ ~Polls(Ended) /\ Ended.req = NoRequest
  BY Zenon, IdleTasks, RestingTask DEF Rests
<1> QED
  BY Zenon, <1>1, <1>3, <1>4, QuietStep

\* A task wakes its successor.
LEMMA WakeStep ==
    ASSUME Core, NEW w \in Workers, Wake(w)
    PROVE  Core' /\ OwnerSettles
<1> DEFINE u == IF worker[w].current THEN Spawned(FALSE, TRUE) ELSE Free
<1>1. worker[w].pc = "sleep" /\ svc' = svc /\ worker' = [worker EXCEPT ![w] = u]
  BY Zenon DEF Wake, CanWake, Read, Go
<1>2. Rests(u)
  BY Zenon, IdleTasks
<1>3. worker[w].pc \notin Holding
  BY SMT, <1>1 DEF Holding, Executes
<1> HIDE DEF u
<1> QED
  BY Zenon, <1>1, <1>2, <1>3, RestStep

\* A task that a later wake supersedes keeps all but its turn.
LEMMA SupersededTask ==
    ASSUME NEW t, TaskOK(t)
    PROVE  LET u == [t EXCEPT !.current = FALSE]
           IN TaskOK(u) /\ u.req = t.req /\ u.pc = t.pc /\ u.input = t.input
<1> DEFINE u == [t EXCEPT !.current = FALSE]
<1>1. t \in Tasks
  BY Zenon DEF TaskOK
<1>2. u \in Tasks
  BY ZenonT(60), <1>1 DEF Tasks
<1>3. /\ u.pc = t.pc /\ u.stage = t.stage /\ u.req = t.req /\ u.id = t.id
      /\ u.try = t.try /\ u.input = t.input
  BY SMT, <1>1 DEF Tasks
<1> HIDE DEF u
<1>4. TaskOK(u)
  BY Zenon, <1>2, <1>3 DEF TaskOK
<1> QED
  BY Zenon, <1>3, <1>4 DEF u

\* A task that is free, stopped or ended rests.
LEMMA OverRests ==
    ASSUME Core, NEW w \in Workers, worker[w].pc \in {"free", "stopped", "ended"}
    PROVE  Rests(worker[w])
<1>1. TaskOK(worker[w]) /\ worker[w] \in Tasks
  BY Zenon, CoreFields
<1>2. worker[w].pc \notin Holding \cup {"observe", "listed"}
  BY SMT DEF Holding, Executes
<1> QED
  BY Zenon, <1>1, <1>2 DEF TaskOK, Rests

\* The driver is woken from outside.
LEMMA WakeUpStep ==
    ASSUME Core, NEW resumed \in BOOLEAN, NEW gone,
           \A v \in gone : worker[v].pc = "ended",
           WakeUp(resumed, gone), svc' = svc
    PROVE  Core' /\ OwnerSettles
<1>1. PICK w \in RealmWorkers :
        /\ worker[w].pc \in {"free", "stopped"}
        /\ worker' = [v \in Workers |->
                        IF v = w THEN Spawned(resumed, TRUE)
                        ELSE IF v \in gone \/ worker[v].pc = "stopped" THEN Free
                        ELSE [worker[v] EXCEPT !.current = FALSE]]
  BY Zenon DEF WakeUp
<1>2. w \in Workers
  BY Zenon DEF Workers
<1>3. ASSUME NEW v \in Workers
      PROVE  \/ /\ TaskOK(worker'[v]) /\ worker'[v].req = worker[v].req
                /\ worker'[v].pc = worker[v].pc /\ worker'[v].input = worker[v].input
             \/ Rests(worker[v]) /\ Rests(worker'[v])
  <2>1. CASE v = w
    <3>1. worker'[v] = Spawned(resumed, TRUE)
      BY Zenon, <1>1, <2>1
    <3> QED
      BY Zenon, <1>1, <1>2, <2>1, <3>1, IdleTasks, OverRests
  <2>2. CASE v # w /\ (v \in gone \/ worker[v].pc = "stopped")
    <3>1. worker'[v] = Free
      BY Zenon, <1>1, <2>2
    <3>2. worker[v].pc \in {"free", "stopped", "ended"}
      BY Zenon, <2>2
    <3> QED
      BY Zenon, <3>1, <3>2, IdleTasks, OverRests
  <2>3. CASE v # w /\ ~(v \in gone \/ worker[v].pc = "stopped")
    <3>1. worker'[v] = [worker[v] EXCEPT !.current = FALSE]
      BY Zenon, <1>1, <2>3
    <3>2. TaskOK(worker[v])
      BY Zenon, CoreFields
    <3> QED
      BY Zenon, <3>1, <3>2, SupersededTask
  <2> QED
    BY Zenon, <2>1, <2>2, <2>3
<1>4. worker' \in [Workers -> Tasks]
  <2>1. \A v \in Workers : worker'[v] \in Tasks
    BY Zenon, <1>3 DEF TaskOK, Rests
  <2>2. worker' = [v \in Workers |-> worker'[v]]
    BY Zenon, <1>1
  <2> QED
    BY Zenon, <2>1, <2>2
<1>5. Sound(svc') /\ SameSlots(svc.policy, svc'.policy)
  BY Zenon DEF Core, SameSlots
<1> QED
  BY Zenon, <1>3, <1>4, <1>5, RenewStep

\* The user interface takes the outcome of a retry.
LEMMA NotifyStep ==
    ASSUME Core, NEW w \in Workers, Notify(w)
    PROVE  Core' /\ OwnerSettles
<1>1. worker[w].pc = "ended" /\ WakeUp(FALSE, {w}) /\ svc' = svc
  BY Zenon DEF Notify, CanNotify
<1>2. \A v \in {w} : worker[v].pc = "ended"
  BY Zenon, <1>1
<1> QED
  BY Zenon, <1>1, <1>2, WakeUpStep

\* The user asks for a retry.
LEMMA ExplicitRetryStep ==
    ASSUME Core, ExplicitRetry
    PROVE  Core' /\ OwnerSettles
<1>1. PICK w \in RetryWorkers :
        /\ worker[w].pc = "free"
        /\ worker' = [worker EXCEPT ![w] = Spawned(FALSE, FALSE)]
  BY Zenon DEF ExplicitRetry, Go
<1>2. w \in Workers /\ svc' = svc
  BY Zenon DEF Workers, ExplicitRetry
<1>3. worker[w].pc \notin Holding
  BY SMT, <1>1 DEF Holding, Executes
<1> QED
  BY Zenon, <1>1, <1>2, <1>3, IdleTasks, RestStep

\* Time passes.
LEMMA TickStep ==
    ASSUME Core, Tick
    PROVE  Core' /\ OwnerSettles
<1> DEFINE left(v) == Max({worker[v].left - 1, 0})
           outer(v) == Max({worker[v].outer - 1, 0})
           aged(v) == [worker[v] EXCEPT !.left = left(v), !.outer = outer(v)]
<1>1. /\ svc' = Age(svc)
      /\ worker' = [v \in Workers |-> aged(v)]
  BY Zenon DEF Tick
<1>2. Sound(svc') /\ SameSlots(svc.policy, svc'.policy)
  BY Zenon, <1>1, AgeSound DEF Core
<1>3. ASSUME NEW v \in Workers
      PROVE  /\ TaskOK(aged(v)) /\ aged(v).req = worker[v].req
             /\ aged(v).pc = worker[v].pc /\ aged(v).input = worker[v].input
  <2> DEFINE t == worker[v]
  <2>1. TaskOK(t) /\ t \in Tasks
    BY Zenon, CoreFields
  <2>2. t.left \in 0..MaxAge /\ t.outer \in 0..2 * RequestTimeout
    BY Zenon, <2>1, TaskFields
  <2>3. left(v) \in 0..MaxAge
    <3>1. t.left - 1 \in Int /\ t.left - 1 <= MaxAge /\ MaxAge >= 0
      BY SMT, <2>2, MaxAgeBounds
    <3>2. left(v) = IF t.left - 1 >= 0 THEN t.left - 1 ELSE 0
      BY <3>1, MaxPair
    <3> QED
      BY SMT, <3>1, <3>2, MaxAgeBounds
  <2>4. outer(v) \in 0..2 * RequestTimeout
    <3>1. /\ t.outer - 1 \in Int /\ t.outer - 1 <= 2 * RequestTimeout
          /\ 2 * RequestTimeout \in Int /\ 0 <= 2 * RequestTimeout
      BY SMT, <2>2, DriverConstants
    <3>2. outer(v) = IF t.outer - 1 >= 0 THEN t.outer - 1 ELSE 0
      BY <3>1, MaxPair
    <3> HIDE DEF outer, t
    <3> QED
      BY SMT, <3>1, <3>2
  <2> HIDE DEF left, outer
  <2> DEFINE u == [t EXCEPT !.left = left(v), !.outer = outer(v)]
  <2> SUFFICES TaskOK(u) /\ u.req = t.req /\ u.pc = t.pc /\ u.input = t.input
    BY Zenon
  <2> HIDE DEF t
  <2>5. u \in Tasks
    BY ZenonT(60), <2>1, <2>3, <2>4 DEF Tasks
  <2>6. /\ u.pc = t.pc /\ u.stage = t.stage /\ u.req = t.req /\ u.id = t.id
        /\ u.try = t.try /\ u.input = t.input
    BY SMT, <2>1 DEF Tasks
  <2> HIDE DEF u
  <2> QED
    BY Zenon, <2>1, <2>5, <2>6 DEF TaskOK
<1> HIDE DEF aged
<1>4. \A v \in Workers : /\ TaskOK(worker'[v]) /\ worker'[v].req = worker[v].req
                         /\ worker'[v].pc = worker[v].pc
                         /\ worker'[v].input = worker[v].input
  BY Zenon, <1>1, <1>3
<1>5. worker' \in [Workers -> Tasks]
  <2>1. \A v \in Workers : aged(v) \in Tasks
    BY Zenon, <1>3 DEF TaskOK
  <2> QED
    BY Zenon, <1>1, <2>1
<1> QED
  BY Zenon, <1>2, <1>4, <1>5, RenewStep

\* The application goes to the background.
LEMMA BackgroundStep ==
    ASSUME Core, Background
    PROVE  Core' /\ OwnerSettles
<1> DEFINE r == Begin(svc, Input("Backgrounded")).svc
           p == svc.policy
<1>1. svc' = r /\ worker' = worker
  BY Zenon DEF Background
<1>2. svc \in GuardedServices /\ svc.checkpoint.identity = p.active
  BY Zenon DEF Core, Sound
<1>3. /\ r \in GuardedServices
      /\ r.checkpoint.identity = svc.checkpoint.identity
      /\ r.policy.active = p.active
      /\ r.policy.in_flight = NoRequest /\ r.policy.pending = NoRequest
      /\ ~r.policy.foreground
  BY Zenon, <1>2, BeginBackgrounded
<1> HIDE DEF r
<1>4. Keeps(p, r.policy, SequenceWidth)
  BY Zenon, <1>3, EmptyKeeps
<1>5. Sound(r)
  <2>1. r.policy \in Policies
    BY SMT, <1>3 DEF GuardedServices
  <2> QED
    BY Zenon, <1>2, <1>3, <2>1, EmptyKeeps DEF Sound
<1>6. ASSUME NEW v \in Workers
      PROVE  Meets(r.policy, worker[v])
  <2>1. worker[v] \in Tasks /\ Meets(p, worker[v])
    BY Zenon, CoreFields
  <2>2. worker[v].req \in Held /\ worker[v].input \in Inputs
    BY Zenon, <2>1, TaskFields
  <2>3. worker[v].input.seq # SequenceWidth
    BY SMT, <2>2, ConfigFacts DEF Inputs
  <2> QED
    BY Zenon, <1>4, <2>1, <2>2, <2>3, WidthFree, MeetsKept
<1>7. Tasked'
  BY Zenon, <1>1, <1>6 DEF Core, Tasked
<1>8. AutomaticIsAwaited'
  BY Zenon, <1>1, <1>3 DEF AutomaticIsAwaited, InFlight
<1> QED
  BY Zenon, <1>1, <1>3, <1>5, <1>7, <1>8 DEF Core, OwnerSettles

\* A step of a task on its own thread.
LEMMA RunStep ==
    ASSUME Core, NEW w \in Workers, Run(w)
    PROVE  Core' /\ OwnerSettles
BY ZenonT(60), StartStep, AdmitStep, FallBackStep, FailStep, ObserveStep, SleepStep,
   PreflightStep, FollowStep, TimeoutStep, PollStep, GiveUpStep, WakeStep DEF Run

\* Every step keeps the core, and settles only what its task owns.
LEMMA CoreStep ==
    ASSUME Core, selected \in Identities, [Next]_vars
    PROVE  Core' /\ OwnerSettles
<1>1. CASE UNCHANGED vars
  <2>1. svc' = svc /\ worker' = worker
    BY Zenon, <1>1 DEF vars
  <2> QED
    BY Zenon, <2>1 DEF Core, Tasked, AutomaticIsAwaited, Holds, InFlight, OwnerSettles
<1>2. ASSUME NEW w \in Workers, Step(w) \/ ListFails(w) \/ Complete(w)
      PROVE  Core' /\ OwnerSettles
  BY ZenonT(60), <1>2, ListStep, RunStep, NotifyStep, ListFailsStep, CompleteStep DEF Step
<1>3. ASSUME NEW resumed \in BOOLEAN, WakeUp(resumed, {}), svc' = svc
      PROVE  Core' /\ OwnerSettles
  BY Zenon, <1>3, WakeUpStep
<1>4. CASE SelectNetwork
  BY Zenon, <1>3, <1>4 DEF SelectNetwork
<1>5. CASE Resume
  BY Zenon, <1>3, <1>5 DEF Resume
<1> QED
  BY ZenonT(60), <1>1, <1>2, <1>4, <1>5, BackgroundStep, ExplicitRetryStep, TickStep
     DEF Next, Workers

\* Every step keeps the types of the environment.
LEMMA TypeStep ==
    ASSUME IInv, [Next]_vars
    PROVE  selected' \in Identities /\ hidden' \in BOOLEAN /\ events' \in 0..MaxEvents
<1>1. selected \in Identities /\ hidden \in BOOLEAN /\ events \in 0..MaxEvents
  BY Zenon DEF IInv
<1>2. events < MaxEvents /\ events' = events + 1 => events' \in 0..MaxEvents
  BY SMT, <1>1, DriverConfig
<1>3. CASE UNCHANGED vars
  BY Zenon, <1>1, <1>3 DEF vars
<1>4. ASSUME NEW w \in Workers, Step(w) \/ Complete(w)
      PROVE  UNCHANGED <<selected, hidden, events>>
  <2>1. Run(w) => UNCHANGED <<selected, hidden, events>>
    BY Zenon DEF Run, Start, Admit, FallBack, Fail, Observe, Rest, Preflight, Follow,
                 Timeout, Poll, GiveUp, Wake, Read, Write
  <2> QED
    BY Zenon, <1>4, <2>1 DEF Step, List, Notify, Complete, Read, Write
<1>5. ASSUME NEW w \in Workers, ListFails(w)
      PROVE  UNCHANGED <<selected, hidden>> /\ events' \in 0..MaxEvents
  BY Zenon, <1>2, <1>5 DEF ListFails
<1>6. CASE SelectNetwork
  BY Zenon, <1>1, <1>2, <1>6 DEF SelectNetwork, Event
<1>7. CASE Background
  BY Zenon, <1>1, <1>2, <1>7 DEF Background, Event
<1>8. CASE Resume
  BY Zenon, <1>1, <1>8 DEF Resume
<1>9. CASE ExplicitRetry
  BY Zenon, <1>1, <1>2, <1>9 DEF ExplicitRetry, Event
<1>10. CASE Tick
  BY Zenon, <1>1, <1>10 DEF Tick
<1> QED
  BY ZenonT(60), <1>1, <1>3, <1>4, <1>5, <1>6, <1>7, <1>8, <1>9, <1>10 DEF Next, Workers

\* Every step keeps the invariant.
LEMMA StepInv == IInv /\ [Next]_vars => IInv'
<1> SUFFICES ASSUME IInv, [Next]_vars PROVE IInv'
  OBVIOUS
<1>1. Core /\ selected \in Identities
  BY Zenon DEF IInv
<1>2. Core'
  BY Zenon, <1>1, CoreStep
<1> QED
  BY Zenon, <1>2, TypeStep DEF IInv

-----------------------------------------------------------------------------
(***************************************************************************)
(* Theorems                                                                *)
(***************************************************************************)

\* The driver's inductive invariant, over every interleaving of the critical
\* sections of the realm workers and of the retries on their own threads: the
\* service the tasks share is well formed, with its checkpoint at the active
\* realm, at most one request in flight and at most one preflight behind it;
\* the request a task executes or reports is the one in flight or none of the
\* policy's, and one that a poll reports without holding it is in flight only
\* past its deadline; and an automatic reconciliation in flight has a task
\* that awaits it.
THEOREM DriverInvariant == Spec => []IInv
BY InitInv, StepInv, PTL DEF Spec

\* The shared service and every task stay of their types: the freshness
\* sequence within its width, the retries within the for-loop of
\* execute_with_timeout, the sleeps within MaxAge, for every policy
\* configuration that WalletRealmLifecyclePolicyConfig::new accepts.
THEOREM TypeCorrect == Spec => []TypeOK
<1>1. IInv => TypeOK
  BY Zenon, GuardedType DEF IInv, Core, Sound, Tasked, TypeOK
<1> QED
  BY <1>1, DriverInvariant, PTL

\* No automatic reconciliation is ever abandoned in flight: whatever order
\* selections, wakes, answers, timeouts, polls and backgrounds come in, and
\* wherever a retry's critical sections fall between those of the others, a
\* request that is in flight and is no action preflight is awaited by a task
\* of the driver, for any number of tasks and realms.
THEOREM AwaitedAutomatic == Spec => []AutomaticIsAwaited
<1>1. IInv => AutomaticIsAwaited
  BY Zenon DEF IInv, Core
<1> QED
  BY <1>1, DriverInvariant, PTL

\* The request in flight is taken out only by the task that awaits it, by a
\* timeout past its deadline, by a background or by the selection of another
\* realm: the answer to an older request, however late, never settles it, and
\* neither does a poll that looked at the service before another request took
\* the slot.
THEOREM OwnerOnly == Spec => OnlyOwnerSettles
<1>1. IInv /\ [Next]_vars => OwnerSettles
  BY Zenon, CoreStep DEF IInv
<1>2. IInv /\ [Next]_vars
        => [InFlight # NoRequest /\ InFlight' # InFlight
              => \/ \E w \in Workers : Holds(w) /\ worker'[w] # worker[w]
                 \/ DeadlinePassed(svc.policy)
                 \/ ~svc'.policy.foreground
                 \/ svc'.policy.active # svc.policy.active]_vars
  BY Zenon, <1>1 DEF OwnerSettles
<1> QED
  BY <1>2, DriverInvariant, PTL DEF Spec, OnlyOwnerSettles
=============================================================================
