--------------------------- MODULE ActionRecovery ---------------------------
(***************************************************************************)
(* The action watch under lifecycle boundaries, realm changes, process     *)
(* death and restart: RealmLifecycle with the workers that hold watch      *)
(* handles (ui-dioxus/src/selected_realm_sync/action_watch.rs), the        *)
(* adapter that asks the chain about a retained identity and the one that  *)
(* saves and restores the snapshot (wallet/application/src/                *)
(* realm_lifecycle_runtime.rs).                                            *)
(*                                                                         *)
(* The service's reconciliations matter here only through the facets they  *)
(* leave: time stands still, and a request in flight may be answered at    *)
(* any point.  RealmDriver treats them in detail.                          *)
(***************************************************************************)
EXTENDS RealmLifecycle

CONSTANTS Admissible,  \* the watches the user may start
          MaxWatches,  \* bound on admissions in one process
          MaxQueries,  \* bound on outstanding chain queries
          MaxCrashes   \* bound on process deaths

ASSUME RecoveryConfig ==
  /\ Admissible \subseteq Watches
  /\ {MaxWatches, MaxQueries, MaxCrashes} \subseteq Nat

VARIABLES svc,      \* the state behind the service's mutex
          workers,  \* live watch workers: the handle and the watch of each
          queries,  \* answers of the chain on their way to the service
          fate,     \* the chain: what became of each transaction
          cursor,   \* the chain: how far each account has progressed
          crashes,
          subject,  \* history: the watch the projection is about
          realm     \* history: the realm that watch was admitted in

vars == <<svc, workers, queries, fate, cursor, crashes, subject, realm>>

Init ==
  /\ svc = NewService
  /\ workers = {}
  /\ queries = {}
  /\ fate = [x \in Chain |-> "Pending"]
  /\ cursor = [x \in Chain |-> 0]
  /\ crashes = 0
  /\ subject = NoWatch
  /\ realm = NoIdentity

----------------------------------------------------------------------------
(* The chain *)

chain == <<fate, cursor>>

Finalize(x) ==
  /\ fate[x] = "Pending"
  /\ \E end \in {"Confirmed", "Failed"} : fate' = [fate EXCEPT ![x] = end]
  /\ UNCHANGED <<svc, workers, queries, cursor, crashes, subject, realm>>

Arrive(x) ==
  /\ cursor[x] = 0
  /\ cursor' = [cursor EXCEPT ![x] = 1]
  /\ UNCHANGED <<svc, workers, queries, fate, crashes, subject, realm>>

(* What the chain now says of a watched identity. *)
Seen(w) == [kind |-> w.kind, name |-> w.name,
            at |-> IF w.kind = "Incoming" THEN cursor[w.name] ELSE 0]
Outcome(w) == IF w.kind = "Incoming" THEN "Confirmed" ELSE fate[w.name]

(* What a watch may truthfully be reported as. *)
Truthful(w, state) ==
  IF w.kind = "Incoming" THEN state = "Confirmed" /\ cursor[w.name] > w.from
  ELSE state = fate[w.name]

----------------------------------------------------------------------------
(* Lifecycle inputs.  Generations are bounded: u64::MAX is never reached.  *)

GenerationRoom == svc.gen < MaxGeneration - 1

Send(in) ==
  /\ svc' = Begin(svc, in).svc
  /\ UNCHANGED <<workers, queries, chain, crashes, subject, realm>>

Select(id) ==
  /\ GenerationRoom
  /\ Send(Selected(IF svc.checkpoint.identity = NoIdentity THEN "Initialized"
                   ELSE "RealmSelected", id, "Stale"))

Backgrounded == GenerationRoom /\ Send(Input("Backgrounded"))

Foreground == Send(Signal("Foreground", svc.checkpoint.facets))

(* The request in flight is answered. *)
Reconciled ==
  /\ svc.policy.in_flight # NoRequest
  /\ LET req == svc.policy.in_flight
         facets(ok) == IF ok THEN "Fresh" ELSE FallbackFacets(svc, req.id)
     IN  \E ok \in BOOLEAN : svc' = Settle(svc, req, facets(ok), ok).svc
  /\ UNCHANGED <<workers, queries, chain, crashes, subject, realm>>

----------------------------------------------------------------------------
(* Watch workers *)

Watch(a) ==
  /\ svc' = [svc EXCEPT !.watch = a]
  /\ UNCHANGED <<queries, chain, crashes>>

(* admit_action_watch; it answers UnresolvedAction while a recovery is     *)
(* retained.                                                               *)
AdmitAction(w, live) ==
  LET a == AdmitWatch(svc.watch, w, live)
  IN  /\ svc.recovery = NoWatch
      /\ svc.watch.seq < MaxWatches
      /\ Watch(a)
      /\ workers' = IF a.active = NoActive THEN workers
                    ELSE workers \cup {[h |-> a.active.handle, w |-> w]}
      /\ subject' = w
      /\ realm' = a.identity

(* A worker's last call.  It observes what the chain shows of its own      *)
(* watch: an included transaction, an account past the checkpoint it       *)
(* started from.                                                           *)
Last(k, a) == Watch(a) /\ workers' = workers \ {k} /\ UNCHANGED <<subject, realm>>

ObserveAction(k, late) ==
  /\ Truthful(k.w, "Confirmed")
  /\ Last(k, ObserveWatch(svc.watch, k.h, Seen(k.w), late))

TimeoutAction(k) == Last(k, TimeoutWatch(svc.watch, k.h))

EndAction(k) ==
  \E state \in {"Cancelled", "Offline", "Degraded"} :
    Last(k, FinishOwned(svc.watch, k.h, state))

SuspendAction(k, value) ==
  /\ Watch(SetSuspended(svc.watch, k.h, value))
  /\ UNCHANGED <<workers, subject, realm>>

----------------------------------------------------------------------------
(* Recovery *)

(* The adapter reads the retained identity and the generation from status  *)
(* and asks the chain; the answer travels on its own.                      *)
QueryRecovery ==
  /\ svc.recovery # NoWatch
  /\ \A q \in queries : q.gen # svc.gen \/ q.seen # Seen(svc.recovery)
                          \/ q.outcome # Outcome(svc.recovery)
  /\ Cardinality(queries) < MaxQueries
  /\ queries' = queries \cup
       {[gen |-> svc.gen, seen |-> Seen(svc.recovery),
         outcome |-> Outcome(svc.recovery)]}
  /\ UNCHANGED <<svc, workers, chain, crashes, subject, realm>>

AnswerRecovery(q) ==
  /\ svc' = ReconcileRecovery(svc, q.gen, q.seen, q.outcome)
  /\ queries' = queries \ {q}
  /\ UNCHANGED <<workers, chain, crashes, subject, realm>>

ExpireAction ==
  /\ svc.recovery # NoWatch
  /\ svc' = ExpireRecovery(svc)
  /\ UNCHANGED <<workers, queries, chain, crashes, subject, realm>>

(* The process dies, workers and queries with it, and the next one         *)
(* restores the last snapshot that checkpoint() gave to the platform, or   *)
(* starts afresh when there is none or it is refused.  Only the snapshot   *)
(* and the chain outlive a process, so one saved earlier is the crash at   *)
(* the point of saving, followed by what the chain did since.              *)
Crash(checkpointed) ==
  LET usable == checkpointed /\ Restorable(Snapshot(svc))
  IN  /\ crashes < MaxCrashes
      /\ crashes' = crashes + 1
      /\ workers' = {}
      /\ queries' = {}
      /\ svc' = IF usable THEN Restore(Snapshot(svc)) ELSE NewService
      /\ subject' = IF usable THEN subject ELSE NoWatch
      /\ realm' = IF usable THEN realm ELSE NoIdentity
      /\ UNCHANGED chain

Next ==
  \/ \E x \in Chain : Finalize(x) \/ Arrive(x)
  \/ \E id \in Identities : Select(id)
  \/ Backgrounded \/ Foreground \/ Reconciled
  \/ \E w \in Admissible, live \in BOOLEAN : AdmitAction(w, live)
  \/ \E k \in workers : \/ \E late \in BOOLEAN : ObserveAction(k, late)
                        \/ TimeoutAction(k)
                        \/ EndAction(k)
                        \/ \E value \in BOOLEAN : SuspendAction(k, value)
  \/ QueryRecovery
  \/ \E q \in queries : AnswerRecovery(q)
  \/ ExpireAction
  \/ \E checkpointed \in BOOLEAN : Crash(checkpointed)

Spec == Init /\ [][Next]_vars

----------------------------------------------------------------------------
Handles == [gen : 0..MaxGeneration, seq : 0..MaxWatches]

(* Type correctness of the service, the workers and the queries. *)
TypeOK ==
  /\ svc \in Services
  /\ \A k \in workers : k.h \in Handles /\ k.w \in Watches
  /\ \A q \in queries : q.gen \in 0..MaxGeneration /\ q.seen \in Observations
  /\ fate \in [Chain -> {"Pending", "Confirmed", "Failed"}]
  /\ cursor \in [Chain -> 0..1]
  /\ crashes \in 0..MaxCrashes
  /\ subject \in Watches \cup {NoWatch}
  /\ realm \in Identities \cup {NoIdentity}

(* The debug assertions of finish, at every point where it could be        *)
(* called: an active watch belongs to the current generation and the       *)
(* current realm.  Beyond them, no watch is active while an unresolved one *)
(* is retained, and the service's generation is the watch runtime's.       *)
WatchIsCurrent ==
  /\ svc.watch.active # NoActive =>
       /\ svc.watch.active.handle.gen = svc.watch.gen
       /\ svc.watch.active.id = svc.watch.identity
       /\ svc.recovery = NoWatch
  /\ svc.gen = svc.watch.gen

(* WalletActionRecoveryOutcome: "merely finding the identity is not        *)
(* success".  Whatever stale handles, late answers and restarts do, a      *)
(* watch is shown as confirmed or failed only if the chain says so of that *)
(* very watch.                                                             *)
OutcomeIsTrue ==
  svc.watch.projection.state \in {"Confirmed", "Failed"}
    => Truthful(subject, svc.watch.projection.state)

(* A retained submission stays with the realm it was made in: neither a    *)
(* selection nor a restart moves the service to another realm under it, so *)
(* its outcome is asked of the right network.                              *)
RecoveryKeepsRealm ==
  svc.recovery # NoWatch =>
    /\ svc.recovery = subject
    /\ {svc.checkpoint.identity, svc.watch.identity, svc.policy.active} = {realm}

(* ADR-0116: a submission that lost observation is unknown, not failed,    *)
(* until it is reconciled.  Within a process a retained identity is        *)
(* dropped only by showing its outcome or that it stayed unresolved.       *)
RecoveryIsAnswered ==
  [][svc.recovery # NoWatch /\ svc'.recovery # svc.recovery /\ crashes' = crashes
       => /\ svc'.recovery = NoWatch
          /\ svc'.watch.projection.state
               \in {"Confirmed", "Failed", "OutcomeUnresolved"}]_vars

(* The comment in admit: a foreground activation spends an attempt but may *)
(* still perform it, "so all configured attempts remain usable".  A        *)
(* process that dies during any of them must then find a snapshot that     *)
(* restore accepts.                                                        *)
AttemptsAreUsable ==
  svc.recovery # NoWatch /\ svc.gen < MaxGeneration => Restorable(Snapshot(svc))
=============================================================================
