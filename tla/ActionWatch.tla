---------------------------- MODULE ActionWatch ----------------------------
(***************************************************************************)
(* WalletActionWatchRuntime (wallet/application/src/action_watch.rs): the  *)
(* single watch a selected realm may hold on a submitted transaction or on *)
(* an incoming arrival.  A worker holds the handle of the watch it was     *)
(* admitted with and presents it with every later call; a lifecycle        *)
(* boundary turns the watch into a recovery, the public identity a later   *)
(* generation asks the chain about.                                        *)
(*                                                                         *)
(* The runtime is one record, and each method is an operator from the      *)
(* record before the call to the record after it; RealmLifecycle holds the *)
(* record in its state.                                                    *)
(***************************************************************************)
EXTENDS Integers

CONSTANTS Identities,     \* the selected (profile, realm) pairs
          NoIdentity,     \* Option::None of an identity
          Chain,          \* transactions and accounts a watch can name
          MaxGeneration   \* stands for u64::MAX, where generations saturate

Kinds == {"Submitted", "Incoming"}

(* WalletActionWatch and WalletActionWatchRecovery carry the same public   *)
(* data.  `from' is starting_checkpoint, which a submitted transaction     *)
(* does not have.                                                          *)
Watches == [kind : {"Submitted"}, name : Chain, from : {0}]
             \cup [kind : {"Incoming"}, name : Chain, from : 0..1]
NoWatch == [kind |-> "None", name |-> "None", from |-> 0]

Observations == [kind : Kinds, name : Chain, at : 0..1]

WatchStates == {"Waiting", "Confirmed", "OutcomeUnknown", "OutcomeUnresolved",
                "Failed", "Expired", "Superseded", "Offline", "Degraded",
                "Cancelled"}

NoProjection == [kind |-> "None", state |-> "None", gen |-> 0]
Projections == [kind : Kinds, state : WatchStates, gen : 0..MaxGeneration]

NoHandle == [gen |-> 0, seq |-> 0]
NoActive == [watch |-> NoWatch, id |-> NoIdentity, handle |-> NoHandle]

(* WalletActionWatchRuntime::default() *)
NewWatchRuntime ==
  [identity |-> NoIdentity, gen |-> 0, seq |-> 0, active |-> NoActive,
   projection |-> NoProjection, suspended |-> FALSE]

Bump(n) == IF n >= MaxGeneration THEN n ELSE n + 1

(* Fault: an arrival at the starting checkpoint itself counts. *)
MatchesWatchAtStart(w, o) ==
  /\ w.kind = o.kind
  /\ w.name = o.name
  /\ w.kind = "Incoming" => o.at >= w.from

(* WalletActionWatchRecovery::matches and matches_watch, which agree. *)
MatchesWatch(w, o) ==
  /\ w.kind = o.kind
  /\ w.name = o.name
  /\ w.kind = "Incoming" => o.at > w.from

(* finish: takes the active watch, if there is one, and publishes how it   *)
(* ended.                                                                  *)
Finish(a, state) ==
  IF a.active = NoActive THEN a
  ELSE [a EXCEPT !.active = NoActive, !.suspended = FALSE,
                 !.projection = [kind |-> a.active.watch.kind, state |-> state,
                                 gen |-> a.active.handle.gen]]

(* finish_owned, for cancel, offline and degraded *)
FinishOwned(a, h, state) ==
  IF a.active # NoActive /\ a.active.handle = h THEN Finish(a, state) ELSE a

(* Fault: selecting another realm leaves the watch active. *)
SelectRealmKeepsWatch(a, id) ==
  IF a.identity = id THEN a
  ELSE [a EXCEPT !.projection = NoProjection, !.suspended = FALSE,
                 !.gen = Bump(a.gen), !.identity = id]

SelectRealm(a, id) ==
  IF a.identity = id THEN a
  ELSE [a EXCEPT !.active = NoActive, !.projection = NoProjection,
                 !.suspended = FALSE, !.gen = Bump(a.gen), !.identity = id]

(* admit: `live' is deadline_millis > now_millis. *)
AdmitWatch(a, w, live) ==
  LET f == [Finish(a, "Superseded") EXCEPT !.suspended = FALSE]
      shown(state) == [kind |-> w.kind, state |-> state, gen |-> a.gen]
      h == [gen |-> a.gen, seq |-> a.seq + 1]
  IN  IF a.identity = NoIdentity
        THEN [f EXCEPT !.projection = shown("Degraded")]
      ELSE IF ~live
        THEN [f EXCEPT !.projection = shown("Expired")]
      ELSE [f EXCEPT !.seq = h.seq,
                     !.active = [watch |-> w, id |-> a.identity, handle |-> h],
                     !.projection = shown("Waiting")]

(* observe: `late' is now_millis >= deadline_millis. *)
ObserveWatch(a, h, o, late) ==
  IF a.suspended \/ a.active = NoActive \/ a.active.handle # h THEN a
  ELSE IF late THEN Finish(a, "Expired")
  ELSE IF MatchesWatch(a.active.watch, o) THEN Finish(a, "Confirmed")
  ELSE a

(* timeout, past the deadline; before it the call changes nothing *)
TimeoutWatch(a, h) ==
  IF a.suspended THEN a ELSE FinishOwned(a, h, "Expired")

(* suspend and resume *)
SetSuspended(a, h, value) ==
  IF a.active # NoActive /\ a.active.handle = h
    THEN [a EXCEPT !.suspended = value] ELSE a

(* What a retained identity is shown as until its outcome is known. *)
UnknownState(kind) ==
  IF kind = "Submitted" THEN "OutcomeUnknown" ELSE "Offline"

(* lifecycle_boundary returns the recovery (BoundaryRecovery) and leaves   *)
(* the runtime as Boundary.                                                *)
BoundaryRecovery(a) == a.active.watch

Boundary(a) ==
  LET g == Bump(a.gen)
      b == [a EXCEPT !.gen = g, !.suspended = FALSE]
      k == a.active.watch.kind
  IN  IF a.active = NoActive THEN b
      ELSE [b EXCEPT !.active = NoActive,
                     !.projection = [kind |-> k, state |-> UnknownState(k),
                                     gen |-> g]]

(* restore_recovery, restore_realm and restore_unselected on the new       *)
(* runtime of a restarted process: `id' and `rec' may be absent.           *)
RestoreWatch(id, rec, g) ==
  [NewWatchRuntime EXCEPT
     !.identity = id, !.gen = g,
     !.projection = IF id = NoIdentity \/ rec = NoWatch THEN NoProjection
                    ELSE [kind |-> rec.kind, state |-> UnknownState(rec.kind),
                          gen |-> g]]

(* settle_recovery with Confirmed or Failed, and expire_recovery with      *)
(* OutcomeUnresolved                                                       *)
EndRecovery(a, kind, state) ==
  [a EXCEPT !.active = NoActive, !.suspended = FALSE,
            !.projection = [kind |-> kind, state |-> state, gen |-> a.gen]]

WatchRuntimes ==
  [identity : Identities \cup {NoIdentity}, gen : 0..MaxGeneration, seq : Nat,
   active : [watch : Watches \cup {NoWatch}, id : Identities \cup {NoIdentity},
             handle : [gen : 0..MaxGeneration, seq : Nat]],
   projection : Projections \cup {NoProjection}, suspended : BOOLEAN]
=============================================================================
