----------------------------- MODULE RealmDriver -----------------------------
(***************************************************************************)
(* The foreground driver of the lifecycle service,                         *)
(* ui-dioxus/src/wallet_realm_lifecycle.rs, composed with RealmLifecycle.  *)
(*                                                                         *)
(* A realm worker (drive_selected_realm_once) is spawned by each wake: it  *)
(* lists the networks on a blocking thread, sends the input the status     *)
(* calls for, awaits the reconciliation under a timeout, then sleeps until *)
(* the policy's next wakeup and wakes its successor, unless a newer wake   *)
(* has superseded it.  A retry worker (explicit_retry) is the user's own   *)
(* refresh: it selects the realm if needed, asks for an action preflight   *)
(* and waits for the service to become idle; whatever came of it, the user *)
(* interface then wakes the driver.                                        *)
(*                                                                         *)
(* The tasks share nothing but the service, whose mutex each call takes    *)
(* and releases: one action below is one such critical section.  The realm *)
(* workers and background() run on the thread of the user interface, where *)
(* a task keeps the thread from one await to the next (Turn); a retry runs *)
(* on a thread of its own (run_ui_future), and its critical sections       *)
(* interleave with everything.  The mutex is never poisoned.               *)
(***************************************************************************)
EXTENDS RealmLifecycle

CONSTANTS RealmWorkers, RetryWorkers,
          FirstRealm,  \* the network selected when the driver starts
          MaxDrained,  \* MAX_DRAINED_REQUESTS
          MaxTries,    \* the attempts of execute_with_timeout
          Answers,     \* facets a reconciliation may report
          MaxEvents    \* bound on what the user and the platform do, and on
                       \* the listings that fail

Workers == RealmWorkers \cup RetryWorkers

ASSUME DriverConfig ==
  /\ RealmWorkers \cap RetryWorkers = {}
  /\ RealmWorkers # {}
  /\ FirstRealm \in Identities
  /\ MaxDrained \in Nat \ {0}
  /\ MaxTries \in Nat /\ MaxTries > 1
  /\ Answers \subseteq Facets
  /\ MaxEvents \in Nat

VARIABLES svc,       \* the state behind the service's mutex
          selected,  \* the network store's selected identity
          worker,    \* the tasks
          hidden,    \* the platform has put the application in background
          events     \* how many of those events so far

vars == <<svc, selected, worker, hidden, events>>

(* A task.  `pc' names the critical section or the await it is at, `stage' *)
(* what its call of execute_with_timeout is for; `input' is what it is     *)
(* about to send, `req' the request it executes or reports, `facets' what  *)
(* a failed request reports.  `matched' is false once a timeout was        *)
(* reported of a request no longer in flight, `retained' says that the     *)
(* preflight was.  `left' and `outer' are the time left of its timeout or  *)
(* sleep and of the idle wait around it, `current' that no later wake has  *)
(* superseded its own.                                                     *)
NoInput == Input("None")
Free == [pc |-> "free", stage |-> "rest", id |-> NoIdentity, input |-> NoInput,
         req |-> NoRequest, facets |-> "Stale", proj |-> FALSE, err |-> FALSE,
         matched |-> TRUE, retained |-> FALSE, drained |-> 0, try |-> 0,
         left |-> 0, outer |-> 0, resumed |-> FALSE, current |-> FALSE]
Spawned(resumed, current) ==
  [Free EXCEPT !.pc = "list", !.resumed = resumed, !.current = current]

Init ==
  /\ svc = NewService
  /\ selected = FirstRealm
  /\ LET first == CHOOSE w \in RealmWorkers : TRUE
     IN  worker = [w \in Workers |-> IF w = first THEN Spawned(FALSE, TRUE)
                                     ELSE Free]
  /\ hidden = FALSE
  /\ events = 0

InFlight == svc.policy.in_flight
Pending == svc.policy.pending

Go(w, task) == worker' = [worker EXCEPT ![w] = task]
Read(w, task) == Go(w, task) /\ UNCHANGED <<svc, selected, hidden, events>>
Write(w, s, task) ==
  Go(w, task) /\ svc' = s /\ UNCHANGED <<selected, hidden, events>>

----------------------------------------------------------------------------
(* Where a task goes *)

(* A task between two calls keeps its stage, its idle wait and its wake. *)
At(t, pc) ==
  [Free EXCEPT !.pc = pc, !.stage = t.stage, !.retained = t.retained,
               !.outer = t.outer, !.current = t.current]

(* A retry is over. *)
Ended == [Free EXCEPT !.pc = "ended"]

(* execute_with_timeout is called. *)
Executing(t, stage, in) ==
  [At(t, "begin") EXCEPT !.stage = stage, !.input = in, !.retained = FALSE,
                         !.try = 1]

(* execute_with_timeout has returned, `ok' or not. *)
Returned(t, ok) ==
  IF t.stage = "rest" THEN At(t, "rest")
  ELSE IF ~ok THEN Ended
  ELSE IF t.stage = "select" THEN At(t, "preflight")
  ELSE IF t.stage = "preflight" THEN At(t, "after")
  ELSE At(t, "idle")

(* The first poll of the future: the task awaits the sync call. *)
Await(t, req) ==
  [t EXCEPT !.pc = "sync", !.input = NoInput, !.req = req, !.drained = 1,
            !.left = RequestTimeout]

(* The future has completed. *)
Finished(t) ==
  IF t.err \/ ~t.matched THEN Returned(t, FALSE)
  ELSE IF t.proj THEN [t EXCEPT !.pc = "observe"]
  ELSE Returned(t, TRUE)

(* execute_admitted past a settle that exposed `req': drain it, or, at the *)
(* limit, settle it as a failure and return.                               *)
Drained(t, req) ==
  IF t.drained > MaxDrained THEN Returned(t, FALSE)
  ELSE IF req = NoRequest THEN Finished(t)
  ELSE [t EXCEPT !.pc = IF t.drained = MaxDrained THEN "failed" ELSE "sync",
                 !.req = req, !.drained = @ + 1]


(* initial_input; preflight_selection_input for a realm not selected yet *)
InitialInput(s, t) ==
  LET known == s.checkpoint.identity
  IN  IF known = NoIdentity THEN Selected("Initialized", t.id, "Stale")
      ELSE IF known # t.id THEN Selected("RealmSelected", t.id, "Stale")
      ELSE IF t.resumed THEN Signal("Foreground", s.checkpoint.facets)
      ELSE Signal("PeriodicTick", s.checkpoint.facets)

----------------------------------------------------------------------------
(* A realm worker ends.  With a current one ends the chain of wakes: the   *)
(* driver is "stopped" until something else wakes it.                      *)
Stopped(t) == [Free EXCEPT !.pc = IF t.current THEN "stopped" ELSE "free"]

(* selected_identity_and_status: the blocking thread lists the networks.   *)
CanList(w) == worker[w].pc = "list"
List(w) ==
  /\ CanList(w)
  /\ Read(w, [worker[w] EXCEPT !.pc = "listed", !.id = selected])

(* An error ends the task. *)
ListFails(w) ==
  /\ CanList(w)
  /\ events < MaxEvents
  /\ events' = events + 1
  /\ Go(w, IF w \in RetryWorkers THEN Ended ELSE Stopped(worker[w]))
  /\ UNCHANGED <<svc, selected, hidden>>

(* The status that goes with the listing decides what the task sends. *)
CanStart(w) == worker[w].pc = "listed"
Start(w) ==
  /\ CanStart(w)
  /\ LET t == worker[w]
     IN  Read(w, IF w \in RealmWorkers
                   THEN Executing(t, "rest", InitialInput(svc, t))
                 ELSE IF svc.checkpoint.identity = t.id THEN At(t, "preflight")
                 ELSE Executing(t, "select", InitialInput(svc, t)))

(* Sequences are modulo SequenceWidth, so an input that may take the next  *)
(* one waits while another task still holds it: 2^64 requests are not      *)
(* admitted within one request timeout.                                    *)
SequenceRoom(w) ==
  \/ worker[w].input.name \notin Selections \cup Signals
  \/ \A v \in Workers \ {w} :
       NextSequence(svc.policy) \notin {worker[v].req.seq, worker[v].input.seq}

(* begin(input), the admit of it, and the first poll of its future.  A     *)
(* refused input is an error.                                              *)
CanAdmit(w) == worker[w].pc = "begin" /\ SequenceRoom(w)
Admit(w) ==
  /\ CanAdmit(w)
  /\ LET t == worker[w]
         b == Begin(svc, t.input)
         retained == b.svc.policy.pending \notin {NoRequest, svc.policy.pending}
     IN  Write(w, b.svc,
               IF ~b.ok THEN Returned(t, FALSE)
               ELSE IF b.req # NoRequest THEN Await(t, b.req)
               ELSE Returned([t EXCEPT !.retained = retained], t.matched))

(* The sync call answers, with facets or an error; nothing makes it answer *)
(* at all.  A success is settled.                                          *)
Complete(w) ==
  /\ worker[w].pc = "sync"
  /\ \/ Read(w, [worker[w] EXCEPT !.pc = "failed"])
     \/ \E facets \in Answers :
          LET t == worker[w]
              r == Settle(svc, t.req, facets, TRUE)
              c == Current(svc, t.req)
          IN  Write(w, r.svc, Drained([t EXCEPT !.proj = @ \/ c,
                                                !.err = @ /\ ~c], r.req))

(* A failure reports the facets the service has. *)
CanFallBack(w) == worker[w].pc = "failed"
FallBack(w) ==
  /\ CanFallBack(w)
  /\ Read(w, [worker[w] EXCEPT
                !.pc = "settle",
                !.facets = FallbackFacets(svc, worker[w].req.id)])

CanFail(w) == worker[w].pc = "settle"
Fail(w) ==
  /\ CanFail(w)
  /\ LET t == worker[w]
         r == Settle(svc, t.req, t.facets, FALSE)
     IN  Write(w, r.svc,
               Drained([t EXCEPT !.err = @ \/ Current(svc, t.req),
                                 !.facets = "Stale"], r.req))

(* observe_successful_completion: the status it sends back. *)
CanObserve(w) == worker[w].pc = "observe"
Observe(w) ==
  /\ CanObserve(w)
  /\ Read(w, LET t == worker[w]
             IN  Executing(t, t.stage, [Input("ReconciliationObserved") EXCEPT
                              !.id = t.req.id, !.facets = svc.checkpoint.facets]))

(* Fault: the timeout drops the future without reporting it. *)
TimeoutSilently(w) ==
  /\ worker[w].pc = "sync"
  /\ worker[w].left = 0
  /\ Read(w, Returned(worker[w], FALSE))

(* The timeout of execute_with_timeout: the request is looked up to be     *)
(* reported as timed out, unless this was the last attempt.  tokio polls   *)
(* the inner timeout before the idle wait's own.                           *)
CanTimeout(w) == worker[w].pc = "sync" /\ worker[w].left = 0
Timeout(w) ==
  /\ CanTimeout(w)
  /\ LET t == worker[w]
     IN  Read(w, IF t.try = MaxTries THEN Returned(t, FALSE)
                 ELSE [At(t, "begin") EXCEPT
                         !.input = TimedOut(t.req), !.req = t.req,
                         !.matched = /\ InFlight.id = t.req.id
                                     /\ InFlight.seq = t.req.seq,
                         !.try = t.try + 1])


(* A realm worker at rest: next_driver_wait_millis.  While a request is in *)
(* flight it looks again after at most one poll interval.                  *)
CanRest(w) == worker[w].pc = "rest"
Rest(w) ==
  /\ CanRest(w)
  /\ LET due == NextWakeup(svc.policy)
         sleep(left) == [At(worker[w], "sleep") EXCEPT !.left = left]
     IN  Read(w, IF due # Never THEN sleep(Max({due, 1}))
                 ELSE IF InFlight # NoRequest THEN sleep(1)
                 ELSE Stopped(worker[w]))

(* explicit_retry: the status whose facets the preflight carries. *)
CanPreflight(w) == worker[w].pc = "preflight"
Preflight(w) ==
  /\ CanPreflight(w)
  /\ Read(w, Executing(worker[w], "preflight",
                       Signal("ActionPreflight", svc.checkpoint.facets)))

(* preflight_requires_idle_wait *)
CanFollow(w) == worker[w].pc = "after"
Follow(w) ==
  /\ CanFollow(w)
  /\ Read(w, IF worker[w].retained \/ InFlight # NoRequest
               THEN [Free EXCEPT !.pc = "idle", !.stage = "idle",
                                 !.outer = 2 * RequestTimeout]
               ELSE Ended)

(* One poll of the idle wait, its status: the request past its deadline is *)
(* to be timed out.                                                        *)
CanPoll(w) ==
  /\ worker[w].pc = "idle"
  /\ InFlight = NoRequest \/ DeadlinePassed(svc.policy)
Poll(w) ==
  /\ CanPoll(w)
  /\ Read(w, IF InFlight = NoRequest THEN Ended
             ELSE Executing(worker[w], "idle", TimedOut(InFlight)))

(* The idle wait's own timeout drops whatever it was awaiting. *)
CanGiveUp(w) ==
  /\ \/ worker[w].pc = "idle"
     \/ worker[w].pc = "sync" /\ worker[w].stage = "idle" /\ worker[w].left > 0
  /\ worker[w].outer = 0
GiveUp(w) == CanGiveUp(w) /\ Read(w, Ended)

(* The sleep ends: advance_lifecycle_wake_if_current spawns the successor. *)
CanWake(w) == worker[w].pc = "sleep" /\ worker[w].left = 0
Wake(w) ==
  /\ CanWake(w)
  /\ Read(w, IF worker[w].current THEN Spawned(FALSE, TRUE) ELSE Free)

(* A wake from outside supersedes every sleeping timer.  The tasks in      *)
(* `gone' end with it.                                                     *)
Waking == \E w \in RealmWorkers : worker[w].pc \in {"free", "stopped"}
WakeUp(resumed, gone) ==
  \E w \in RealmWorkers :
    /\ worker[w].pc \in {"free", "stopped"}
    /\ worker' = [v \in Workers |->
                    IF v = w THEN Spawned(resumed, TRUE)
                    ELSE IF v \in gone \/ worker[v].pc = "stopped" THEN Free
                    ELSE [worker[v] EXCEPT !.current = FALSE]]

(* The user interface takes the outcome of a retry and wakes the driver. *)
CanNotify(w) == worker[w].pc = "ended" /\ Waking
Notify(w) ==
  /\ CanNotify(w)
  /\ WakeUp(FALSE, {w})
  /\ UNCHANGED <<svc, selected, hidden, events>>

----------------------------------------------------------------------------
(* The thread of the user interface is taken while a realm worker is       *)
(* between two awaits (but not while it waits for a sequence).             *)
Busy(w) ==
  CanAdmit(w) \/ CanFallBack(w) \/ CanFail(w) \/ CanObserve(w) \/ CanRest(w)
UiFree == \A w \in RealmWorkers : ~Busy(w)
Turn(w) == Busy(w) \/ UiFree

Event == UiFree /\ events < MaxEvents /\ events' = events + 1

(* The user selects another network. *)
SelectNetwork ==
  /\ Event
  /\ ~hidden
  /\ selected' \in Identities \ {selected}
  /\ WakeUp(FALSE, {})
  /\ UNCHANGED <<svc, hidden>>

(* background(): the platform's call, outside the tasks *)
Background ==
  /\ Event
  /\ ~hidden
  /\ hidden' = TRUE
  /\ svc' = Begin(svc, Input("Backgrounded")).svc
  /\ UNCHANGED <<selected, worker>>

Resume ==
  /\ UiFree
  /\ hidden
  /\ hidden' = FALSE
  /\ WakeUp(TRUE, {})
  /\ UNCHANGED <<svc, selected, events>>

ExplicitRetry ==
  /\ Event
  /\ ~hidden
  /\ \E w \in RetryWorkers : /\ worker[w].pc = "free"
                             /\ Go(w, Spawned(FALSE, FALSE))
  /\ UNCHANGED <<svc, selected, hidden>>

(* Time passes; a local step never outlasts one unit of it. *)
Local(w) ==
  CanList(w) \/ CanStart(w) \/ CanAdmit(w) \/ CanFallBack(w) \/ CanFail(w)
    \/ CanObserve(w) \/ CanRest(w) \/ CanPreflight(w) \/ CanFollow(w)
Tick ==
  /\ \A w \in Workers : ~Local(w)
  /\ svc' = Age(svc)
  /\ worker' = [w \in Workers |->
                  [worker[w] EXCEPT !.left = Max({@ - 1, 0}),
                                    !.outer = Max({@ - 1, 0})]]
  /\ UNCHANGED <<selected, hidden, events>>

(* What a task does on its own thread, the blocking listing apart. *)
Run(w) ==
  \/ Start(w) \/ Admit(w) \/ FallBack(w) \/ Fail(w) \/ Observe(w) \/ Rest(w)
  \/ Preflight(w) \/ Follow(w) \/ Timeout(w) \/ Poll(w) \/ GiveUp(w) \/ Wake(w)
Step(w) ==
  \/ List(w)
  \/ w \in RealmWorkers /\ Turn(w) /\ Run(w)
  \/ w \in RetryWorkers /\ Run(w)
  \/ UiFree /\ Notify(w)

(* The task can go on, as soon as it has its thread. *)
Ready(w) ==
  Local(w) \/ CanTimeout(w) \/ CanPoll(w) \/ CanGiveUp(w) \/ CanWake(w)
    \/ CanNotify(w)

Next ==
  \/ \E w \in Workers : Step(w) \/ ListFails(w)
  \/ \E w \in RealmWorkers : Turn(w) /\ Complete(w)
  \/ \E w \in RetryWorkers : Complete(w)
  \/ SelectNetwork \/ Background \/ Resume \/ ExplicitRetry \/ Tick

(* A task that can go on does, in the end: both executors poll every ready *)
(* task, and no task keeps its thread.  Timers fire, and the platform      *)
(* brings the application back to the foreground.  A sync call need never  *)
(* answer.                                                                 *)
Fairness ==
  /\ \A w \in Workers : []<>~Ready(w) \/ []<><<Step(w)>>_vars
  /\ WF_vars(Tick)
  /\ WF_vars(Resume)

Spec == Init /\ [][Next]_vars /\ Fairness

----------------------------------------------------------------------------
Inputs ==
  [name : Selections \cup Signals \cup {"None", "ReconciliationObserved",
                                        "ReconciliationTimedOut"},
   id : Identities \cup {NoIdentity}, seq : 0..SequenceWidth - 1,
   facets : Facets]
Tasks ==
  [pc : {"free", "stopped", "list", "listed", "begin", "sync", "failed",
         "settle", "observe", "rest", "sleep", "preflight", "after", "idle",
         "ended"},
   stage : {"rest", "select", "preflight", "idle"},
   id : Identities \cup {NoIdentity}, input : Inputs,
   req : Requests \cup {NoRequest}, facets : Facets, proj : BOOLEAN,
   err : BOOLEAN, matched : BOOLEAN, retained : BOOLEAN,
   drained : 0..MaxDrained + 1, try : 0..MaxTries, left : 0..MaxAge,
   outer : 0..2 * RequestTimeout, resumed : BOOLEAN, current : BOOLEAN]

(* Type correctness of the service's guarded state and of the driver tasks. *)
TypeOK ==
  /\ svc \in Services
  /\ selected \in Identities
  /\ worker \in [Workers -> Tasks]
  /\ hidden \in BOOLEAN
  /\ events \in 0..MaxEvents

(* The task executes the request in flight, or is about to report it. *)
Holds(w) ==
  /\ worker[w].pc \in {"begin", "sync", "failed", "settle"}
  /\ worker[w].req = InFlight

(* The policy asks for a wakeup, now or when the request in flight ends. *)
Due ==
  /\ svc.policy.foreground
  /\ svc.policy.active # NoIdentity
  /\ svc.policy.retry_count < RetryCeiling
(* Something is in flight, and no automatic request beyond its deadline. *)
Refreshing ==
  /\ InFlight # NoRequest
  /\ DeadlinePassed(svc.policy) => InFlight.trigger = "ActionPreflight"
ChainStopped == \E w \in RealmWorkers : worker[w].pc = "stopped"

(* The comment on use_wallet_realm_lifecycle_driver rules out that a wake  *)
(* orphans an admitted reconciliation.  Whatever wakes, timeouts and drains *)
(* interleave, an automatic reconciliation in flight is always awaited by  *)
(* some task; only a preflight can be left behind, by the timeout of an    *)
(* idle wait.                                                              *)
AutomaticIsAwaited ==
  InFlight # NoRequest /\ InFlight.trigger # "ActionPreflight"
    => \E w \in Workers : Holds(w)

(* A request leaves the in-flight slot only through the task that awaits   *)
(* it, a timeout of that very request past its deadline, a background, or  *)
(* the selection of another realm: an answer to an older request (from     *)
(* before a timeout, a background or a realm switch) never settles a newer *)
(* one.                                                                    *)
OnlyOwnerSettles ==
  [][InFlight # NoRequest /\ InFlight' # InFlight
       => \/ \E w \in Workers : Holds(w) /\ worker'[w] # worker[w]
          \/ DeadlinePassed(svc.policy)
          \/ ~svc'.policy.foreground
          \/ svc'.policy.active # svc.policy.active]_vars

(* A retained action preflight is executed, unless a background or another *)
(* realm drops it: no interleaving of timeouts and answers loses it, or    *)
(* leaves it retained for ever.                                            *)
RetainedIsServed ==
  /\ [][Pending \notin {NoRequest, Pending'}
          => \/ \E w \in Workers : Holds(w)' /\ worker'[w].req = Pending
             \/ ~svc'.policy.foreground
             \/ svc'.policy.active # svc.policy.active]_vars
  /\ []<>(Pending = NoRequest)



(* The comment on use_wallet_realm_lifecycle_driver: "concurrent wakes are *)
(* serialized by the lifecycle policy's retained-request drain".  Read as  *)
(* a promise about what the wakes are for: once the user stops selecting,  *)
(* the service ends on the realm selected last.                            *)
SelectionConverges == <>[](svc.checkpoint.identity = selected)

(* The comment on the execution of the first input: "Keep this sole driver *)
(* alive so it can observe that next wakeup".  While a wakeup is due, some *)
(* reconciliation follows.                                                 *)
DriverStaysAlive == Due ~> InFlight # NoRequest \/ ~Due

(* The reading of the driver's comment that an orphaned reconciliation is  *)
(* one only "until its timeout": whatever is in flight is settled in the   *)
(* end.                                                                    *)
EveryRequestSettles ==
  \A n \in 1..SequenceWidth - 1 : InFlight.seq = n ~> InFlight.seq # n
=============================================================================
