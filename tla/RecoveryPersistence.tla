------------------------- MODULE RecoveryPersistence -------------------------
(***************************************************************************)
(* The persistence worker of composition/src/dust_settlement.rs: one       *)
(* thread saves the public DUST-registration record of every published     *)
(* projection.  Ordinary records are coalesced in one slot; a Submitting   *)
(* record has a slot of its own and, once saved, is pinned: the worker     *)
(* saves nothing else until the executor that waits for it lets go.        *)
(*                                                                         *)
(* The atomics of RecoveryPersistenceState and the worker's locals are one *)
(* record, rp.  Only the worker makes held nonzero and only an enqueue     *)
(* clears durable, so reading held and taking a job is one step, and so is *)
(* a save with the flags that follow it: every interleaving inside them    *)
(* ends in a state that an interleaving around them reaches.  The counter  *)
(* persisted_submission_generation is written and never read: it is left   *)
(* out.                                                                    *)
(***************************************************************************)
EXTENDS Integers, FiniteSets

CONSTANT MaxJobs   \* generations handed out; the counter is a u64 in the code

ASSUME JobsAssumption == MaxJobs \in Nat \ {0}

VARIABLES
  rp,      \* RecoveryPersistenceState, with the worker's locals
  store    \* the durable record

CONSTANT NoRecord   \* the store before its first save, and after a clear

\* Generation 0 is the "none" of every slot: the first job has generation 1.
NoJob == [generation |-> 0, barrier |-> FALSE, record |-> NoRecord]
Present(job) == job.generation # 0

PersistenceInit(durable) ==
  [submission |-> NoJob, latest |-> NoJob, next |-> 0, persisted |-> 0,
   latestGeneration |-> 0, persistedLatest |-> 0, failedLatest |-> 0,
   required |-> 0, failedSubmission |-> 0, held |-> 0, released |-> 0,
   durable |-> durable, wake |-> FALSE, asleep |-> {},
   at |-> "recv", job |-> NoJob]

Larger(a, b) == IF a >= b THEN a ELSE b

\* Fault: the waiters are never told.
NotifiedNobody(p) == p

\* changed.notify_waiters(): every waiter that has armed its notification.
Notified(p) == [p EXCEPT !.asleep = {}]

\* reject_generation: the submission of this generation can never be durable.
RejectGeneration(p, g) ==
  Notified([p EXCEPT !.required = g, !.durable = FALSE,
                     !.failedSubmission = Larger(@, g)])

RejectCurrent(p) == RejectGeneration([p EXCEPT !.next = @ + 1], p.next + 1)

\* enqueue: the slot, the flags and the wake-up under the slot's lock.  The
\* worker never ends while a sender lives, so the channel is never closed.
Enqueue(p, r, barrier) ==
  LET g == p.next + 1
      job == [generation |-> g, barrier |-> barrier, record |-> r]
  IN  IF barrier
        THEN [p EXCEPT !.next = g, !.required = g, !.durable = FALSE,
                       !.submission = job, !.wake = TRUE]
        ELSE [p EXCEPT !.next = g, !.latestGeneration = g,
                       !.latest = job, !.wake = TRUE]

\* release_submission: lets the worker go on when it is still pinned here.
Release(p, g) ==
  LET released == Larger(p.released, g)
      q == [p EXCEPT !.released = released]
  IN  IF p.held = 0 \/ p.held > released
        THEN q
        ELSE [q EXCEPT !.held = 0, !.wake = TRUE]

\* await_submission, after its target is read: the pinned generation to use,
\* 0 for a record that cannot become durable, or nothing yet.
Pinned(p, target) == p.durable /\ p.held >= target
Refused(p, target) == target = 0 \/ (~Pinned(p, target) /\ p.failedSubmission >= target)

\* await_latest, after its target is read.
Flushed(p, target) == target = 0 \/ p.persistedLatest >= target
FlushFailed(p, target) == ~Flushed(p, target) /\ p.failedLatest >= target

\* The next job of the worker: a submission goes first.
NextJob(p) == IF Present(p.submission) THEN p.submission ELSE p.latest

Taken(p) ==
  IF Present(p.submission) THEN [p EXCEPT !.submission = NoJob]
                          ELSE [p EXCEPT !.latest = NoJob]

Running(p) == p.at = "loop" \/ (p.at = "recv" /\ p.wake)

\* Fault: the pin is not looked at.
WorkerTakePinned ==
  LET p == IF rp.at = "recv" THEN [rp EXCEPT !.wake = FALSE] ELSE rp
      job == NextJob(p)
  IN  /\ Running(rp)
      /\ rp' = IF ~Present(job) THEN [p EXCEPT !.at = "recv"]
               ELSE [Taken(p) EXCEPT !.at = "save", !.job = job]
      /\ UNCHANGED store

\* Fault: an older record is saved over a newer one.
WorkerTakeStale ==
  LET p == IF rp.at = "recv" THEN [rp EXCEPT !.wake = FALSE] ELSE rp
      job == NextJob(p)
  IN  /\ Running(rp)
      /\ rp' = IF p.held # 0 \/ ~Present(job) THEN [p EXCEPT !.at = "recv"]
               ELSE [Taken(p) EXCEPT !.at = "save", !.job = job]
      /\ UNCHANGED store

\* receiver.recv() and the head of the inner loop.  A job older than the
\* record on disk is dropped without being saved.
WorkerTake ==
  LET p == IF rp.at = "recv" THEN [rp EXCEPT !.wake = FALSE] ELSE rp
      job == NextJob(p)
  IN  /\ Running(rp)
      /\ rp' = IF p.held # 0 \/ ~Present(job)
                 THEN [p EXCEPT !.at = "recv"]
                 ELSE IF p.persisted < job.generation
                   THEN [Taken(p) EXCEPT !.at = "save", !.job = job]
                   ELSE Notified([Taken(p) EXCEPT
                          !.at = "loop",
                          !.persistedLatest = IF job.barrier THEN @
                                              ELSE Larger(@, job.generation)])
      /\ UNCHANGED store

\* A submission's record saved: durable, then pinned and announced.
SavedSubmission(p, g) ==
  LET q == Notified([p EXCEPT !.persisted = g, !.durable = TRUE, !.held = g])
  IN  IF p.released >= g THEN [q EXCEPT !.held = 0, !.at = "loop"]
                         ELSE [q EXCEPT !.at = "recv"]

\* Fault: a record that could not be saved counts as persisted.
WorkerSaveUnchecked(saved) ==
  LET g == rp.job.generation
      p == [rp EXCEPT !.job = NoJob, !.at = "loop"]
  IN  /\ rp.at = "save"
      /\ store' = IF saved THEN rp.job.record ELSE store
      /\ rp' = IF rp.job.barrier THEN SavedSubmission(p, g)
               ELSE Notified([p EXCEPT !.persisted = IF saved THEN g ELSE @,
                                       !.persistedLatest = Larger(@, g)])

\* store.save and what follows it.
WorkerSave(saved) ==
  LET g == rp.job.generation
      p == [rp EXCEPT !.job = NoJob, !.at = "loop"]
  IN  /\ rp.at = "save"
      /\ store' = IF saved THEN rp.job.record ELSE store
      /\ rp' = CASE saved /\ rp.job.barrier -> SavedSubmission(p, g)
                 [] saved /\ ~rp.job.barrier ->
                      Notified([p EXCEPT !.persisted = g,
                                         !.persistedLatest = Larger(@, g)])
                 [] ~saved /\ rp.job.barrier ->
                      Notified([p EXCEPT !.durable = FALSE,
                                         !.failedSubmission = Larger(@, g)])
                 [] OTHER ->
                      Notified([p EXCEPT !.failedLatest = Larger(@, g)])

Worker == WorkerTake \/ \E saved \in BOOLEAN : WorkerSave(saved)
=============================================================================
