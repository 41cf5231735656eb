-------------------------- MODULE SubmissionBarrier --------------------------
(***************************************************************************)
(* The durability barrier of a DUST submission: the persistence worker,    *)
(* the observer that publishes records to it, the executor that may        *)
(* broadcast only while its Submitting record is pinned on disk            *)
(* (execute_submit), and the caller that flushes the latest record before  *)
(* it returns (ensure_latest_persisted).  A save may fail.  The operation  *)
(* deadline may drop the executor at any await, and then the guard's Drop  *)
(* releases what it pinned.                                                *)
(***************************************************************************)
EXTENDS RecoveryPersistence

CONSTANTS
  Barriers,   \* Submitting records
  Plain       \* the records of the other durable states

ASSUME RecordsDisjoint == Barriers \cap Plain = {} /\ NoRecord \notin Barriers \cup Plain

VARIABLES
  exec,    \* execute_submit: where it is, the record it needs, its generations
  flush    \* ensure_latest_persisted: where it is and its target

vars == <<rp, store, exec, flush>>

IdleExec == [at |-> "idle", record |-> NoRecord, target |-> 0, generation |-> 0]
IdleFlush == [at |-> "idle", target |-> 0]

Init ==
  /\ rp = PersistenceInit(TRUE)
  /\ store = NoRecord
  /\ exec = IdleExec
  /\ flush = IdleFlush

\* The projection observer: a record to persist, or a projection that has none.
Publish(r) ==
  /\ rp.next < MaxJobs
  /\ rp' = Enqueue(rp, r, r \in Barriers)
  /\ UNCHANGED <<store, exec, flush>>

Refuse ==
  /\ rp.next < MaxJobs
  /\ rp' = RejectCurrent(rp)
  /\ UNCHANGED <<store, exec, flush>>

\* await_submission reads the generation it has to wait for.
AwaitSubmission(r) ==
  /\ exec.at = "idle"
  /\ exec' = IF rp.required = 0 THEN IdleExec
             ELSE [at |-> "check", record |-> r, target |-> rp.required, generation |-> 0]
  /\ UNCHANGED <<rp, store, flush>>

\* One turn of its loop: the notification is armed before the flags are read.
CheckSubmission ==
  /\ exec.at = "check"
  /\ exec' = CASE Pinned(rp, exec.target) ->
                    [exec EXCEPT !.at = "read", !.generation = rp.held]
               [] Refused(rp, exec.target) -> IdleExec
               [] OTHER -> [exec EXCEPT !.at = "wait"]
  /\ rp' = [rp EXCEPT !.asleep = IF exec'.at = "wait" THEN @ \cup {"exec"} ELSE @]
  /\ UNCHANGED <<store, flush>>

WakeSubmission ==
  /\ exec.at = "wait" /\ "exec" \notin rp.asleep
  /\ exec' = [exec EXCEPT !.at = "check"]
  /\ UNCHANGED <<rp, store, flush>>

\* The record is read back; only the exact one lets the broadcast start.
ReadBack ==
  /\ exec.at = "read"
  /\ IF store = exec.record
       THEN exec' = [exec EXCEPT !.at = "submit"] /\ UNCHANGED rp
       ELSE exec' = IdleExec /\ rp' = Release(rp, exec.generation)
  /\ UNCHANGED <<store, flush>>

\* The submission ends, or the deadline drops it: the guard is dropped too.
EndSubmission ==
  /\ exec.at \in {"read", "submit"}
  /\ exec' = IdleExec
  /\ rp' = Release(rp, exec.generation)
  /\ UNCHANGED <<store, flush>>

\* The deadline drops the wait itself, before there is a guard.
DropWait ==
  /\ exec.at \in {"check", "wait"}
  /\ exec' = IdleExec
  /\ rp' = [rp EXCEPT !.asleep = @ \ {"exec"}]
  /\ UNCHANGED <<store, flush>>

AwaitLatest ==
  /\ flush.at = "idle"
  /\ flush' = [at |-> "check", target |-> rp.latestGeneration]
  /\ UNCHANGED <<rp, store, exec>>

CheckLatest ==
  /\ flush.at = "check"
  /\ flush' = IF Flushed(rp, flush.target) \/ FlushFailed(rp, flush.target)
                THEN IdleFlush
                ELSE [flush EXCEPT !.at = "wait"]
  /\ rp' = [rp EXCEPT !.asleep = IF flush'.at = "wait" THEN @ \cup {"flush"} ELSE @]
  /\ UNCHANGED <<store, exec>>

WakeLatest ==
  /\ flush.at = "wait" /\ "flush" \notin rp.asleep
  /\ flush' = [flush EXCEPT !.at = "check"]
  /\ UNCHANGED <<rp, store, exec>>

DropLatest ==
  /\ flush.at \in {"check", "wait"}
  /\ flush' = IdleFlush
  /\ rp' = [rp EXCEPT !.asleep = @ \ {"flush"}]
  /\ UNCHANGED <<store, exec>>

Persist == Worker /\ UNCHANGED <<exec, flush>>

Next ==
  \/ \E r \in Barriers \cup Plain : Publish(r)
  \/ Refuse
  \/ \E r \in Barriers : AwaitSubmission(r)
  \/ CheckSubmission
  \/ WakeSubmission
  \/ ReadBack
  \/ EndSubmission
  \/ DropWait
  \/ AwaitLatest
  \/ CheckLatest
  \/ WakeLatest
  \/ DropLatest
  \/ Persist

\* The worker is a running thread, and a started future is polled until it is
\* done: a submission or a flush that can go on goes on, and ends.
Fairness ==
  /\ WF_vars(Persist)
  /\ WF_vars(CheckSubmission) /\ WF_vars(WakeSubmission)
  /\ WF_vars(ReadBack) /\ WF_vars(EndSubmission)
  /\ WF_vars(CheckLatest) /\ WF_vars(WakeLatest)

Spec == Init /\ [][Next]_vars /\ Fairness

-----------------------------------------------------------------------------
Generation == 0 .. MaxJobs
SubmissionJob ==
  [generation : Generation \ {0}, barrier : {TRUE}, record : Barriers] \cup {NoJob}
PlainJob ==
  [generation : Generation \ {0}, barrier : {FALSE}, record : Plain] \cup {NoJob}

Persistence ==
  [submission : SubmissionJob, latest : PlainJob, next : Generation,
   persisted : Generation, latestGeneration : Generation,
   persistedLatest : Generation, failedLatest : Generation,
   required : Generation, failedSubmission : Generation,
   held : Generation, released : Generation, durable : BOOLEAN,
   wake : BOOLEAN, asleep : SUBSET {"exec", "flush"},
   at : {"recv", "loop", "save"}, job : SubmissionJob \cup PlainJob]
Executor ==
  [at : {"idle", "check", "wait", "read", "submit"}, record : Barriers \cup {NoRecord},
   target : Generation, generation : Generation]

\* The type of the worker's state, of the store and of the two waiters, with
\* what every slot holds: the submission slot only Submitting records, the
\* latest slot only the others, each under the generation its record got.
TypeOK ==
  /\ rp \in Persistence
  /\ store \in Barriers \cup Plain \cup {NoRecord}
  /\ exec \in Executor
  /\ flush \in [at : {"idle", "check", "wait"}, target : Generation]

\* "Broadcasts only when it is the exact Submitting record for the authorized
\* draft": while the broadcast runs, the record that names its draft is the one
\* on disk, whatever was published, saved or failed since the wait began.
BroadcastIsRecorded ==
  exec.at = "submit" => store = exec.record /\ rp.held = exec.generation

\* await_latest never answers for a record that is not on disk: what it reads
\* as persisted, coalesced generations included, was saved or was superseded by
\* a later record that was.
FlushIsTrue == rp.persistedLatest <= rp.persisted

\* A save never goes back: the record on disk changes only to one of a later
\* generation, and not at all while a submission is pinned.
RecordsAdvance ==
  [][store' # store => rp'.persisted > rp.persisted /\ rp.held = 0]_vars

\* No notification is lost: a caller that flushes the latest record returns,
\* with success or with failure, unless a submission is pinned.
FlushEnds == flush.at # "idle" ~> (flush.at = "idle" \/ rp.held # 0)

\* "Authorization must resume after recovery persistence": an executor that
\* waits while the record it waits for, or a later one, is pinned on disk is
\* answered without the help of its deadline.
WaiterResumes ==
  (exec.at = "wait" /\ rp.held >= exec.target) ~> exec.at # "wait"
=============================================================================
