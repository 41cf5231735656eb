----------------------- MODULE SubmissionBarrierProofs -----------------------
(***************************************************************************)
(* The durability barrier, for any number of generations and any sets of   *)
(* records: the record that names the draft being broadcast is on disk,    *)
(* and saves never go back.                                                *)
(***************************************************************************)
EXTENDS SubmissionBarrier, TLAPS

\* What the counters of the persistence worker say about each other: it saves
\* only what is newer than the disk and never while a submission is pinned,
\* and a pin is the newest saved record, not yet released.
WorkerInv ==
  /\ rp.persistedLatest <= rp.persisted
  /\ rp.released <= rp.persisted
  /\ rp.at = "save" => /\ rp.job.generation # 0
                       /\ rp.persisted < rp.job.generation
                       /\ rp.held = 0
  /\ rp.held # 0 => rp.persisted = rp.held /\ rp.released < rp.held

\* What the executor knows at each of its awaits.
ExecInv ==
  /\ exec.at \in {"check", "wait"} => exec.target # 0
  /\ exec.at \in {"read", "submit"} => exec.generation # 0 /\ rp.held = exec.generation
  /\ exec.at = "submit" => store = exec.record

IInv == TypeOK /\ WorkerInv /\ ExecInv

\* The initial state of the persistence worker and its clients satisfies the
\* invariant.
LEMMA Initially == Init => IInv
  BY JobsAssumption
  DEF Init, IInv, TypeOK, WorkerInv, ExecInv, PersistenceInit, NoJob, IdleExec, IdleFlush,
      Generation, SubmissionJob, PlainJob, Persistence, Executor

\* Only the fields the invariant speaks of matter to it.
LEMMA WorkerFrame ==
  ASSUME IInv, rp' \in Persistence, store' = store, exec' = exec, flush' = flush,
         rp'.persistedLatest = rp.persistedLatest, rp'.persisted = rp.persisted,
         rp'.released = rp.released, rp'.at = rp.at, rp'.job = rp.job, rp'.held = rp.held
  PROVE  IInv'
  BY DEF IInv, TypeOK, WorkerInv, ExecInv

\* Every job carries a generation the counter has handed out, or 0 for none.
LEMMA JobGeneration ==
  ASSUME NEW j \in SubmissionJob \cup PlainJob
  PROVE  j.generation \in Generation /\ (j.generation # 0 => j.record \in Barriers \cup Plain)
<1>1. 0 \in Generation
  BY JobsAssumption DEF Generation
<1>2. CASE j = NoJob
  BY <1>1, <1>2 DEF NoJob
<1>3. CASE j \in [generation : Generation \ {0}, barrier : {TRUE}, record : Barriers]
  BY <1>3
<1>4. CASE j \in [generation : Generation \ {0}, barrier : {FALSE}, record : Plain]
  BY <1>4
<1> QED BY Zenon, <1>2, <1>3, <1>4 DEF SubmissionJob, PlainJob

\* Publishing a record (enqueue).
LEMMA PublishStep ==
  ASSUME IInv, NEW r \in Barriers \cup Plain, Publish(r)
  PROVE  IInv'
<1> DEFINE g == rp.next + 1
           job == [generation |-> g, barrier |-> r \in Barriers, record |-> r]
<1>1. rp \in Persistence /\ g \in Generation \ {0} /\ g \in Nat /\ 0 \in Generation
      /\ rp.failedSubmission \in Nat
  BY JobsAssumption DEF IInv, TypeOK, Publish, Generation, Persistence
<1>2. CASE Publish(r) /\ r \in Barriers
  <2>1. job \in SubmissionJob
    BY Zenon, <1>1, <1>2 DEF SubmissionJob
  <2>2. rp' = [rp EXCEPT !.next = g, !.required = g, !.durable = FALSE,
                         !.submission = job, !.wake = TRUE]
    BY <1>2 DEF Publish, Enqueue
  <2> HIDE DEF g, job
  <2>3. rp' \in Persistence
    BY Zenon, <1>1, <2>1, <2>2 DEF Persistence
  <2>4. /\ rp'.persistedLatest = rp.persistedLatest /\ rp'.persisted = rp.persisted
        /\ rp'.released = rp.released /\ rp'.at = rp.at /\ rp'.job = rp.job
        /\ rp'.held = rp.held
    BY <1>1, <2>2 DEF Persistence
  <2> QED BY <1>2, <2>3, <2>4, WorkerFrame DEF Publish
<1>3. CASE Publish(r) /\ r \notin Barriers
  <2>1. job \in PlainJob
    <3> DEFINE b == r \in Barriers
    <3>1. b = FALSE
      BY <1>3
    <3> HIDE DEF b
    <3>2. [generation |-> g, barrier |-> b, record |-> r] \in PlainJob
      BY Zenon, <1>1, <1>3, <3>1 DEF PlainJob
    <3> QED BY <3>2, Zenon DEF b
  <2>2. rp' = [rp EXCEPT !.next = g, !.latestGeneration = g, !.latest = job, !.wake = TRUE]
    BY <1>3 DEF Publish, Enqueue
  <2> HIDE DEF g, job
  <2>3. rp' \in Persistence
    BY Zenon, <1>1, <2>1, <2>2 DEF Persistence
  <2>4. /\ rp'.persistedLatest = rp.persistedLatest /\ rp'.persisted = rp.persisted
        /\ rp'.released = rp.released /\ rp'.at = rp.at /\ rp'.job = rp.job
        /\ rp'.held = rp.held
    BY <1>1, <2>2 DEF Persistence
  <2> QED BY <1>3, <2>3, <2>4, WorkerFrame DEF Publish
<1> QED BY <1>2, <1>3

\* A projection that has no record (reject_current).
LEMMA RefuseStep ==
  ASSUME IInv, Refuse
  PROVE  IInv'
<1> DEFINE g == rp.next + 1
<1>1. rp \in Persistence /\ g \in Generation /\ rp.failedSubmission \in Generation
  BY JobsAssumption DEF IInv, TypeOK, Refuse, Generation, Persistence
<1>2. Larger(rp.failedSubmission, g) \in Generation
  BY <1>1 DEF Larger
<1>3. rp' = [rp EXCEPT !.next = g, !.required = g, !.durable = FALSE,
                       !.failedSubmission = Larger(rp.failedSubmission, g), !.asleep = {}]
  BY <1>1 DEF Refuse, RejectCurrent, RejectGeneration, Notified, Persistence
<1> HIDE DEF g
<1>4. rp' \in Persistence
  BY ZenonT(60), <1>1, <1>2, <1>3 DEF Persistence
<1>5. /\ rp'.persistedLatest = rp.persistedLatest /\ rp'.persisted = rp.persisted
      /\ rp'.released = rp.released /\ rp'.at = rp.at /\ rp'.job = rp.job
      /\ rp'.held = rp.held
  BY <1>1, <1>3 DEF Persistence
<1> QED BY <1>4, <1>5, WorkerFrame DEF Refuse

\* The executor's wait for its pinned record (await_submission).
LEMMA WaitStep ==
  ASSUME IInv,
         (\E r \in Barriers : AwaitSubmission(r)) \/ CheckSubmission \/ WakeSubmission
           \/ DropWait
  PROVE  IInv'
<1>1. /\ rp \in Persistence /\ exec \in Executor /\ WorkerInv /\ ExecInv
      /\ IdleExec \in Executor /\ rp.held \in Generation
      /\ Generation \subseteq Nat
  BY JobsAssumption DEF IInv, TypeOK, Generation, Persistence, IdleExec, Executor
<1>2. CASE \E r \in Barriers : AwaitSubmission(r)
  <2>1. exec' \in Executor /\ (exec'.at = "idle" \/ (exec'.at = "check" /\ exec'.target # 0))
    BY <1>1, <1>2 DEF AwaitSubmission, Persistence, Executor, Generation, IdleExec
  <2> QED BY <1>1, <1>2, <2>1 DEF AwaitSubmission, IInv, TypeOK, WorkerInv, ExecInv
<1>3. CASE CheckSubmission
  <2>1. /\ exec' \in Executor
        /\ \/ exec'.at = "idle"
           \/ exec'.at = "read" /\ exec'.generation = rp.held /\ rp.held # 0
           \/ exec'.at = "wait" /\ exec'.target = exec.target /\ exec.target # 0
    <3>1. exec.target # 0 /\ exec.target \in Nat /\ exec.target \in Generation
      BY <1>1, <1>3 DEF CheckSubmission, ExecInv, Executor
    <3>2. CASE Pinned(rp, exec.target)
      <4>1. exec' = [exec EXCEPT !.at = "read", !.generation = rp.held]
        BY <1>3, <3>1, <3>2 DEF CheckSubmission, Refused
      <4>2. rp.held # 0
        BY <1>1, <3>1, <3>2 DEF Pinned
      <4> QED BY Zenon, <1>1, <4>1, <4>2 DEF Executor
    <3>3. CASE Refused(rp, exec.target) /\ ~Pinned(rp, exec.target)
      <4>1. exec' = IdleExec
        BY <1>3, <3>3 DEF CheckSubmission
      <4> QED BY <1>1, <4>1 DEF IdleExec
    <3>4. CASE ~Pinned(rp, exec.target) /\ ~Refused(rp, exec.target)
      <4>1. exec' = [exec EXCEPT !.at = "wait"]
        BY <1>3, <3>4 DEF CheckSubmission
      <4> QED BY <1>1, <3>1, <4>1 DEF Executor
    <3> QED BY <3>2, <3>3, <3>4
  <2>2. \E a \in SUBSET {"exec", "flush"} : rp' = [rp EXCEPT !.asleep = a]
    BY Zenon, <1>1, <1>3 DEF CheckSubmission, Persistence
  <2> QED BY <1>1, <1>3, <2>1, <2>2
          DEF CheckSubmission, IInv, TypeOK, WorkerInv, ExecInv, Persistence
<1>4. CASE WakeSubmission
  BY <1>1, <1>4 DEF WakeSubmission, IInv, TypeOK, WorkerInv, ExecInv, Executor
<1>5. CASE DropWait
  <2>1. \E a \in SUBSET {"exec", "flush"} : rp' = [rp EXCEPT !.asleep = a]
    BY Zenon, <1>1, <1>5 DEF DropWait, Persistence
  <2> QED BY <1>1, <1>5, <2>1
          DEF DropWait, IdleExec, IInv, TypeOK, WorkerInv, ExecInv, Persistence
<1> QED BY <1>2, <1>3, <1>4, <1>5

\* A release by the executor that owns the pin.
LEMMA ReleaseStep ==
  ASSUME IInv, rp.held # 0, rp.held = exec.generation
  PROVE  /\ Release(rp, exec.generation) \in Persistence
         /\ Release(rp, exec.generation)
              = [rp EXCEPT !.released = exec.generation, !.held = 0, !.wake = TRUE]
<1>1. /\ rp \in Persistence /\ 0 \in Generation /\ Generation \subseteq Nat
      /\ rp.held \in Nat /\ rp.released \in Nat /\ exec.generation \in Generation
      /\ rp.released < rp.held
  BY JobsAssumption DEF IInv, TypeOK, WorkerInv, Persistence, Generation
<1>2. Larger(rp.released, exec.generation) = exec.generation
  BY <1>1 DEF Larger
<1>3. Release(rp, exec.generation)
        = [rp EXCEPT !.released = exec.generation, !.held = 0, !.wake = TRUE]
  BY <1>1, <1>2 DEF Release, Persistence
<1> QED BY ZenonT(60), <1>1, <1>3 DEF Persistence

\* Reading the record back, the broadcast, and its end (execute_submit).
LEMMA SubmitStep ==
  ASSUME IInv, ReadBack \/ EndSubmission
  PROVE  IInv'
<1>1. /\ exec \in Executor /\ IdleExec \in Executor /\ WorkerInv /\ ExecInv
      /\ rp.held # 0 /\ rp.held = exec.generation /\ rp.held \in Nat
      /\ rp \in Persistence
  BY JobsAssumption
  DEF IInv, TypeOK, ExecInv, ReadBack, EndSubmission, Executor, IdleExec, Generation,
      Persistence
<1>2. CASE exec' = IdleExec /\ rp' = Release(rp, exec.generation)
           /\ store' = store /\ flush' = flush
  <2>1. rp' \in Persistence /\ exec' \in Executor /\ exec'.at = "idle"
    BY <1>1, <1>2, ReleaseStep DEF IdleExec
  <2>2. /\ rp'.held = 0 /\ rp'.released = rp.held /\ rp'.persisted = rp.persisted
        /\ rp'.persistedLatest = rp.persistedLatest /\ rp'.at = rp.at /\ rp'.job = rp.job
    BY ZenonT(60), <1>1, <1>2, ReleaseStep DEF Persistence
  <2>3. rp.persisted = rp.held
    BY <1>1 DEF WorkerInv
  <2>4. WorkerInv'
    BY <1>1, <2>2, <2>3 DEF WorkerInv
  <2> QED BY <1>2, <2>1, <2>4 DEF IInv, TypeOK, ExecInv
<1>3. CASE store = exec.record /\ exec' = [exec EXCEPT !.at = "submit"]
           /\ rp' = rp /\ store' = store /\ flush' = flush
  BY <1>1, <1>3 DEF IInv, TypeOK, WorkerInv, ExecInv, Executor
<1> QED BY <1>2, <1>3 DEF ReadBack, EndSubmission

\* The caller that flushes the latest record (await_latest).
LEMMA FlushStep ==
  ASSUME IInv, AwaitLatest \/ CheckLatest \/ WakeLatest \/ DropLatest
  PROVE  IInv'
<1>1. rp \in Persistence
  BY DEF IInv, TypeOK
<1>2. /\ \/ rp' = rp
         \/ \E a \in SUBSET {"exec", "flush"} : rp' = [rp EXCEPT !.asleep = a]
      /\ store' = store /\ exec' = exec
  BY <1>1 DEF AwaitLatest, CheckLatest, WakeLatest, DropLatest, Persistence
<1>3. flush' \in [at : {"idle", "check", "wait"}, target : Generation]
  BY JobsAssumption
  DEF IInv, TypeOK, AwaitLatest, CheckLatest, WakeLatest, DropLatest, Persistence,
      IdleFlush, Generation
<1>4. rp' \in Persistence
      /\ rp'.persistedLatest = rp.persistedLatest /\ rp'.persisted = rp.persisted
      /\ rp'.released = rp.released /\ rp'.at = rp.at /\ rp'.job = rp.job
      /\ rp'.held = rp.held
  BY <1>1, <1>2 DEF Persistence
<1> QED BY <1>2, <1>3, <1>4 DEF IInv, TypeOK, WorkerInv, ExecInv

\* The worker takes a job, or goes back to its channel (the head of its loop).
LEMMA TakeStep ==
  ASSUME IInv, WorkerTake, exec' = exec, flush' = flush
  PROVE  IInv' /\ store' = store
<1> DEFINE p == IF rp.at = "recv" THEN [rp EXCEPT !.wake = FALSE] ELSE rp
           job == NextJob(p)
<1>1. /\ rp \in Persistence /\ WorkerInv /\ ExecInv /\ NoJob \in SubmissionJob
      /\ NoJob \in PlainJob /\ Generation \subseteq Nat
  BY JobsAssumption DEF IInv, TypeOK, SubmissionJob, PlainJob, Generation
<1>2. /\ p \in Persistence /\ p.persisted = rp.persisted /\ p.held = rp.held
      /\ p.released = rp.released /\ p.persistedLatest = rp.persistedLatest
      /\ p.latest = rp.latest /\ p.submission = rp.submission
  BY Zenon, <1>1 DEF Persistence
<1>3. /\ Running(rp) /\ store' = store
      /\ rp' = IF p.held # 0 \/ ~Present(job)
                 THEN [p EXCEPT !.at = "recv"]
                 ELSE IF p.persisted < job.generation
                   THEN [Taken(p) EXCEPT !.at = "save", !.job = job]
                   ELSE Notified([Taken(p) EXCEPT
                          !.at = "loop",
                          !.persistedLatest = IF job.barrier THEN @
                                              ELSE Larger(@, job.generation)])
  BY DEF WorkerTake
<1> HIDE DEF p
<1>4. /\ job \in SubmissionJob \cup PlainJob
      /\ Taken(p) \in Persistence /\ Taken(p).persisted = p.persisted
      /\ Taken(p).held = p.held /\ Taken(p).released = p.released
      /\ Taken(p).persistedLatest = p.persistedLatest
  <2>1. CASE Present(p.submission)
    BY <1>1, <1>2, <2>1 DEF NextJob, Taken, Persistence
  <2>2. CASE ~Present(p.submission)
    BY <1>1, <1>2, <2>2 DEF NextJob, Taken, Persistence
  <2> QED BY <2>1, <2>2
<1> HIDE DEF job
<1>5. job.generation \in Generation
  BY <1>4, JobGeneration
<1>6. CASE p.held # 0 \/ ~Present(job)
  <2>1. rp' = [p EXCEPT !.at = "recv"]
    BY <1>3, <1>6
  <2>2. /\ rp' \in Persistence /\ rp'.at = "recv" /\ rp'.held = rp.held
        /\ rp'.persisted = rp.persisted /\ rp'.released = rp.released
        /\ rp'.persistedLatest = rp.persistedLatest
    BY <1>2, <2>1 DEF Persistence
  <2> QED BY <1>3, <2>2 DEF IInv, TypeOK, WorkerInv, ExecInv
<1>7. CASE p.held = 0 /\ Present(job) /\ p.persisted < job.generation
  <2>1. rp' = [Taken(p) EXCEPT !.at = "save", !.job = job]
    BY <1>3, <1>7
  <2>2. /\ rp' \in Persistence /\ rp'.at = "save" /\ rp'.job = job /\ rp'.held = rp.held
        /\ rp'.persisted = rp.persisted /\ rp'.released = rp.released
        /\ rp'.persistedLatest = rp.persistedLatest
    BY ZenonT(60), <1>2, <1>4, <2>1 DEF Persistence
  <2> QED BY <1>2, <1>3, <1>7, <2>2 DEF IInv, TypeOK, WorkerInv, ExecInv, Present
<1>8. CASE p.held = 0 /\ Present(job) /\ ~(p.persisted < job.generation)
  <2> DEFINE l == IF job.barrier THEN p.persistedLatest
                  ELSE Larger(p.persistedLatest, job.generation)
  <2>1. rp' = [Taken(p) EXCEPT !.at = "loop", !.persistedLatest = l, !.asleep = {}]
    BY <1>3, <1>4, <1>8 DEF Notified, Persistence
  <2>2. l \in Generation /\ l <= p.persisted
    <3>1. p.persistedLatest \in Generation /\ p.persisted \in Generation
          /\ p.persistedLatest <= p.persisted
      BY <1>1, <1>2 DEF Persistence, WorkerInv
    <3>2. job.generation \in Nat /\ p.persisted \in Nat
      BY Zenon, <1>1, <1>5, <3>1
    <3>3. job.generation <= p.persisted
      BY <1>8, <3>2
    <3> QED BY <1>5, <3>1, <3>2, <3>3 DEF Larger
  <2> HIDE DEF l
  <2>3. /\ rp' \in Persistence /\ rp'.at = "loop" /\ rp'.held = rp.held
        /\ rp'.persisted = rp.persisted /\ rp'.released = rp.released
        /\ rp'.persistedLatest = l
    BY Zenon, <1>2, <1>4, <2>1, <2>2 DEF Persistence
  <2> QED BY <1>2, <1>3, <2>2, <2>3 DEF IInv, TypeOK, WorkerInv, ExecInv
<1> QED BY <1>3, <1>6, <1>7, <1>8

\* The worker's save succeeds or fails; a saved submission is pinned.
LEMMA SaveStep ==
  ASSUME IInv, NEW saved \in BOOLEAN, WorkerSave(saved), exec' = exec, flush' = flush
  PROVE  /\ IInv'
         /\ store' # store => rp'.persisted > rp.persisted /\ rp.held = 0
<1> DEFINE g == rp.job.generation
           p == [rp EXCEPT !.job = NoJob, !.at = "loop"]
<1>0. /\ rp \in Persistence /\ WorkerInv /\ ExecInv /\ rp.at = "save"
      /\ NoJob \in SubmissionJob /\ Generation \subseteq Nat /\ 0 \in Generation
  BY JobsAssumption DEF IInv, TypeOK, SubmissionJob, Generation, WorkerSave
<1>1. /\ rp \in Persistence /\ rp.held = 0
      /\ rp.job \in SubmissionJob \cup PlainJob /\ g # 0 /\ rp.persisted < g
      /\ rp.persistedLatest <= rp.persisted /\ rp.released <= rp.persisted
      /\ exec.at \notin {"read", "submit"}
  BY <1>0 DEF WorkerInv, ExecInv, Persistence
<1>2. g \in Generation /\ rp.job.record \in Barriers \cup Plain
  BY <1>1, JobGeneration
<1>3. /\ store' = IF saved THEN rp.job.record ELSE store
      /\ rp' = CASE saved /\ rp.job.barrier -> SavedSubmission(p, g)
                 [] saved /\ ~rp.job.barrier ->
                      Notified([p EXCEPT !.persisted = g,
                                         !.persistedLatest = Larger(@, g)])
                 [] ~saved /\ rp.job.barrier ->
                      Notified([p EXCEPT !.durable = FALSE,
                                         !.failedSubmission = Larger(@, g)])
                 [] OTHER ->
                      Notified([p EXCEPT !.failedLatest = Larger(@, g)])
  BY DEF WorkerSave
<1>4. /\ p \in Persistence /\ p.persisted = rp.persisted /\ p.held = 0
      /\ p.released = rp.released /\ p.persistedLatest = rp.persistedLatest
      /\ p.at = "loop" /\ p.failedLatest = rp.failedLatest
      /\ p.failedSubmission = rp.failedSubmission
  BY Zenon, <1>0, <1>1 DEF Persistence
<1> HIDE DEF p, g
<1>5. /\ rp.persisted \in Nat /\ rp.released \in Nat /\ rp.persistedLatest \in Nat
      /\ rp.failedLatest \in Generation /\ rp.failedSubmission \in Generation /\ g \in Nat
  BY Zenon, <1>0, <1>1, <1>2 DEF Persistence
<1>6. CASE saved /\ rp.job.barrier
  <2>1. rp' = SavedSubmission(p, g)
    BY <1>3, <1>6
  <2>2. ~(p.released >= g)
    BY <1>1, <1>4, <1>5
  <2>3. rp' = [p EXCEPT !.persisted = g, !.durable = TRUE, !.held = g,
                        !.asleep = {}, !.at = "recv"]
    BY <1>4, <2>1, <2>2 DEF SavedSubmission, Notified, Persistence
  <2>4. /\ rp' \in Persistence /\ rp'.at = "recv" /\ rp'.held = g /\ rp'.persisted = g
        /\ rp'.released = rp.released /\ rp'.persistedLatest = rp.persistedLatest
    BY Zenon, <1>2, <1>4, <2>3 DEF Persistence
  <2>5. WorkerInv'
    BY <1>1, <1>5, <2>4 DEF WorkerInv
  <2>6. ExecInv'
    BY <1>0, <1>1 DEF ExecInv
  <2>7. TypeOK'
    BY <1>2, <1>3, <1>6, <2>4 DEF IInv, TypeOK
  <2> QED BY <1>1, <1>5, <2>4, <2>5, <2>6, <2>7 DEF IInv
<1>7. CASE saved /\ ~rp.job.barrier
  <2>1. Larger(p.persistedLatest, g) = g
    BY <1>1, <1>4, <1>5 DEF Larger
  <2>2. rp' = Notified([p EXCEPT !.persisted = g, !.persistedLatest = Larger(@, g)])
    BY <1>3, <1>7
  <2>3. rp' = [p EXCEPT !.persisted = g, !.persistedLatest = g, !.asleep = {}]
    BY <1>4, <2>1, <2>2 DEF Notified, Persistence
  <2>4. /\ rp' \in Persistence /\ rp'.at = "loop" /\ rp'.held = 0 /\ rp'.persisted = g
        /\ rp'.released = rp.released /\ rp'.persistedLatest = g
    BY Zenon, <1>2, <1>4, <2>3 DEF Persistence
  <2>5. WorkerInv'
    BY <1>1, <1>5, <2>4 DEF WorkerInv
  <2>6. ExecInv'
    BY <1>0, <1>1 DEF ExecInv
  <2>7. TypeOK'
    BY <1>2, <1>3, <1>7, <2>4 DEF IInv, TypeOK
  <2> QED BY <1>1, <1>5, <2>4, <2>5, <2>6, <2>7 DEF IInv
<1>8. CASE ~saved
  <2>1. store' = store
    BY <1>3, <1>8
  <2>2. /\ Larger(rp.failedSubmission, g) \in Generation
        /\ Larger(rp.failedLatest, g) \in Generation
    BY <1>2, <1>5 DEF Larger
  <2>3. \/ rp' = [p EXCEPT !.durable = FALSE, !.asleep = {},
                           !.failedSubmission = Larger(rp.failedSubmission, g)]
        \/ rp' = [p EXCEPT !.failedLatest = Larger(rp.failedLatest, g), !.asleep = {}]
    BY Zenon, <1>3, <1>4, <1>8 DEF Notified, Persistence
  <2>4. /\ rp' \in Persistence /\ rp'.at = "loop" /\ rp'.held = 0
        /\ rp'.persisted = rp.persisted /\ rp'.released = rp.released
        /\ rp'.persistedLatest = rp.persistedLatest
    BY ZenonT(60), <1>4, <2>2, <2>3 DEF Persistence
  <2> QED BY <1>1, <1>5, <2>1, <2>4 DEF IInv, TypeOK, WorkerInv, ExecInv
<1> QED BY <1>6, <1>7, <1>8

\* Every step of the barrier's actors keeps the invariant.
THEOREM Inductive == IInv /\ [Next]_vars => IInv'
<1> SUFFICES ASSUME IInv, [Next]_vars PROVE IInv'
  OBVIOUS
<1>1. ASSUME NEW r \in Barriers \cup Plain, Publish(r) PROVE IInv'
  BY <1>1, PublishStep
<1>2. CASE Refuse
  BY <1>2, RefuseStep
<1>3. CASE (\E r \in Barriers : AwaitSubmission(r)) \/ CheckSubmission \/ WakeSubmission
             \/ DropWait
  BY <1>3, WaitStep
<1>4. CASE ReadBack \/ EndSubmission
  BY <1>4, SubmitStep
<1>5. CASE AwaitLatest \/ CheckLatest \/ WakeLatest \/ DropLatest
  BY <1>5, FlushStep
<1>6. CASE Persist
  BY <1>6, TakeStep, SaveStep DEF Persist, Worker
<1>7. CASE UNCHANGED vars
  BY <1>7 DEF vars, IInv, TypeOK, WorkerInv, ExecInv
<1> QED BY <1>1, <1>2, <1>3, <1>4, <1>5, <1>6, <1>7 DEF Next

\* The inductive invariant holds throughout.
LEMMA Invariant == Spec => []IInv
  BY Initially, Inductive, PTL DEF Spec

\* Type correctness of the persistence worker, the store and the two waiters,
\* for every number of generations.
THEOREM TypeCorrect == Spec => []TypeOK
<1>1. IInv => TypeOK
  BY DEF IInv
<1> QED BY Invariant, <1>1, PTL

\* execute_submit broadcasts only while the record that names its draft is the
\* one on disk, whatever is published, saved, refused or dropped meanwhile.
THEOREM Recorded == Spec => []BroadcastIsRecorded
<1>1. IInv => BroadcastIsRecorded
  BY DEF IInv, ExecInv, BroadcastIsRecorded
<1> QED BY Invariant, <1>1, PTL

\* await_latest never counts as persisted what was not saved or superseded.
THEOREM FlushTrue == Spec => []FlushIsTrue
<1>1. IInv => FlushIsTrue
  BY DEF IInv, WorkerInv, FlushIsTrue
<1> QED BY Invariant, <1>1, PTL

\* The record on disk changes only to one of a later generation, and never
\* while a submission is pinned.
THEOREM SavesAdvance == Spec => RecordsAdvance
<1>1. IInv /\ [Next]_vars
        => [store' # store => rp'.persisted > rp.persisted /\ rp.held = 0]_vars
  <2> SUFFICES ASSUME IInv, [Next]_vars, store' # store
               PROVE  rp'.persisted > rp.persisted /\ rp.held = 0
    OBVIOUS
  <2>1. Persist
    BY DEF Next, vars, Publish, Refuse, AwaitSubmission, CheckSubmission, WakeSubmission,
           ReadBack, EndSubmission, DropWait, AwaitLatest, CheckLatest, WakeLatest, DropLatest
  <2>2. exec' = exec /\ flush' = flush
    BY <2>1 DEF Persist
  <2>3. CASE WorkerTake
    BY <2>3 DEF WorkerTake
  <2>4. ASSUME NEW saved \in BOOLEAN, WorkerSave(saved)
        PROVE  rp'.persisted > rp.persisted /\ rp.held = 0
    BY <2>2, <2>4, SaveStep
  <2> QED BY <2>1, <2>3, <2>4 DEF Persist, Worker
<1> QED BY Invariant, <1>1, PTL DEF Spec, RecordsAdvance
=============================================================================
