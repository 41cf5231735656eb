------------------------- MODULE TransferSubmission -------------------------
(***************************************************************************)
(* Preparing, signing, submitting, cancelling and reconciling a transfer in *)
(* the Midnight adapter (crates/adapters/midnight/src/transaction.rs,      *)
(* submission.rs and submission_journal.rs).                               *)
(*                                                                         *)
(* Process-local: the retained drafts, the submission controls, the worker *)
(* threads and the futures that wait for them, the reconcilers.  They are  *)
(* lost when the process dies.  Durable: the submission journal.           *)
(* Outside: the Midnight chain, seen only through what the code reads.     *)
(*                                                                         *)
(* Every `now` is a reading of a wall clock that may be set back and that  *)
(* is taken before the call it is passed to, so whether a call finds a     *)
(* draft past its deadline is an input of the call, not a function of the  *)
(* chain's time.                                                           *)
(***************************************************************************)
EXTENDS Integers, FiniteSets

CONSTANTS
    Drafts,       \* draft identifiers; each is a digest of fresh randomness
    Attempts,     \* submission attempts: one control, worker and transaction
    Transfers,    \* what is moved to whom from which inputs
    Shielded,     \* the transfers that spend shielded notes
    Deadlines,    \* expires_at values, in chain time
    MaxTime,      \* last chain time considered
    MaxRecords,   \* MAX_RECORDS of the journal
    Planners,     \* threads inside prepare
    Reconcilers,  \* reconcile_submission futures
    None          \* absence of a value

Intent == [transfer: Transfers, deadline: Deadlines]

DraftState == {"Prepared", "Authorized", "Submitting", "Submitted", "Expired"}

\* WalletTransactionSubmissionState values that a retained draft stores.
SubmissionState == {"NotStarted", "Running", "CancellationRequested",
                    "Cancelled", "Included", "OutcomeUnknown"}

\* What the draft still holds: the payload to sign, the signed transaction,
\* neither, or a transaction signed over an already cleared payload, which
\* the chain refuses.
Material == {"payload", "signed", "cleared", "void"}

Draft == [state: DraftState, submission: SubmissionState, material: Material,
          control: Attempts \cup {None}]

StoredState == {"Broadcasting", "OutcomeUnknown", "Included", "Rejected",
                "Expired"}

Entry == [state: StoredState, tx: Attempts]

Result == {"none", "expired", "unknown", "cancelled", "rejected", "failed",
           "included"}

\* `pc` places the worker inside complete_live and finish_submission; a
\* panicked worker is dead until the waiting future notices, if it still is.
Attempt == [draft: Drafts, material: {"signed", "void"},
            phase: {"Working", "CancellationRequested", "Broadcasting"},
            pc: {"proving", "recorded", "watching", "finishing", "saving",
                 "settling", "dead", "done"},
            result: Result, loaded: Attempts \cup {None}, awaited: BOOLEAN]

Verdict == {"none", "Included", "Rejected", "Expired", "OutcomeUnknown"}

Reconciliation == [draft: Drafts, tx: Attempts,
                   stage: {"walking", "tip", "saving", "applying"},
                   verdict: Verdict]

Planning == [intent: Intent, checked: BOOLEAN]

ASSUME ConstantsAssumption ==
    /\ IsFiniteSet(Drafts)
    /\ MaxTime \in Nat
    /\ Deadlines \subseteq Nat
    /\ MaxRecords \in Nat \ {0}
    /\ Shielded \subseteq Transfers
    /\ None \notin Attempts
    /\ None \notin Intent \cup Draft \cup Entry \cup Attempt
    /\ None \notin Planning \cup Reconciliation

VARIABLES
    intent,    \* draft -> what it is for; fixed once the draft exists
    draft,     \* draft -> the retained draft, or None
    attempt,   \* attempt -> its control and worker, or None
    journal,   \* draft -> its durable record, or None
    planning,  \* planner -> the preparation in progress, or None
    recon,     \* reconciler -> the reconciliation in progress, or None
    chain,     \* attempt -> what the chain knows of its transaction
    time       \* chain time

vars == <<intent, draft, attempt, journal, planning, recon, chain, time>>

ChainState == {"absent", "pool", "refused", "included", "failed"}

TypeOK ==
    /\ intent \in [Drafts -> Intent \cup {None}]
    /\ draft \in [Drafts -> Draft \cup {None}]
    /\ attempt \in [Attempts -> Attempt \cup {None}]
    /\ journal \in [Drafts -> Entry \cup {None}]
    /\ planning \in [Planners -> Planning \cup {None}]
    /\ recon \in [Reconcilers -> Reconciliation \cup {None}]
    /\ chain \in [Attempts -> ChainState]
    /\ time \in 0..MaxTime
    /\ Cardinality({d \in Drafts : journal[d] # None}) <= MaxRecords

Init ==
    /\ intent = [d \in Drafts |-> None]
    /\ draft = [d \in Drafts |-> None]
    /\ attempt = [a \in Attempts |-> None]
    /\ journal = [d \in Drafts |-> None]
    /\ planning = [p \in Planners |-> None]
    /\ recon = [r \in Reconcilers |-> None]
    /\ chain = [a \in Attempts |-> "absent"]
    /\ time = 0

-----------------------------------------------------------------------------
(***************************************************************************)
(* The journal                                                             *)
(***************************************************************************)
Recorded(j) == {d \in Drafts : j[d] # None}

\* is_safely_evictable
Evictable(j) ==
    {d \in Recorded(j) : j[d].state \in {"Rejected", "Expired"}}

\* Fault: any record may be evicted.
UpsertedEvictingAny(j, d, e) ==
    LET grown == [j EXCEPT ![d] = e]
    IN IF Cardinality(Recorded(grown)) <= MaxRecords THEN {grown}
       ELSE {[grown EXCEPT ![x] = None] : x \in Recorded(grown)}

\* upsert_entry: the journals a save of e for d can leave.  The record is
\* replaced whatever it says; over the bound, the safely evictable record
\* with the oldest updated_at goes.  updated_at is a wall clock reading of
\* each attempt, so any of them may be the oldest.  Empty: the save fails.
Upserted(j, d, e) ==
    LET grown == [j EXCEPT ![d] = e]
    IN IF Cardinality(Recorded(grown)) <= MaxRecords THEN {grown}
       ELSE {[grown EXCEPT ![x] = None] : x \in Evictable(grown)}

\* planning_fingerprint and shielded_planning_fingerprint: the former also
\* digests expires_at.
Fingerprint(i) ==
    IF i.transfer \in Shielded THEN <<i.transfer>>
    ELSE <<i.transfer, i.deadline>>

SameFingerprint(i, j) == Fingerprint(i) = Fingerprint(j)

\* The entry that dominant_fingerprint_entry picks blocks a new draft.
Blocked(i) ==
    \E d \in Recorded(journal) :
        /\ SameFingerprint(intent[d], i)
        /\ journal[d].state \in {"Broadcasting", "OutcomeUnknown", "Included"}

-----------------------------------------------------------------------------
(***************************************************************************)
(* Preparing a draft                                                       *)
(***************************************************************************)
ActiveShielded ==
    {d \in Drafts :
        /\ draft[d] # None
        /\ intent[d].transfer \in Shielded
        /\ draft[d].state \in {"Prepared", "Authorized", "Submitting"}}

\* prepare and prepare_shielded up to the plan; planning shielded notes is
\* refused while another shielded draft is active.  (The second conjunct
\* bounds the model: an identifier is left.)
PrepareBegin(p, i) ==
    /\ planning[p] = None
    /\ \E d \in Drafts : intent[d] = None
    /\ i.transfer \in Shielded => ActiveShielded = {}
    /\ planning' = [planning EXCEPT ![p] = [intent |-> i, checked |-> FALSE]]
    /\ UNCHANGED <<intent, draft, attempt, journal, recon, chain, time>>

\* The journal lets this fingerprint be planned.
PrepareCheck(p) ==
    /\ planning[p] # None /\ ~planning[p].checked
    /\ ~Blocked(planning[p].intent)
    /\ planning' = [planning EXCEPT ![p].checked = TRUE]
    /\ UNCHANGED <<intent, draft, attempt, journal, recon, chain, time>>

\* Fault: the plan is not looked up again under the lock.
PlannedNone(i) == {}

\* Under the drafts lock: the draft that an equal plan finds instead.
Planned(i) ==
    IF i.transfer \in Shielded THEN ActiveShielded
    ELSE {d \in Drafts : draft[d] # None /\ SameFingerprint(intent[d], i)}

PrepareInsert(p, d) ==
    /\ planning[p] # None /\ planning[p].checked
    /\ Planned(planning[p].intent) = {}
    /\ intent[d] = None
    /\ intent' = [intent EXCEPT ![d] = planning[p].intent]
    /\ draft' = [draft EXCEPT ![d] =
            [state |-> "Prepared", submission |-> "NotStarted",
             material |-> "payload", control |-> None]]
    /\ planning' = [planning EXCEPT ![p] = None]
    /\ UNCHANGED <<attempt, journal, recon, chain, time>>

\* An error, or an existing draft returned in place of a new one.
PrepareReturn(p) ==
    /\ planning[p] # None
    /\ planning' = [planning EXCEPT ![p] = None]
    /\ UNCHANGED <<intent, draft, attempt, journal, recon, chain, time>>

-----------------------------------------------------------------------------
(***************************************************************************)
(* Authorizing, reading, submitting and cancelling a draft                 *)
(***************************************************************************)
\* The state that expiry leaves: nothing to sign, nothing to submit.
ExpiredDraft(r) == [r EXCEPT !.state = "Expired", !.material = "cleared"]

\* authorize, called with a `now` at or past the deadline.
AuthorizeLate(d) ==
    /\ draft[d] # None
    /\ draft' = [draft EXCEPT ![d] = ExpiredDraft(@)]
    /\ UNCHANGED <<intent, attempt, journal, planning, recon, chain, time>>

\* authorize with an earlier `now`.  An expired draft is not turned away; a
\* shielded one has lost its transaction and fails, an unshielded one signs
\* whatever payload is left.
Authorize(d) ==
    /\ draft[d] # None
    /\ draft[d].state \in {"Prepared", "Expired"}
    /\ intent[d].transfer \in Shielded => draft[d].material = "payload"
    /\ draft' = [draft EXCEPT ![d].state = "Authorized",
                              ![d].material = IF @ = "payload" THEN "signed"
                                              ELSE "void"]
    /\ UNCHANGED <<intent, attempt, journal, planning, recon, chain, time>>

\* get past the deadline.
GetLate(d) ==
    /\ draft[d] # None
    /\ draft[d].state \in {"Prepared", "Authorized"}
    /\ draft' = [draft EXCEPT ![d] = ExpiredDraft(@)]
    /\ UNCHANGED <<intent, attempt, journal, planning, recon, chain, time>>

\* submit past the deadline.
SubmitLate(d) == GetLate(d)

\* submit: a fresh control and a worker thread.  A thread that cannot be
\* spawned ends like one that fails at once (ProvingEnds).
Submit(d, a) ==
    /\ draft[d] # None
    /\ draft[d].state = "Authorized"
    /\ attempt[a] = None
    /\ attempt' = [attempt EXCEPT ![a] =
            [draft |-> d, material |-> draft[d].material, phase |-> "Working",
             pc |-> "proving", result |-> "none", loaded |-> None,
             awaited |-> TRUE]]
    /\ draft' = [draft EXCEPT ![d].state = "Submitting",
                              ![d].submission = "Running",
                              ![d].control = a]
    /\ UNCHANGED <<intent, journal, planning, recon, chain, time>>

\* request_cancellation: nothing to cancel from the broadcast on.
CancelledPhase(phase) ==
    IF phase = "Working" THEN "CancellationRequested" ELSE phase

\* cancel_submission of a running submission.
CancelSubmission(d) ==
    /\ draft[d] # None
    /\ draft[d].submission = "Running"
    /\ draft[d].control # None
    /\ LET a == draft[d].control IN
        /\ CancelledPhase(attempt[a].phase) = "CancellationRequested"
        /\ attempt' = [attempt EXCEPT ![a].phase = CancelledPhase(@)]
    /\ draft' = [draft EXCEPT ![d].submission = "CancellationRequested"]
    /\ UNCHANGED <<intent, journal, planning, recon, chain, time>>

\* The submit future is dropped: CancelSubmissionOnDrop.
DropSubmit(a) ==
    /\ attempt[a] # None
    /\ attempt[a].awaited
    /\ attempt' = [attempt EXCEPT ![a].awaited = FALSE,
                                  ![a].phase = CancelledPhase(@)]
    /\ UNCHANGED <<intent, draft, journal, planning, recon, chain, time>>

-----------------------------------------------------------------------------
(***************************************************************************)
(* The worker: complete_live, submit_unsigned, finish_submission           *)
(***************************************************************************)
At(a, pc) == attempt[a] # None /\ attempt[a].pc = pc

DeadlineOf(a) == intent[attempt[a].draft].deadline

\* finish_submission asks the journal first whenever the transaction may
\* have been broadcast.
Finishing(r, result) ==
    LET marked == result \in {"unknown", "included"} \/ r.phase = "Broadcasting"
        final == IF result = "failed" /\ r.phase = "Broadcasting"
                 THEN "unknown" ELSE result
    IN [r EXCEPT !.result = final,
                 !.pc = IF marked THEN "finishing" ELSE "settling"]

\* The worker stops before the broadcast: past the ledger's TTL, cancelled
\* (ensure_submission_active), or failed in synchronization, balancing,
\* proving, serialization or connection.
ProvingEnds(a, result) ==
    /\ At(a, "proving")
    /\ \/ result = "failed"
       \/ result = "expired" /\ DeadlineOf(a) <= time
       \/ result = "cancelled" /\ attempt[a].phase = "CancellationRequested"
    /\ attempt' = [attempt EXCEPT ![a] = Finishing(@, result)]
    /\ UNCHANGED <<intent, draft, journal, planning, recon, chain, time>>

\* Fault: the phase is not looked at again.
MayBroadcastAlways(a) == TRUE

MayBroadcast(a) == attempt[a].phase = "Working"

\* begin_broadcast: under the phase lock, record first.
BeginBroadcast(a) ==
    /\ At(a, "proving")
    /\ MayBroadcast(a)
    /\ journal' \in Upserted(journal, attempt[a].draft,
                             [state |-> "Broadcasting", tx |-> a])
    /\ attempt' = [attempt EXCEPT ![a].phase = "Broadcasting",
                                  ![a].pc = "recorded"]
    /\ UNCHANGED <<intent, draft, planning, recon, chain, time>>

\* submit_and_watch reaches the node.
Send(a) ==
    /\ At(a, "recorded")
    /\ chain' = [chain EXCEPT ![a] = IF attempt[a].material = "signed"
                                     THEN "pool" ELSE "refused"]
    /\ attempt' = [attempt EXCEPT ![a].pc = "watching"]
    /\ UNCHANGED <<intent, draft, journal, planning, recon, time>>

\* A finalized block holds the transaction, or the outcome stays unknown: a
\* timeout, a closed stream, or a probabilistic status such as Dropped.
WatchEnds(a, result) ==
    /\ \/ At(a, "watching") /\ result = "included" /\ chain[a] = "included"
       \/ At(a, "watching") /\ result = "rejected" /\ chain[a] = "failed"
       \/ (At(a, "watching") \/ At(a, "recorded")) /\ result = "unknown"
    /\ attempt' = [attempt EXCEPT ![a] = Finishing(@, result)]
    /\ UNCHANGED <<intent, draft, journal, planning, recon, chain, time>>

\* mark_terminal, first half: the record is loaded.
FinishLoad(a) ==
    /\ At(a, "finishing")
    /\ journal[attempt[a].draft] # None
    /\ attempt' = [attempt EXCEPT ![a].pc = "saving",
                                  ![a].loaded = journal[attempt[a].draft].tx]
    /\ UNCHANGED <<intent, draft, journal, planning, recon, chain, time>>

StoredResult(result) ==
    CASE result = "included" -> "Included"
      [] result = "rejected" -> "Rejected"
      [] OTHER -> "OutcomeUnknown"

\* mark_terminal, second half: the state is overwritten and saved.
FinishSave(a) ==
    /\ At(a, "saving")
    /\ journal' \in Upserted(journal, attempt[a].draft,
                             [state |-> StoredResult(attempt[a].result),
                              tx |-> attempt[a].loaded])
    /\ attempt' = [attempt EXCEPT ![a].pc = "settling"]
    /\ UNCHANGED <<intent, draft, planning, recon, chain, time>>

\* The worker is gone, and what it held with it.
Ended(r) == [r EXCEPT !.pc = "done", !.result = "none", !.loaded = None,
                      !.awaited = FALSE]

\* The record cannot be loaded or saved.  An inclusion that cannot be
\* recorded is reported as unknown; a rejection that cannot be recorded ends
\* the worker and leaves the draft as it is.
AfterFailedMark(r) ==
    CASE r.result = "included" -> [r EXCEPT !.result = "unknown",
                                            !.pc = "finishing"]
      [] r.result = "rejected" -> Ended(r)
      [] OTHER -> [r EXCEPT !.pc = "settling"]

FinishFails(a) ==
    /\ At(a, "finishing") \/ At(a, "saving")
    /\ attempt' = [attempt EXCEPT ![a] = AfterFailedMark(@)]
    /\ UNCHANGED <<intent, draft, journal, planning, recon, chain, time>>

\* Fault: a failed worker restores the draft even after the broadcast.
SettledDraftRestores(r, result, phase) ==
    IF r.state # "Submitting" THEN r
    ELSE IF result = "included"
         THEN [r EXCEPT !.state = "Submitted", !.submission = "Included",
                        !.control = None, !.material = "cleared"]
         ELSE [r EXCEPT !.state = "Authorized", !.submission = "NotStarted",
                        !.control = None]

\* What finish_submission leaves of the draft: expire_submission,
\* restore_authorized, mark_submission_outcome_unknown, remove_retained_draft
\* or the submitted transfer.  All but the removal spare a draft that is no
\* longer submitting.
SettledDraft(r, result, phase) ==
    IF result = "rejected" /\ phase = "Broadcasting" THEN None
    ELSE IF r.state # "Submitting" THEN r
    ELSE CASE result = "expired" ->
                [ExpiredDraft(r) EXCEPT !.submission = "NotStarted",
                                        !.control = None]
           [] result = "unknown" ->
                [r EXCEPT !.submission = "OutcomeUnknown", !.control = None]
           [] result = "included" ->
                [r EXCEPT !.state = "Submitted", !.submission = "Included",
                          !.control = None, !.material = "cleared"]
           [] OTHER ->
                [r EXCEPT !.state = "Authorized", !.control = None,
                          !.submission = IF result = "cancelled"
                                         THEN "Cancelled" ELSE "NotStarted"]

\* finish_submission, under the drafts lock; a missing draft is an error.
Settle(a) ==
    /\ At(a, "settling")
    /\ LET d == attempt[a].draft IN
        draft' = IF draft[d] = None THEN draft
                 ELSE [draft EXCEPT ![d] =
                          SettledDraft(@, attempt[a].result, attempt[a].phase)]
    /\ attempt' = [attempt EXCEPT ![a] = Ended(@)]
    /\ UNCHANGED <<intent, journal, planning, recon, chain, time>>

\* The worker thread panics.
WorkerDies(a) ==
    /\ attempt[a] # None
    /\ attempt[a].pc \in {"proving", "recorded", "watching"}
    /\ attempt' = [attempt EXCEPT ![a].pc = "dead"]
    /\ UNCHANGED <<intent, draft, journal, planning, recon, chain, time>>

\* Fault: only a broadcast that had begun is recovered.
WaiterRecoversBroadcast(a) ==
    /\ At(a, "dead")
    /\ attempt[a].awaited
    /\ attempt[a].phase = "Broadcasting"
    /\ attempt' = [attempt EXCEPT ![a].result = "unknown",
                                  ![a].pc = "finishing"]
    /\ UNCHANGED <<intent, draft, journal, planning, recon, chain, time>>

\* The waiting future finds the channel closed: unknown, and marked so in
\* the journal if the broadcast had begun.
WaiterRecovers(a) ==
    /\ At(a, "dead")
    /\ attempt[a].awaited
    /\ attempt' = [attempt EXCEPT
            ![a].result = "unknown",
            ![a].pc = IF attempt[a].phase = "Broadcasting"
                      THEN "finishing" ELSE "settling"]
    /\ UNCHANGED <<intent, draft, journal, planning, recon, chain, time>>

-----------------------------------------------------------------------------
(***************************************************************************)
(* Reconciliation with the finalized chain                                 *)
(***************************************************************************)
\* reconcile_submission up to its await: the record is read once.
ReconcileLoad(r, d) ==
    /\ recon[r] = None
    /\ journal[d] # None
    /\ journal[d].state \in {"Broadcasting", "OutcomeUnknown"}
    /\ recon' = [recon EXCEPT ![r] =
            [draft |-> d, tx |-> journal[d].tx, stage |-> "walking",
             verdict |-> "none"]]
    /\ UNCHANGED <<intent, draft, attempt, journal, planning, chain, time>>

\* reconcile_live_submission walks the finalized blocks back to the anchor.
\* It may give up at MAX_RECONCILIATION_BLOCKS before it gets there.
ReconcileWalk(r, verdict) ==
    /\ recon[r] # None /\ recon[r].stage = "walking"
    /\ \/ verdict = "Included" /\ chain[recon[r].tx] = "included"
       \/ verdict = "Rejected" /\ chain[recon[r].tx] = "failed"
       \/ verdict = "none" /\ chain[recon[r].tx] \notin {"included", "failed"}
       \/ verdict = "OutcomeUnknown"
    /\ recon' = [recon EXCEPT
            ![r].stage = IF verdict = "none" THEN "tip" ELSE "saving",
            ![r].verdict = verdict]
    /\ UNCHANGED <<intent, draft, attempt, journal, planning, chain, time>>

\* Fault: the deadline is not compared with the chain's time.
TipVerdictHasty(deadline) == "Expired"

TipVerdict(deadline) ==
    IF deadline <= time THEN "Expired" ELSE "OutcomeUnknown"

\* The anchor was reached without a match: ask the indexer for its tip.
ReconcileTip(r) ==
    /\ recon[r] # None /\ recon[r].stage = "tip"
    /\ recon' = [recon EXCEPT
            ![r].stage = "saving",
            ![r].verdict = TipVerdict(intent[recon[r].draft].deadline)]
    /\ UNCHANGED <<intent, draft, attempt, journal, planning, chain, time>>

\* persist_reconciliation: the record read before the await, with the new
\* state, replaces whatever the journal holds by now.
ReconcileSave(r) ==
    /\ recon[r] # None /\ recon[r].stage = "saving"
    /\ journal' \in Upserted(journal, recon[r].draft,
                             [state |-> recon[r].verdict, tx |-> recon[r].tx])
    /\ recon' = [recon EXCEPT ![r].stage = "applying"]
    /\ UNCHANGED <<intent, draft, attempt, planning, chain, time>>

ReconciledDraft(r, verdict) ==
    CASE verdict = "Included" ->
            [r EXCEPT !.state = "Submitted", !.submission = "Included",
                      !.control = None]
      [] verdict \in {"Rejected", "Expired"} -> None
      [] OTHER -> [r EXCEPT !.submission = "OutcomeUnknown", !.control = None]

\* persist_reconciliation, under the drafts lock.
ReconcileApply(r) ==
    /\ recon[r] # None /\ recon[r].stage = "applying"
    /\ LET d == recon[r].draft IN
        draft' = IF draft[d] = None THEN draft
                 ELSE [draft EXCEPT ![d] =
                          ReconciledDraft(@, recon[r].verdict)]
    /\ recon' = [recon EXCEPT ![r] = None]
    /\ UNCHANGED <<intent, attempt, journal, planning, chain, time>>

\* A node, indexer or journal error, or the future is dropped.
ReconcileFails(r) ==
    /\ recon[r] # None /\ recon[r].stage # "applying"
    /\ recon' = [recon EXCEPT ![r] = None]
    /\ UNCHANGED <<intent, draft, attempt, journal, planning, chain, time>>

-----------------------------------------------------------------------------
(***************************************************************************)
(* The chain and the process                                               *)
(***************************************************************************)
TransferOf(a) == intent[attempt[a].draft].transfer

\* A finalized block takes the transaction: only before its TTL, and only
\* once for the same inputs.
ChainFinalizes(a, outcome) ==
    /\ chain[a] = "pool"
    /\ time < DeadlineOf(a)
    /\ outcome = "included" =>
           \A b \in Attempts : chain[b] = "included" =>
                                  TransferOf(b) # TransferOf(a)
    /\ chain' = [chain EXCEPT ![a] = outcome]
    /\ UNCHANGED <<intent, draft, attempt, journal, planning, recon, time>>

ChainAdvances ==
    /\ time < MaxTime
    /\ time' = time + 1
    /\ UNCHANGED <<intent, draft, attempt, journal, planning, recon, chain>>

\* The process dies and starts again: only the journal and the chain remain.
Restart ==
    /\ draft' = [d \in Drafts |-> None]
    /\ attempt' = [a \in Attempts |->
            IF attempt[a] = None THEN None ELSE Ended(attempt[a])]
    /\ planning' = [p \in Planners |-> None]
    /\ recon' = [r \in Reconcilers |-> None]
    /\ UNCHANGED <<intent, journal, chain, time>>

WorkerStep(a) ==
    \/ \E result \in Result : ProvingEnds(a, result) \/ WatchEnds(a, result)
    \/ BeginBroadcast(a)
    \/ Send(a)
    \/ FinishLoad(a)
    \/ FinishSave(a)
    \/ FinishFails(a)
    \/ Settle(a)
    \/ WaiterRecovers(a)

ReconcileStep(r) ==
    \/ \E d \in Drafts : ReconcileLoad(r, d)
    \/ \E verdict \in Verdict : ReconcileWalk(r, verdict)
    \/ ReconcileTip(r)
    \/ ReconcileSave(r)
    \/ ReconcileApply(r)
    \/ ReconcileFails(r)

PrepareStep(p) ==
    \/ \E i \in Intent : PrepareBegin(p, i)
    \/ PrepareCheck(p)
    \/ \E d \in Drafts : PrepareInsert(p, d)
    \/ PrepareReturn(p)

DraftStep(d) ==
    \/ AuthorizeLate(d)
    \/ Authorize(d)
    \/ GetLate(d)
    \/ SubmitLate(d)
    \/ \E a \in Attempts : Submit(d, a)
    \/ CancelSubmission(d)

Next ==
    \/ \E p \in Planners : PrepareStep(p)
    \/ \E d \in Drafts : DraftStep(d)
    \/ \E a \in Attempts : WorkerStep(a)
    \/ \E a \in Attempts : DropSubmit(a) \/ WorkerDies(a)
    \/ \E r \in Reconcilers : ReconcileStep(r)
    \/ \E a \in Attempts, o \in {"included", "failed"} : ChainFinalizes(a, o)
    \/ ChainAdvances
    \/ Restart

Spec == Init /\ [][Next]_vars

\* Worker threads and the futures that wait for them are scheduled, and every
\* await inside a worker has a timeout.
FairSpec == Spec /\ \A a \in Attempts : WF_vars(WorkerStep(a))

-----------------------------------------------------------------------------
(***************************************************************************)
(* Properties                                                              *)
(***************************************************************************)
Sent(a) == chain[a] # "absent"

\* The transaction is on the chain or can still get there.
CanLand(a) ==
    \/ chain[a] = "included"
    \/ chain[a] = "pool" /\ time < DeadlineOf(a)

AttemptsOf(d) == {a \in Attempts : attempt[a] # None /\ attempt[a].draft = d}

\* As long as a transaction handed to the node has not been refused by a
\* finalized block and the chain has not reached its TTL, the journal blocks
\* every new draft with its fingerprint: through worker panics, restarts,
\* evictions from a full journal, journal failures and reconcilers that save
\* what they read long before (persist-before-broadcast, upsert_entry,
\* persist_reconciliation).
BarrierHolds ==
    \A a \in Attempts :
        CanLand(a) /\ time < DeadlineOf(a) => Blocked(intent[attempt[a].draft])

\* No draft is inserted for an unshielded plan while an earlier transaction
\* of the same fingerprint can still land, although prepare looks at the
\* journal before it takes the drafts lock and a whole submission may happen
\* in between (the second lookup in prepare finds the other draft).
NoReplacementWhileUnresolved ==
    [][\A d \in Drafts :
          intent'[d] # intent[d] /\ intent'[d].transfer \notin Shielded =>
              \A a \in Attempts :
                  CanLand(a) /\ time < DeadlineOf(a) =>
                      ~SameFingerprint(intent[attempt[a].draft],
                                       intent'[d])]_vars

\* A draft offers its signed transaction for submission only while no
\* attempt has ever sent it, and at most one attempt ever does: retry after
\* cancellation or failure never doubles a transfer (restore_authorized is
\* reached only before the broadcast).
SignedOnceSent ==
    \A d \in Drafts :
        LET live == {a \in AttemptsOf(d) :
                        Sent(a) /\ attempt[a].material = "signed"}
        IN /\ Cardinality(live) <= 1
           /\ (draft[d] # None /\ draft[d].state = "Authorized"
                /\ draft[d].material = "signed") => live = {}

\* Once cancel_submission has reported the request as accepted, or the
\* waiting future was dropped in time, that attempt sends nothing, whatever
\* the worker was doing (begin_broadcast rechecks the phase under its lock).
CancelHonoured ==
    /\ \A a \in Attempts :
          attempt[a] # None /\ attempt[a].phase = "CancellationRequested"
              => ~Sent(a)
    /\ \A d \in Drafts :
          (/\ draft[d] # None
           /\ draft[d].submission = "CancellationRequested"
           /\ draft[d].control # None) => ~Sent(draft[d].control)

\* The final states of the journal agree with the finalized chain: Included
\* is on the chain; Rejected will never be; Expired is past its TTL.
JournalTruthful ==
    \A d \in Recorded(journal) :
        /\ journal[d].state = "Included" =>
               \E a \in AttemptsOf(d) : chain[a] = "included"
        /\ journal[d].state = "Rejected" =>
               \A a \in AttemptsOf(d) : ~CanLand(a)
        /\ journal[d].state = "Expired" => intent[d].deadline <= time

\* Fault: the retained draft wins over the journal.
StatusDraftFirst(d) ==
    IF draft[d].submission # "Running" THEN draft[d].submission
    ELSE attempt[draft[d].control].phase

\* submission_status: the journal wins over the retained draft, whose
\* running state is the phase of its control.
Status(d) ==
    IF journal[d] # None THEN journal[d].state
    ELSE IF draft[d].submission # "Running" THEN draft[d].submission
    ELSE attempt[draft[d].control].phase

\* What the user is shown never invites a second payment: a status that
\* allows a retry (retryable) is not reported for a draft with a transaction
\* that the chain may still take or took before its TTL (submission_status).
StatusSafe ==
    \A d \in Drafts :
        draft[d] # None /\ Status(d) \in {"NotStarted", "Cancelled"} =>
            \A a \in AttemptsOf(d) : CanLand(a) => DeadlineOf(a) <= time

\* A submission that started ends: its worker is done, or it panicked and
\* nobody waits for it.  A caller that still waits when the worker panics
\* finishes in its place.
SubmissionSettles ==
    \A a \in Attempts :
        attempt[a] # None ~>
            /\ attempt[a] # None
            /\ \/ attempt[a].pc = "done"
               \/ attempt[a].pc = "dead" /\ ~attempt[a].awaited

\* "Same-draft persistence is monotonic: it cannot downgrade an included
\* record to an unresolved state" (docs/adr/0110).
IncludedIsFinal ==
    [][\A d \in Drafts :
          journal[d] # None /\ journal[d].state = "Included" =>
              journal'[d] # None /\ journal'[d].state = "Included"]_vars

\* "Only a finalized rejection or expiry permits a newly prepared
\* replacement" (docs/adr/0035): a transfer that the chain has included does
\* not become replaceable.
IncludedNeverReplaceable ==
    \A d \in Recorded(journal) :
        journal[d].state = "Expired" => chain[journal[d].tx] # "included"

\* "A crash after the durable boundary cannot silently make the same intent
\* eligible for another broadcast" (docs/adr/0035): while the outcome of a
\* transfer is unresolved, the same amount to the same recipient from the
\* same inputs is not planned again.
SameTransferBlocked ==
    [][\A d \in Drafts : intent'[d] # intent[d] =>
          \A e \in Recorded(journal) :
              journal[e].state \in {"Broadcasting", "OutcomeUnknown"} =>
                  intent[e].transfer # intent'[d].transfer]_vars

\* `retained_material_expires_without_becoming_submission_ready`
\* (crates/adapters/midnight/src/transaction.rs): a draft that has expired is
\* not ready for submission again.
ExpiredNeverReady ==
    [][\A d \in Drafts :
          draft[d] # None /\ draft[d].state = "Expired" =>
              draft'[d] = None \/ draft'[d].state # "Authorized"]_vars

=============================================================================
