---------------------------- MODULE DustAdapter ----------------------------
(***************************************************************************)
(* The DUST-registration port of the Midnight adapter                      *)
(* (adapters/midnight/src/dust_registration.rs) with the journal and the   *)
(* control it shares with transfers, and the chain its workers send to.    *)
(*                                                                         *)
(* A draft is planned from the eligible NIGHT the wallet sees.  Its        *)
(* planning fingerprint names those outputs, in the order of the DUST they *)
(* have generated: a deposit, a payment or the passing of time gives       *)
(* another one.  A draft's name is the hash of a randomised payload and is *)
(* never used again; its transaction has the draft's name.                 *)
(* Drafts do not expire here: TransferSubmission treats deadlines, for the *)
(* same journal and the same control.                                      *)
(***************************************************************************)
EXTENDS Integers

CONSTANTS Drafts,        \* names of drafts
          Fingerprints   \* planning fingerprints

VARIABLES draft,        \* retained drafts: state and submission_state
          fingerprint,  \* the planning fingerprint of each draft ever made
          journal,      \* durable: the state of each draft's journal entry
          worker,       \* the submission thread of each draft and its control
          chain         \* the ledger: what became of each draft's transaction

adapter == <<draft, fingerprint, journal, worker, chain>>

NoDraft == [state |-> "absent", submission |-> "NotStarted"]
NoFingerprint == "none"
NoWorker == [at |-> "none", phase |-> "Terminal", answer |-> "none"]

AdapterInit ==
  /\ draft = [d \in Drafts |-> NoDraft]
  /\ fingerprint = [d \in Drafts |-> NoFingerprint]
  /\ journal = [d \in Drafts |-> "absent"]
  /\ worker = [d \in Drafts |-> NoWorker]
  /\ chain = [d \in Drafts |-> "absent"]

Landed == \E d \in Drafts : chain[d] = "included"

----------------------------------------------------------------------------
(* prepare, of what the wallet sees as p.  The journal is asked first, for *)
(* an entry of the same fingerprint.  Then a retained draft of the same    *)
(* fingerprint is returned whatever its state, an unfinished one of any    *)
(* other stands in the way, and only then a new draft is made.  An account *)
(* whose NIGHT is registered already has nothing left to plan, as soon as  *)
(* the wallet's own view shows it.                                         *)

Live == {d \in Drafts : draft[d].state # "absent"}
Unfinished == {d \in Drafts : draft[d].state \in {"Prepared", "Authorized", "Submitting"}}
Fresh == {d \in Drafts : fingerprint[d] = NoFingerprint}
OfFingerprint(p) == {d \in Drafts : fingerprint[d] = p}

\* Fault: only a draft of the same fingerprint is looked for.
PlannedBeside(p) == IF Live \cap OfFingerprint(p) # {} THEN Live \cap OfFingerprint(p) ELSE Fresh

Planned(p) ==
  CASE Live \cap OfFingerprint(p) # {} -> Live \cap OfFingerprint(p)
    [] Live \cap OfFingerprint(p) = {} /\ Unfinished # {} -> {"refused"}
    [] OTHER -> Fresh

\* Fault: a broadcast without a verdict does not stand in the way.
PlansUnresolved(p) ==
  IF \E d \in OfFingerprint(p) : journal[d] = "Included" THEN {"current"} ELSE Planned(p)

Plans(p) ==
  CASE \E d \in OfFingerprint(p) : journal[d] = "Included" -> {"current"}
    [] \A d \in OfFingerprint(p) : journal[d] = "absent" -> Planned(p)
    [] OTHER -> {"refused"}

PrepareAnswers(p) == Plans(p) \cup (IF Landed THEN {"current"} ELSE {})

Prepared(d, p) ==
  IF d \in Live THEN UNCHANGED <<draft, fingerprint>>
  ELSE /\ draft' = [draft EXCEPT ![d] = [NoDraft EXCEPT !.state = "Prepared"]]
       /\ fingerprint' = [fingerprint EXCEPT ![d] = p]

\* authorize, behind the approval of a draft that is still Prepared
MayAuthorize(d) == draft[d].state = "Prepared"
Authorized(d) == [draft EXCEPT ![d].state = "Authorized"]

\* submit, behind the approval of a draft that is still Authorized
MaySubmit(d) == draft[d].state = "Authorized"
Submitting(d) == [draft EXCEPT ![d] = [state |-> "Submitting", submission |-> "Running"]]
Spawned(d) == [worker EXCEPT ![d] = [at |-> "proving", phase |-> "Working", answer |-> "none"]]

\* CancelSubmissionOnDrop: the waiting future is gone.
Cancelled(w) == IF w.phase = "Working" THEN [w EXCEPT !.phase = "CancellationRequested"] ELSE w

\* status: the journal before the retained draft.  Only a journal entry names
\* a transaction.
Status(d) ==
  CASE journal[d] # "absent" -> journal[d]
    [] journal[d] = "absent" /\ d \notin Live -> "absent"
    [] OTHER -> IF draft[d].submission = "Cancelled" THEN "Cancelled" ELSE "Pending"

----------------------------------------------------------------------------
(* The submission thread.                                                  *)

Ends(d, answer) == worker' = [worker EXCEPT ![d] = [@ EXCEPT !.at = "done", !.answer = answer,
                                                             !.phase = "Terminal"]]

RestoreAuthorized(d, submission) ==
  draft' = IF draft[d].state = "Submitting"
             THEN [draft EXCEPT ![d] = [state |-> "Authorized", submission |-> submission]]
             ELSE draft

\* begin_broadcast: the entry is durable before anything is sent.
BeginBroadcast(d) ==
  /\ worker[d].at = "proving" /\ worker[d].phase = "Working"
  /\ journal' = [journal EXCEPT ![d] = "Broadcasting"]
  /\ worker' = [worker EXCEPT ![d].at = "recorded", ![d].phase = "Broadcasting"]
  /\ UNCHANGED <<draft, fingerprint, chain>>

WorkerCancelled(d) ==
  /\ worker[d].at = "proving" /\ worker[d].phase = "CancellationRequested"
  /\ RestoreAuthorized(d, "Cancelled")
  /\ Ends(d, "failed")
  /\ UNCHANGED <<fingerprint, journal, chain>>

\* Proving or balancing fails, or the node cannot be reached yet.
WorkerFailsEarly(d) ==
  /\ worker[d].at = "proving"
  /\ RestoreAuthorized(d, "NotStarted")
  /\ Ends(d, "failed")
  /\ UNCHANGED <<fingerprint, journal, chain>>

Send(d) ==
  /\ worker[d].at = "recorded"
  /\ worker' = [worker EXCEPT ![d].at = "sent"]
  /\ chain' = [chain EXCEPT ![d] = "pool"]
  /\ UNCHANGED <<draft, fingerprint, journal>>

\* A finalized block says that the transaction failed.
WatchRejected(d) ==
  /\ worker[d].at = "sent" /\ chain[d] = "failed"
  /\ journal' = [journal EXCEPT ![d] = "Rejected"]
  /\ draft' = [draft EXCEPT ![d] = NoDraft]
  /\ Ends(d, "failed")
  /\ UNCHANGED <<fingerprint, chain>>

\* The node does not answer, or the watch ends without an answer.
WatchLost(d) ==
  /\ worker[d].at \in {"recorded", "sent"}
  /\ journal' = [journal EXCEPT ![d] = "OutcomeUnknown"]
  /\ draft' = IF d \in Live THEN [draft EXCEPT ![d].submission = "OutcomeUnknown"] ELSE draft
  /\ Ends(d, "unknown")
  /\ UNCHANGED <<fingerprint, chain>>

WatchIncluded(d) ==
  /\ worker[d].at = "sent" /\ chain[d] = "included"
  /\ journal' = [journal EXCEPT ![d] = "Included"]
  /\ draft' = IF draft[d].state = "Submitting"
                THEN [draft EXCEPT ![d] = [state |-> "Submitted", submission |-> "Included"]]
                ELSE draft
  /\ Ends(d, IF draft[d].state = "Submitting" THEN "included" ELSE "failed")
  /\ UNCHANGED <<fingerprint, chain>>

\* The journal fails at the verdict: the entry and the draft stay as they are,
\* and the thread answers with an error.
VerdictUnsaved(d) ==
  /\ worker[d].at = "sent" /\ chain[d] \in {"included", "failed"}
  /\ worker' = [worker EXCEPT ![d].at = "done", ![d].answer = "failed"]
  /\ UNCHANGED <<draft, fingerprint, journal, chain>>

\* The journal fails when the watch is lost, which is ignored.
LossUnsaved(d) ==
  /\ worker[d].at \in {"recorded", "sent"}
  /\ draft' = IF d \in Live THEN [draft EXCEPT ![d].submission = "OutcomeUnknown"] ELSE draft
  /\ worker' = [worker EXCEPT ![d].at = "done", ![d].answer = "unknown"]
  /\ UNCHANGED <<fingerprint, journal, chain>>

WorkerStep(d) ==
  \/ BeginBroadcast(d) \/ WorkerCancelled(d) \/ WorkerFailsEarly(d)
  \/ Send(d) \/ WatchRejected(d) \/ WatchLost(d) \/ WatchIncluded(d)

\* A transaction in the pool is included, or can never be.
Land(d) ==
  /\ chain[d] = "pool"
  /\ \E end \in {"included", "failed"} : chain' = [chain EXCEPT ![d] = end]
  /\ UNCHANGED <<draft, fingerprint, journal, worker>>

----------------------------------------------------------------------------
(* reconcile_submission: what the chain says is fetched on one side of an  *)
(* await and saved, whole, on the other.                                   *)

Verdict(d) == CASE chain[d] = "included" -> "Included"
                [] chain[d] = "failed" -> "Rejected"
                [] OTHER -> "OutcomeUnknown"

Reconcilable(d) == journal[d] \in {"Broadcasting", "OutcomeUnknown"}

ReconciledDraft(d, verdict) ==
  CASE d \notin Live -> draft
    [] d \in Live /\ verdict = "Included" ->
         [draft EXCEPT ![d] = [state |-> "Submitted", submission |-> "Included"]]
    [] d \in Live /\ verdict = "Rejected" -> [draft EXCEPT ![d] = NoDraft]
    [] OTHER -> [draft EXCEPT ![d].submission = "OutcomeUnknown"]

\* A process dies with its drafts and threads; journal and chain remain.
AdapterCrash ==
  /\ draft' = [d \in Drafts |-> NoDraft]
  /\ worker' = [d \in Drafts |-> NoWorker]
  /\ UNCHANGED <<fingerprint, journal, chain>>
=============================================================================
