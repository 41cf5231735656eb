-------------------------- MODULE TransferSubmissionProofs --------------------------
(***************************************************************************)
(* The safety of TransferSubmission for any number of drafts, attempts,    *)
(* planners and reconcilers.                                               *)
(*                                                                         *)
(* First the inductive invariant, and the proof that every step that keeps *)
(* the types keeps what it says of attempts, of records, of                *)
(* reconciliations, of signed transactions, of controls, of the journal as *)
(* a barrier and of plans.  Then the bound of the journal, the types, and  *)
(* the theorems.                                                           *)
(***************************************************************************)
EXTENDS TransferSubmission, FiniteSetTheorems, TLAPS

-----------------------------------------------------------------------------
(***************************************************************************)
(* The inductive invariant                                                 *)
(***************************************************************************)
\* The attempt holds, or has given to the node, a usable signed transaction.
Active(a) ==
    /\ attempt[a] # None
    /\ attempt[a].material = "signed"
    /\ attempt[a].pc # "done" \/ chain[a] # "absent"

\* What a worker with record r knows of its transaction, of which the chain
\* knows c.
Own(r, c) ==
    /\ c \in {"pool", "included", "failed"} => r.material = "signed"
    /\ c # "absent" => r.phase = "Broadcasting"
    /\ r.pc \in {"proving", "recorded"} => c = "absent"
    /\ r.pc \in {"recorded", "watching"} => r.phase = "Broadcasting"
    /\ r.pc = "proving" => r.phase # "Broadcasting"
    /\ r.result = "rejected" => c = "failed"
    /\ r.result = "included" => c = "included"
    /\ r.pc \in {"settling", "finishing", "saving"} /\ c # "absent" =>
           r.result \in {"unknown", "included", "rejected"}

AttemptFacts(a) ==
    /\ attempt[a] = None => chain[a] = "absent"
    /\ attempt[a] # None =>
        /\ intent[attempt[a].draft] # None
        /\ Own(attempt[a], chain[a])
        /\ attempt[a].pc = "saving" =>
             /\ attempt[a].loaded # None
             /\ attempt[attempt[a].loaded] # None
             /\ attempt[attempt[a].loaded].draft = attempt[a].draft

AttemptInv == \A a \in Attempts : AttemptFacts(a)

\* The signed transaction of a draft is in at most one pair of hands.
Shape(r) ==
    /\ r.state = "Prepared" <=> r.material = "payload"
    /\ r.state = "Expired" => r.material = "cleared"
    /\ r.state \in {"Authorized", "Submitting"} =>
           r.material \in {"signed", "void"}

HeldFacts(d, r) ==
    /\ intent[d] # None
    /\ Shape(r)
    /\ \A a \in AttemptsOf(d) :
          /\ r.material # "payload"
          /\ r.material = "signed" => attempt[a].material = "signed"
          /\ r.material = "signed" /\ r.state = "Authorized" => ~Active(a)

SignedInv ==
    /\ \A a, b \in Attempts :
          Active(a) /\ Active(b) /\ attempt[a].draft = attempt[b].draft => a = b
    /\ \A d \in Drafts : draft[d] # None => HeldFacts(d, draft[d])

\* A draft's control is an attempt of that draft; a cancellation that the
\* draft remembers is one that the control has accepted.
ControlInv ==
    \A d \in Drafts : draft[d] # None /\ draft[d].control # None =>
        /\ attempt[draft[d].control] # None
        /\ draft[d].submission = "CancellationRequested" =>
               attempt[draft[d].control].phase = "CancellationRequested"

\* Records and reconciliations are about attempts of their draft, and their
\* final states are facts about the chain.
EntryFacts(d, e) ==
    /\ attempt[e.tx] # None
    /\ attempt[e.tx].draft = d
    /\ e.state = "Included" => \E a \in AttemptsOf(d) : chain[a] = "included"
    /\ e.state = "Rejected" => \E a \in AttemptsOf(d) : chain[a] = "failed"
    /\ e.state = "Expired" => intent[d].deadline <= time

RecordInv == \A d \in Drafts : journal[d] # None => EntryFacts(d, journal[d])

ReconFacts(q) ==
    /\ attempt[q.tx] # None
    /\ attempt[q.tx].draft = q.draft
    /\ q.stage \in {"saving", "applying"} => q.verdict # "none"
    /\ q.verdict = "Included" => chain[q.tx] = "included"
    /\ q.verdict = "Rejected" => chain[q.tx] = "failed"
    /\ q.verdict = "Expired" => intent[q.draft].deadline <= time

ReconInv == \A r \in Reconcilers : recon[r] # None => ReconFacts(recon[r])

Blocking(d) ==
    /\ journal[d] # None
    /\ journal[d].state \in {"Broadcasting", "OutcomeUnknown", "Included"}

\* The signed transaction is about to be sent, or was sent and not refused.
Pending(a) ==
    /\ attempt[a] # None
    /\ attempt[a].material = "signed"
    /\ attempt[a].pc = "recorded" \/ chain[a] # "absent"
    /\ chain[a] # "failed"
    /\ time < DeadlineOf(a)

BarrierInv ==
    \A a \in Attempts : Pending(a) => Blocking(attempt[a].draft)

\* An unshielded plan that has passed the journal will find the draft of any
\* equal transfer sent since.
PlanInv ==
    /\ \A a \in Attempts :
          (/\ attempt[a] # None
           /\ attempt[a].material = "signed"
           /\ attempt[a].pc = "proving"
           /\ time < DeadlineOf(a)) => draft[attempt[a].draft] # None
    /\ \A a \in Attempts, p \in Planners :
          (/\ Pending(a)
           /\ planning[p] # None
           /\ planning[p].checked = TRUE
           /\ planning[p].intent.transfer \notin Shielded
           /\ SameFingerprint(intent[attempt[a].draft], planning[p].intent))
              => draft[attempt[a].draft] # None

IInv ==
    /\ TypeOK
    /\ AttemptInv
    /\ SignedInv
    /\ ControlInv
    /\ RecordInv
    /\ ReconInv
    /\ BarrierInv
    /\ PlanInv

-----------------------------------------------------------------------------
(***************************************************************************)
(* The journal                                                             *)
(***************************************************************************)
Journal == [Drafts -> Entry \cup {None}]

\* What a save may do: store the record, or evict a record (the new one
\* included) whose outcome is settled.
LEMMA UpsertedFacts ==
    ASSUME NEW j \in Journal, NEW d \in Drafts, NEW e \in Entry,
           NEW k \in Upserted(j, d, e)
    PROVE  /\ k \in Journal
           /\ \A x \in Drafts \ {d} :
                 k[x] = j[x] \/ (k[x] = None /\ j[x] # None
                                  /\ j[x].state \in {"Rejected", "Expired"})
           /\ k[d] = e \/ (k[d] = None /\ e.state \in {"Rejected", "Expired"})
<1> DEFINE grown == [j EXCEPT ![d] = e]
<1>1. /\ grown \in Journal /\ grown[d] = e
      /\ \A x \in Drafts \ {d} : grown[x] = j[x]
  BY DEF Journal
<1>2. CASE k = grown
  BY <1>1, <1>2
<1>3. CASE k # grown
  <2>1. PICK x \in Evictable(grown) : k = [grown EXCEPT ![x] = None]
    BY Zenon, <1>3 DEF Upserted
  <2>2. x \in Drafts /\ grown[x] # None /\ grown[x].state \in {"Rejected", "Expired"}
    BY <2>1 DEF Evictable, Recorded
  <2>3. k \in Journal /\ k[x] = None /\ \A y \in Drafts \ {x} : k[y] = grown[y]
    BY <1>1, <2>1, <2>2 DEF Journal
  <2> QED
    BY <1>1, <2>2, <2>3
<1> QED
  BY <1>2, <1>3

-----------------------------------------------------------------------------
(***************************************************************************)
(* Type correctness                                                        *)
(***************************************************************************)
LEMMA FinishingType ==
    ASSUME NEW r \in Attempt, NEW result \in Result
    PROVE  Finishing(r, result) \in Attempt
BY ZenonT(60) DEF Finishing, Attempt, Result

\* An attempt that ends is an attempt.
LEMMA EndedType ==
    ASSUME NEW r \in Attempt
    PROVE  Ended(r) \in Attempt
BY Zenon DEF Ended, Attempt, Result

\* So is one whose record was not saved.
LEMMA AfterFailedMarkType ==
    ASSUME NEW r \in Attempt
    PROVE  AfterFailedMark(r) \in Attempt
BY ZenonT(60), EndedType DEF AfterFailedMark, Attempt, Result

\* Settling leaves a draft or nothing.
LEMMA SettledDraftType ==
    ASSUME NEW r \in Draft, NEW result, NEW phase
    PROVE  SettledDraft(r, result, phase) \in Draft \cup {None}
BY ZenonT(60) DEF SettledDraft, ExpiredDraft, Draft, DraftState, SubmissionState, Material

\* Reconciling leaves a draft or nothing.
LEMMA ReconciledDraftType ==
    ASSUME NEW r \in Draft, NEW verdict
    PROVE  ReconciledDraft(r, verdict) \in Draft \cup {None}
BY Zenon DEF ReconciledDraft, Draft, DraftState, SubmissionState

\* The journal's type.
LEMMA JournalType == TypeOK => journal \in Journal
BY DEF TypeOK, Journal

\* An expired draft is a draft.
LEMMA ExpiredDraftType ==
    ASSUME NEW r \in Draft
    PROVE  ExpiredDraft(r) \in Draft
BY Zenon DEF ExpiredDraft, Draft, DraftState, Material

-----------------------------------------------------------------------------
(***************************************************************************)
(* What no step takes back                                                 *)
(***************************************************************************)
\* What a step keeps of an attempt.
Kept(r, n) ==
    /\ n.draft = r.draft
    /\ n.material = r.material
    /\ r.phase = "CancellationRequested" => n.phase = "CancellationRequested"

\* An attempt keeps its draft, its material and its cancellation, the chain
\* keeps what it has decided, and intents and time only grow.
Stable ==
    /\ \A a \in Attempts : attempt[a] # None =>
          attempt'[a] # None /\ Kept(attempt[a], attempt'[a])
    /\ \A a \in Attempts :
          chain[a] \in {"included", "failed", "refused"} => chain'[a] = chain[a]
    /\ \A d \in Drafts : intent[d] # None => intent'[d] = intent[d]
    /\ time \in Nat /\ time' \in Nat /\ time <= time'

\* Finishing, Ended and AfterFailedMark keep the identity of an attempt.
LEMMA RecordsKept ==
    ASSUME NEW r \in Attempt
    PROVE  /\ Ended(r).draft = r.draft
           /\ Ended(r).material = r.material
           /\ Ended(r).phase = r.phase
           /\ AfterFailedMark(r).draft = r.draft
           /\ AfterFailedMark(r).material = r.material
           /\ AfterFailedMark(r).phase = r.phase
           /\ \A result \in Result :
                 /\ Finishing(r, result).draft = r.draft
                 /\ Finishing(r, result).material = r.material
                 /\ Finishing(r, result).phase = r.phase
BY DEF Ended, AfterFailedMark, Finishing, Attempt

\* Where the worker goes from each of its ends.
LEMMA RecordsMoved ==
    ASSUME NEW r \in Attempt
    PROVE  /\ Ended(r).pc = "done"
           /\ AfterFailedMark(r).pc \in {"finishing", "settling", "done"}
           /\ \A result \in Result :
                 Finishing(r, result).pc \in {"finishing", "settling"}
BY DEF Ended, AfterFailedMark, Finishing, Attempt

\* A worker's step changes only its own attempt, and keeps its identity.
LEMMA WorkerFrame ==
    ASSUME IInv, NEW a \in Attempts,
           WorkerStep(a) \/ DropSubmit(a) \/ WorkerDies(a)
    PROVE  /\ attempt[a] \in Attempt
           /\ attempt'[a] \in Attempt
           /\ \A b \in Attempts \ {a} : attempt'[b] = attempt[b]
           /\ Kept(attempt[a], attempt'[a])
           /\ UNCHANGED <<intent, planning, recon, time>>
<1> USE DEF IInv
<1>1. attempt[a] # None
  BY DEF WorkerStep, ProvingEnds, WatchEnds, BeginBroadcast, Send, FinishLoad,
         FinishSave, FinishFails, Settle, WaiterRecovers, DropSubmit,
         WorkerDies, At
<1>2. attempt[a] \in Attempt
  BY <1>1 DEF TypeOK
<1>3. UNCHANGED <<intent, planning, recon, time>>
  BY DEF WorkerStep, ProvingEnds, WatchEnds, BeginBroadcast, Send, FinishLoad,
         FinishSave, FinishFails, Settle, WaiterRecovers, DropSubmit,
         WorkerDies
<1>4. /\ Kept(attempt[a], attempt'[a])
      /\ \A b \in Attempts \ {a} : attempt'[b] = attempt[b]
  <2>1. ASSUME NEW result \in Result,
               ProvingEnds(a, result) \/ WatchEnds(a, result)
        PROVE  <1>4
    <3>1. attempt' = [attempt EXCEPT ![a] = Finishing(attempt[a], result)]
      BY <2>1 DEF ProvingEnds, WatchEnds
    <3> QED
      BY <1>2, <3>1, RecordsKept DEF Kept, TypeOK
  <2>2. CASE BeginBroadcast(a)
    <3>1. attempt' = [attempt EXCEPT ![a] =
              [attempt[a] EXCEPT !.phase = "Broadcasting", !.pc = "recorded"]]
      BY Zenon, <1>2, <2>2 DEF BeginBroadcast, TypeOK
    <3>2. attempt[a].phase = "Working"
      BY <2>2 DEF BeginBroadcast, MayBroadcast
    <3> QED
      BY <1>2, <3>1, <3>2 DEF Kept, Attempt, TypeOK
  <2>3. CASE Send(a)
    <3>1. attempt' = [attempt EXCEPT ![a] =
              [attempt[a] EXCEPT !.pc = "watching"]]
      BY <1>2, <2>3 DEF Send, TypeOK
    <3> QED
      BY <1>2, <3>1 DEF Kept, Attempt, TypeOK
  <2>4. CASE FinishLoad(a)
    <3>1. attempt' = [attempt EXCEPT ![a] =
              [attempt[a] EXCEPT !.pc = "saving",
                                 !.loaded = journal[attempt[a].draft].tx]]
      BY Zenon, <1>2, <2>4 DEF FinishLoad, TypeOK
    <3> QED
      BY <1>2, <3>1 DEF Kept, Attempt, TypeOK
  <2>5. CASE FinishSave(a)
    <3>1. attempt' = [attempt EXCEPT ![a] =
              [attempt[a] EXCEPT !.pc = "settling"]]
      BY <1>2, <2>5 DEF FinishSave, TypeOK
    <3> QED
      BY <1>2, <3>1 DEF Kept, Attempt, TypeOK
  <2>6. CASE FinishFails(a)
    BY <1>2, <2>6, RecordsKept DEF FinishFails, Kept, TypeOK
  <2>7. CASE Settle(a)
    BY <1>2, <2>7, RecordsKept DEF Settle, Kept, TypeOK
  <2>8. CASE WaiterRecovers(a)
    <3>1. PICK pc \in {"finishing", "settling"} :
              attempt' = [attempt EXCEPT ![a] =
                  [attempt[a] EXCEPT !.result = "unknown", !.pc = pc]]
      BY Zenon, <1>2, <2>8 DEF WaiterRecovers, TypeOK
    <3> QED
      BY <1>2, <3>1 DEF Kept, Attempt, TypeOK
  <2>9. CASE DropSubmit(a)
    <3>1. attempt' = [attempt EXCEPT ![a] =
            [attempt[a] EXCEPT !.awaited = FALSE,
                               !.phase = CancelledPhase(attempt[a].phase)]]
      BY Zenon, <1>2, <2>9 DEF DropSubmit, TypeOK
    <3> QED
      BY <1>2, <3>1 DEF Kept, Attempt, TypeOK, CancelledPhase
  <2>10. CASE WorkerDies(a)
    <3>1. attempt' = [attempt EXCEPT ![a] = [attempt[a] EXCEPT !.pc = "dead"]]
      BY <1>2, <2>10 DEF WorkerDies, TypeOK
    <3> QED
      BY <1>2, <3>1 DEF Kept, Attempt, TypeOK
  <2> QED
    BY <2>1, <2>2, <2>3, <2>4, <2>5, <2>6, <2>7, <2>8, <2>9, <2>10
       DEF WorkerStep
<1>5. attempt'[a] \in Attempt
  <2>1. CASE Settle(a) \/ FinishFails(a)
    BY <1>2, <2>1, EndedType, AfterFailedMarkType DEF Settle, FinishFails, TypeOK
  <2>2. ASSUME NEW result \in Result,
               ProvingEnds(a, result) \/ WatchEnds(a, result)
        PROVE  attempt'[a] \in Attempt
    BY <1>2, <2>2, FinishingType DEF ProvingEnds, WatchEnds, TypeOK
  <2>3. CASE BeginBroadcast(a) \/ Send(a) \/ FinishSave(a) \/ WorkerDies(a)
    BY <1>2, <2>3 DEF BeginBroadcast, Send, FinishSave, WorkerDies, TypeOK,
                      Attempt
  <2>4. CASE FinishLoad(a)
    <3>1. journal[attempt[a].draft].tx \in Attempts
      BY <1>2, <2>4 DEF FinishLoad, TypeOK, Attempt, Entry
    <3> QED
      BY Zenon, <1>2, <2>4, <3>1 DEF FinishLoad, TypeOK, Attempt
  <2>5. CASE WaiterRecovers(a)
    BY ZenonT(60), <1>2, <2>5 DEF WaiterRecovers, TypeOK, Attempt, Result
  <2>6. CASE DropSubmit(a)
    <3>1. attempt' = [attempt EXCEPT ![a] =
            [attempt[a] EXCEPT !.awaited = FALSE,
                               !.phase = CancelledPhase(attempt[a].phase)]]
      BY Zenon, <1>2, <2>6 DEF DropSubmit, TypeOK
    <3> QED
      BY Zenon, <1>2, <3>1 DEF CancelledPhase, TypeOK, Attempt
  <2> QED
    BY <2>1, <2>2, <2>3, <2>4, <2>5, <2>6 DEF WorkerStep
<1> QED
  BY ZenonT(60), <1>2, <1>3, <1>4, <1>5

\* A reconciler changes no intent, attempt, plan or chain.
LEMMA ReconcileFrame ==
    ASSUME NEW r \in Reconcilers, ReconcileStep(r)
    PROVE  UNCHANGED <<intent, attempt, planning, chain, time>>
BY Zenon DEF ReconcileStep, ReconcileLoad, ReconcileWalk, ReconcileTip,
       ReconcileSave, ReconcileApply, ReconcileFails

\* A planner changes no attempt, record, reconciliation or chain.
LEMMA PrepareFrame ==
    ASSUME NEW p \in Planners, PrepareStep(p)
    PROVE  UNCHANGED <<attempt, journal, recon, chain, time>>
BY DEF PrepareStep, PrepareBegin, PrepareCheck, PrepareInsert, PrepareReturn

\* What every step leaves fixed.
LEMMA StableStep ==
    ASSUME IInv, [Next]_vars
    PROVE  Stable
<1> USE DEF IInv
<1>1. time \in Nat
  BY ConstantsAssumption DEF TypeOK
<1>2. ASSUME NEW p \in Planners, PrepareStep(p)
      PROVE  Stable
  <2>1. CASE PrepareCheck(p) \/ PrepareReturn(p)
    BY <1>1, <2>1 DEF PrepareCheck, PrepareReturn, Stable, Kept
  <2>2. ASSUME NEW i \in Intent, PrepareBegin(p, i)
        PROVE  Stable
    BY <1>1, <2>2 DEF PrepareBegin, Stable, Kept
  <2>3. ASSUME NEW d \in Drafts, PrepareInsert(p, d)
        PROVE  Stable
    BY <1>1, <2>3 DEF PrepareInsert, Stable, Kept, TypeOK
  <2> QED
    BY <1>2, <2>1, <2>2, <2>3 DEF PrepareStep
<1>3. ASSUME NEW d \in Drafts, DraftStep(d)
      PROVE  Stable
  <2>1. CASE AuthorizeLate(d) \/ Authorize(d) \/ GetLate(d) \/ SubmitLate(d)
    BY <1>1, <2>1 DEF AuthorizeLate, Authorize, GetLate, SubmitLate, Stable, Kept
  <2>2. ASSUME NEW a \in Attempts, Submit(d, a)
        PROVE  Stable
    BY <1>1, <2>2 DEF Submit, Stable, Kept, TypeOK
  <2>3. CASE CancelSubmission(d)
    <3>1. PICK a \in Attempts : a = draft[d].control
      BY <2>3 DEF CancelSubmission, TypeOK, Draft
    <3>2. attempt[a] \in Attempt
      BY <2>3, <3>1 DEF CancelSubmission, ControlInv, TypeOK
    <3>3. attempt' = [attempt EXCEPT ![a] =
              [attempt[a] EXCEPT !.phase = "CancellationRequested"]]
      BY Zenon, <2>3, <3>1, <3>2 DEF CancelSubmission, CancelledPhase, TypeOK
    <3>4. [attempt[a] EXCEPT !.phase = "CancellationRequested"] \in Attempt
      BY <3>2 DEF Attempt
    <3>5. Kept(attempt[a], [attempt[a] EXCEPT !.phase = "CancellationRequested"])
      BY <3>2 DEF Attempt, Kept
    <3> QED
      BY <1>1, <2>3, <3>3, <3>4, <3>5, ConstantsAssumption
         DEF CancelSubmission, Stable, TypeOK, Kept
  <2> QED
    BY <1>3, <2>1, <2>2, <2>3 DEF DraftStep
<1>4. ASSUME NEW a \in Attempts,
             WorkerStep(a) \/ DropSubmit(a) \/ WorkerDies(a)
      PROVE  Stable
  <2>1. \A b \in Attempts : chain[b] # "absent" => chain'[b] = chain[b]
    BY <1>4 DEF WorkerStep, ProvingEnds, WatchEnds, BeginBroadcast, Send,
         FinishLoad, FinishSave, FinishFails, Settle, WaiterRecovers,
         DropSubmit, WorkerDies, At, TypeOK, AttemptInv,
         AttemptFacts, Own
  <2> QED
    BY SMTT(60), <1>1, <1>4, <2>1, WorkerFrame, ConstantsAssumption DEF Stable, Kept
<1>5. ASSUME NEW r \in Reconcilers, ReconcileStep(r)
      PROVE  Stable
  BY <1>1, <1>5, ReconcileFrame DEF Stable, Kept
<1>6. ASSUME NEW a \in Attempts, NEW o \in {"included", "failed"},
             ChainFinalizes(a, o)
      PROVE  Stable
  BY <1>1, <1>6 DEF ChainFinalizes, Stable, Kept, TypeOK
<1>7. CASE ChainAdvances
  BY <1>1, <1>7 DEF ChainAdvances, Stable, Kept
<1>8. CASE Restart
  <2>1. ASSUME NEW a \in Attempts, attempt[a] # None
        PROVE  attempt'[a] # None /\ Kept(attempt[a], attempt'[a])
    BY <1>8, <2>1, RecordsKept, EndedType, ConstantsAssumption
       DEF Restart, TypeOK, Kept
  <2> QED
    BY <1>1, <1>8, <2>1 DEF Restart, Stable
<1>9. CASE UNCHANGED vars
  BY <1>1, <1>9 DEF vars, Stable, Kept
<1> QED
  BY <1>2, <1>3, <1>4, <1>5, <1>6, <1>7, <1>8, <1>9 DEF Next

-----------------------------------------------------------------------------
(***************************************************************************)
(* AttemptInv is preserved                                                 *)
(***************************************************************************)
LEMMA OwnFinishing ==
    ASSUME NEW r \in Attempt, NEW c \in ChainState, NEW result \in Result,
           Own(r, c), result # "none",
           c # "absent" => result \in {"unknown", "included", "rejected"},
           result = "rejected" => c = "failed",
           result = "included" => c = "included"
    PROVE  Own(Finishing(r, result), c)
BY DEF Own, Finishing, Attempt, Result, ChainState

\* An attempt that ends agrees with its transaction as before.
LEMMA OwnEnded ==
    ASSUME NEW r \in Attempt, NEW c \in ChainState, Own(r, c)
    PROVE  Own(Ended(r), c)
BY DEF Own, Ended, Attempt, ChainState

\* So does one whose record was not saved.
LEMMA OwnAfterFailedMark ==
    ASSUME NEW r \in Attempt, NEW c \in ChainState, Own(r, c),
           r.pc \in {"finishing", "saving"}
    PROVE  Own(AfterFailedMark(r), c)
BY DEF Own, AfterFailedMark, Ended, Attempt, ChainState, Result

\* A worker's step keeps what it knows of its transaction.
LEMMA WorkerOwn ==
    ASSUME IInv, NEW a \in Attempts,
           WorkerStep(a) \/ DropSubmit(a) \/ WorkerDies(a)
    PROVE  Own(attempt'[a], chain'[a])
<1> USE DEF IInv
<1>1. attempt[a] \in Attempt /\ attempt[a] # None
  BY WorkerFrame, ConstantsAssumption
<1>2. Own(attempt[a], chain[a]) /\ chain[a] \in ChainState
  BY <1>1 DEF AttemptInv, AttemptFacts, TypeOK
<1>3. ASSUME NEW result \in Result,
             ProvingEnds(a, result) \/ WatchEnds(a, result)
      PROVE  Own(attempt'[a], chain'[a])
  <2>1. /\ attempt'[a] = Finishing(attempt[a], result)
        /\ chain'[a] = chain[a]
    BY <1>3 DEF ProvingEnds, WatchEnds, TypeOK
  <2>2. /\ result # "none"
        /\ chain[a] # "absent" => result \in {"unknown", "included", "rejected"}
        /\ result = "rejected" => chain[a] = "failed"
        /\ result = "included" => chain[a] = "included"
    BY <1>2, <1>3 DEF ProvingEnds, WatchEnds, At, Own
  <2> QED
    BY <1>1, <1>2, <2>1, <2>2, OwnFinishing
<1>4. CASE BeginBroadcast(a)
  <2>1. /\ attempt'[a] = [attempt[a] EXCEPT !.phase = "Broadcasting",
                                           !.pc = "recorded"]
        /\ chain'[a] = chain[a]
        /\ attempt[a].pc = "proving"
    BY <1>1, <1>4 DEF BeginBroadcast, TypeOK, At
  <2> QED
    BY <1>1, <1>2, <2>1 DEF Own, Attempt
<1>5. CASE Send(a)
  <2>1. /\ attempt'[a] = [attempt[a] EXCEPT !.pc = "watching"]
        /\ chain'[a] = IF attempt[a].material = "signed" THEN "pool"
                       ELSE "refused"
        /\ attempt[a].pc = "recorded"
    BY <1>1, <1>5 DEF Send, TypeOK, At
  <2> QED
    BY <1>1, <1>2, <2>1 DEF Own, Attempt
<1>6. CASE FinishLoad(a)
  <2>1. /\ attempt'[a] = [attempt[a] EXCEPT !.pc = "saving",
                               !.loaded = journal[attempt[a].draft].tx]
        /\ chain'[a] = chain[a]
        /\ attempt[a].pc = "finishing"
    BY <1>1, <1>6 DEF FinishLoad, TypeOK, At
  <2> QED
    BY <1>1, <1>2, <2>1 DEF Own, Attempt
<1>7. CASE FinishSave(a)
  <2>1. /\ attempt'[a] = [attempt[a] EXCEPT !.pc = "settling"]
        /\ chain'[a] = chain[a]
        /\ attempt[a].pc = "saving"
    BY <1>1, <1>7 DEF FinishSave, TypeOK, At
  <2> QED
    BY <1>1, <1>2, <2>1 DEF Own, Attempt
<1>8. CASE FinishFails(a)
  <2>1. /\ attempt'[a] = AfterFailedMark(attempt[a])
        /\ chain'[a] = chain[a]
        /\ attempt[a].pc \in {"finishing", "saving"}
    BY <1>1, <1>8 DEF FinishFails, TypeOK, At
  <2> QED
    BY <1>1, <1>2, <2>1, OwnAfterFailedMark
<1>9. CASE Settle(a)
  <2>1. attempt'[a] = Ended(attempt[a]) /\ chain'[a] = chain[a]
    BY <1>1, <1>9 DEF Settle, TypeOK
  <2> QED
    BY <1>1, <1>2, <2>1, OwnEnded
<1>10. CASE WaiterRecovers(a)
  <2>1. PICK pc \in {"finishing", "settling"} :
            /\ attempt'[a] = [attempt[a] EXCEPT !.result = "unknown", !.pc = pc]
            /\ chain'[a] = chain[a]
    BY Zenon, <1>1, <1>10 DEF WaiterRecovers, TypeOK
  <2> QED
    BY <1>1, <1>2, <2>1 DEF Own, Attempt
<1>11. CASE DropSubmit(a)
  <2>1. /\ attempt'[a] = [attempt[a] EXCEPT !.awaited = FALSE,
                               !.phase = CancelledPhase(attempt[a].phase)]
        /\ chain'[a] = chain[a]
    BY <1>1, <1>11 DEF DropSubmit, TypeOK
  <2> QED
    BY <1>1, <1>2, <2>1 DEF Own, Attempt, CancelledPhase
<1>12. CASE WorkerDies(a)
  <2>1. /\ attempt'[a] = [attempt[a] EXCEPT !.pc = "dead"]
        /\ chain'[a] = chain[a]
    BY <1>1, <1>12 DEF WorkerDies, TypeOK
  <2> QED
    BY <1>1, <1>2, <2>1 DEF Own, Attempt
<1> QED
  BY Zenon, <1>3, <1>4, <1>5, <1>6, <1>7, <1>8, <1>9, <1>10, <1>11, <1>12
     DEF WorkerStep

\* Attempts that a step leaves alone keep their facts.
LEMMA AttemptKept ==
    ASSUME IInv, Stable, NEW a \in Attempts,
           attempt'[a] = attempt[a], chain'[a] = chain[a]
    PROVE  AttemptFacts(a)'
<1>1. CASE attempt[a] = None
  BY <1>1 DEF IInv, AttemptInv, AttemptFacts
<1>2. CASE attempt[a] # None
  <2>1. attempt[a] \in Attempt /\ AttemptFacts(a)
    BY <1>2 DEF IInv, TypeOK, AttemptInv
  <2>2. intent'[attempt[a].draft] # None
    BY <1>2, <2>1 DEF AttemptFacts, Stable, Attempt
  <2>3. attempt[a].pc = "saving" =>
            /\ attempt[a].loaded # None
            /\ attempt'[attempt[a].loaded] # None
            /\ attempt'[attempt[a].loaded].draft = attempt[a].draft
    BY <1>2, <2>1 DEF AttemptFacts, Stable, Kept, Attempt
  <2> QED
    BY <1>2, <2>1, <2>2, <2>3 DEF AttemptFacts
<1> QED
  BY <1>1, <1>2

\* Every step keeps what attempts say about the chain.
LEMMA AttemptStep ==
    ASSUME IInv, [Next]_vars, TypeOK'
    PROVE  AttemptInv'
<1>1. Stable /\ TypeOK'
  BY StableStep
<1>2. CASE UNCHANGED <<attempt, chain>>
  BY <1>1, <1>2, AttemptKept DEF AttemptInv
<1>3. ASSUME NEW d \in Drafts, NEW a \in Attempts, Submit(d, a)
      PROVE  AttemptInv'
  <2>1. chain[a] = "absent" /\ intent[d] # None
    BY <1>3 DEF Submit, IInv, AttemptInv, AttemptFacts, SignedInv, HeldFacts
  <2>2. AttemptFacts(a)'
    BY <1>3, <2>1, ConstantsAssumption DEF Submit, AttemptFacts, Own, IInv, TypeOK
  <2>3. \A b \in Attempts \ {a} : AttemptFacts(b)'
    BY <1>1, <1>3, AttemptKept DEF Submit, IInv, TypeOK
  <2> QED
    BY <2>2, <2>3 DEF AttemptInv
<1>4. ASSUME NEW d \in Drafts, CancelSubmission(d)
      PROVE  AttemptInv'
  <2>1. PICK a \in Attempts : a = draft[d].control
    BY <1>4 DEF CancelSubmission, IInv, TypeOK, Draft
  <2>2. attempt[a] \in Attempt /\ attempt[a] # None
    BY <1>4, <2>1 DEF CancelSubmission, IInv, ControlInv, TypeOK
  <2>3. attempt' = [attempt EXCEPT ![a] =
            [attempt[a] EXCEPT !.phase = "CancellationRequested"]]
    BY Zenon, <1>4, <2>1, <2>2 DEF CancelSubmission, CancelledPhase, IInv, TypeOK
  <2>4. attempt[a].phase # "Broadcasting" /\ UNCHANGED <<intent, chain>>
    BY <1>4, <2>1 DEF CancelSubmission, CancelledPhase
  <2>5. AttemptFacts(a)
    BY DEF IInv, AttemptInv
  <2>6. AttemptFacts(a)'
    <3>1. Own(attempt'[a], chain'[a])
      BY Zenon, <2>2, <2>3, <2>4, <2>5 DEF AttemptFacts, Own, Attempt, IInv, TypeOK
    <3>2. /\ attempt'[a] # None
          /\ attempt'[a].draft = attempt[a].draft
          /\ attempt'[a].pc = attempt[a].pc
          /\ attempt'[a].loaded = attempt[a].loaded
      BY Zenon, <1>1, <2>2, <2>3 DEF Stable, Kept, Attempt, IInv, TypeOK
    <3>3. attempt[a].pc = "saving" =>
              /\ attempt'[attempt[a].loaded] # None
              /\ attempt'[attempt[a].loaded].draft = attempt[a].draft
      BY <1>1, <2>2, <2>5 DEF AttemptFacts, Stable, Kept, Attempt
    <3> QED
      BY <2>2, <2>4, <2>5, <3>1, <3>2, <3>3 DEF AttemptFacts
  <2>7. \A b \in Attempts \ {a} : AttemptFacts(b)'
    BY <1>1, <2>3, <2>4, AttemptKept DEF IInv, TypeOK
  <2> QED
    BY <2>6, <2>7 DEF AttemptInv
<1>5. ASSUME NEW a \in Attempts,
             WorkerStep(a) \/ DropSubmit(a) \/ WorkerDies(a)
      PROVE  AttemptInv'
  <2>1. /\ attempt[a] \in Attempt /\ attempt[a] # None
        /\ attempt'[a] \in Attempt /\ attempt'[a] # None
        /\ \A b \in Attempts \ {a} : attempt'[b] = attempt[b]
        /\ Kept(attempt[a], attempt'[a])
        /\ intent' = intent
    BY ZenonT(60), <1>5, WorkerFrame, ConstantsAssumption
  <2>2. \A b \in Attempts \ {a} : chain'[b] = chain[b]
    BY <1>5 DEF WorkerStep, ProvingEnds, WatchEnds, BeginBroadcast, Send,
         FinishLoad, FinishSave, FinishFails, Settle, WaiterRecovers,
         DropSubmit, WorkerDies, IInv, TypeOK
  <2>3. AttemptFacts(a)
    BY DEF IInv, AttemptInv
  <2>4. attempt'[a].pc = "saving" =>
            \/ attempt[a].pc = "saving" /\ attempt'[a].loaded = attempt[a].loaded
            \/ FinishLoad(a)
    <3>1. ASSUME NEW result \in Result,
                 ProvingEnds(a, result) \/ WatchEnds(a, result)
          PROVE  attempt'[a].pc # "saving"
      BY SMTT(30), <2>1, <3>1, RecordsMoved DEF ProvingEnds, WatchEnds, IInv, TypeOK
    <3>2. CASE FinishFails(a) \/ Settle(a)
      BY <2>1, <3>2, RecordsMoved DEF FinishFails, Settle, IInv, TypeOK
    <3>3. CASE BeginBroadcast(a) \/ Send(a) \/ FinishSave(a) \/ WorkerDies(a)
               \/ WaiterRecovers(a)
      BY <2>1, <3>3 DEF BeginBroadcast, Send, FinishSave, WorkerDies,
                        WaiterRecovers, IInv, TypeOK, Attempt
    <3>4. CASE DropSubmit(a)
      BY <2>1, <3>4 DEF DropSubmit, IInv, TypeOK, Attempt
    <3> QED
      BY SMTT(30), <1>5, <3>1, <3>2, <3>3, <3>4 DEF WorkerStep
  <2>5. attempt'[a].pc = "saving" =>
            /\ attempt'[a].loaded # None
            /\ attempt'[attempt'[a].loaded] # None
            /\ attempt'[attempt'[a].loaded].draft = attempt'[a].draft
    <3>1. CASE attempt[a].pc = "saving"
                 /\ attempt'[a].loaded = attempt[a].loaded
      BY ZenonT(60), <1>1, <2>1, <2>3, <3>1 DEF AttemptFacts, Stable, Kept, Attempt
    <3>2. CASE FinishLoad(a)
      <4>1. PICK d \in Drafts : d = attempt[a].draft
        BY <2>1 DEF Attempt
      <4>2. PICK b \in Attempts : b = journal[d].tx
        BY <3>2, <4>1 DEF FinishLoad, IInv, TypeOK, Entry
      <4>3. attempt[b] # None /\ attempt[b].draft = d
        BY ZenonT(60), <3>2, <4>1, <4>2 DEF FinishLoad, IInv, RecordInv, EntryFacts
      <4>4. attempt'[a].loaded = b
        BY <2>1, <3>2, <4>1, <4>2 DEF FinishLoad, IInv, TypeOK, Attempt
      <4> QED
        BY Zenon, <1>1, <2>1, <4>1, <4>3, <4>4, ConstantsAssumption DEF Stable, Kept
    <3> QED
      BY <2>4, <3>1, <3>2
  <2>6. Own(attempt'[a], chain'[a])
    BY Zenon, <1>5, WorkerOwn
  <2>7. AttemptFacts(a)'
    BY <2>1, <2>3, <2>5, <2>6 DEF AttemptFacts, Kept
  <2>8. \A b \in Attempts \ {a} : AttemptFacts(b)'
    BY <1>1, <2>1, <2>2, AttemptKept
  <2> QED
    BY <2>7, <2>8 DEF AttemptInv
<1>6. ASSUME NEW a \in Attempts, NEW o \in {"included", "failed"},
             ChainFinalizes(a, o)
      PROVE  AttemptInv'
  <2>1. /\ attempt[a] \in Attempt /\ attempt[a] # None /\ chain[a] = "pool"
        /\ Own(attempt[a], chain[a])
    BY <1>6 DEF ChainFinalizes, IInv, AttemptInv, AttemptFacts, TypeOK
  <2>2. /\ chain'[a] = o
        /\ \A b \in Attempts \ {a} : chain'[b] = chain[b]
        /\ UNCHANGED <<attempt, intent>>
    BY <1>6 DEF ChainFinalizes, IInv, TypeOK
  <2>3. Own(attempt[a], o)
    BY <2>1 DEF Own
  <2>4. AttemptFacts(a)'
    BY <2>1, <2>2, <2>3 DEF AttemptFacts, IInv, AttemptInv
  <2>5. \A b \in Attempts \ {a} : AttemptFacts(b)'
    BY <1>1, <2>2, AttemptKept
  <2> QED
    BY Zenon, <2>4, <2>5 DEF AttemptInv
<1>7. CASE Restart
  <2> SUFFICES ASSUME NEW a \in Attempts
               PROVE  AttemptFacts(a)'
    BY DEF AttemptInv
  <2>1. UNCHANGED <<intent, chain>> /\ AttemptFacts(a)
    BY <1>7 DEF Restart, IInv, AttemptInv
  <2>2. CASE attempt[a] = None
    BY <1>1, <1>7, <2>1, <2>2, AttemptKept DEF Restart
  <2>3. CASE attempt[a] # None
    <3>1. attempt[a] \in Attempt /\ chain[a] \in ChainState
      BY <2>3 DEF IInv, TypeOK
    <3>2. attempt'[a] = Ended(attempt[a])
      BY <1>7, <2>3 DEF Restart
    <3>3. Own(attempt'[a], chain'[a]) /\ attempt'[a].pc = "done"
      <4>1. Ended(attempt[a]).pc = "done"
        BY <3>1 DEF Ended, Attempt
      <4>2. chain'[a] = chain[a]
        BY <2>1
      <4>3. Own(Ended(attempt[a]), chain[a])
        BY <2>1, <2>3, <3>1, OwnEnded DEF AttemptFacts
      <4> QED
        BY <3>2, <4>1, <4>2, <4>3
    <3>4. attempt'[a] # None /\ attempt'[a].draft = attempt[a].draft
      BY <1>1, <2>3 DEF Stable, Kept
    <3> QED
      BY <2>1, <2>3, <3>3, <3>4 DEF AttemptFacts
  <2> QED
    BY <2>2, <2>3
<1>8. ASSUME NEW d \in Drafts, AuthorizeLate(d) \/ Authorize(d)
                                \/ GetLate(d) \/ SubmitLate(d)
      PROVE  UNCHANGED <<attempt, chain>>
  BY <1>8 DEF AuthorizeLate, Authorize, GetLate, SubmitLate
<1>9. CASE ChainAdvances \/ UNCHANGED vars
  BY <1>2, <1>9 DEF ChainAdvances, vars
<1> QED
  BY <1>2, <1>3, <1>4, <1>5, <1>6, <1>7, <1>8, <1>9, PrepareFrame,
     ReconcileFrame DEF Next, DraftStep

-----------------------------------------------------------------------------
(***************************************************************************)
(* RecordInv and ReconInv are preserved                                    *)
(***************************************************************************)
\* An intent of a draft with an attempt is fixed.
LEMMA IntentFixed ==
    ASSUME IInv, Stable, NEW a \in Attempts, attempt[a] # None
    PROVE  /\ attempt[a].draft \in Drafts
           /\ intent[attempt[a].draft] \in Intent
           /\ intent'[attempt[a].draft] = intent[attempt[a].draft]
<1>1. attempt[a] \in Attempt /\ intent[attempt[a].draft] # None
  BY Zenon DEF IInv, TypeOK, AttemptInv, AttemptFacts
<1> QED
  BY <1>1 DEF IInv, TypeOK, Attempt, Stable

\* What a record says stays true.
LEMMA EntryKept ==
    ASSUME IInv, Stable, TypeOK', NEW d \in Drafts, NEW e \in Entry,
           EntryFacts(d, e)
    PROVE  EntryFacts(d, e)'
<1>1. e.tx \in Attempts
  BY Zenon DEF Entry
<1>2. attempt'[e.tx] # None /\ attempt'[e.tx].draft = d
  BY <1>1 DEF EntryFacts, Stable, Kept
<1>3. ASSUME NEW o \in {"included", "failed"},
             NEW a \in AttemptsOf(d), chain[a] = o
      PROVE  \E b \in AttemptsOf(d)' : chain'[b] = o
  BY <1>3 DEF AttemptsOf, Stable, Kept
<1>4. e.state = "Expired" => intent'[d].deadline <= time'
  <2>1. intent[d] \in Intent /\ intent'[d] = intent[d]
    BY <1>1, IntentFixed DEF EntryFacts
  <2>2. intent[d].deadline \in Nat
    BY Zenon, <2>1, ConstantsAssumption DEF Intent
  <2> QED
    BY <2>1, <2>2 DEF EntryFacts, Stable
<1> QED
  BY <1>2, <1>3, <1>4 DEF EntryFacts

\* Every write to the journal saves an entry whose state is a fact.
LEMMA JournalStep ==
    ASSUME IInv, [Next]_vars, TypeOK'
    PROVE  \/ journal' = journal
           \/ \E d \in Drafts, e \in Entry :
                 EntryFacts(d, e) /\ journal' \in Upserted(journal, d, e)
<1> USE DEF IInv
<1>1. ASSUME NEW a \in Attempts, BeginBroadcast(a)
      PROVE  \E d \in Drafts, e \in Entry :
                 EntryFacts(d, e) /\ journal' \in Upserted(journal, d, e)
  <2> DEFINE e == [state |-> "Broadcasting", tx |-> a]
  <2>1. PICK d \in Drafts : d = attempt[a].draft
    BY <1>1 DEF BeginBroadcast, At, TypeOK, Attempt
  <2>2. e \in Entry /\ EntryFacts(d, e)
    BY <1>1, <2>1 DEF BeginBroadcast, At, Entry, StoredState, EntryFacts
  <2> QED
    BY <1>1, <2>1, <2>2 DEF BeginBroadcast
<1>2. ASSUME NEW a \in Attempts, FinishSave(a)
      PROVE  \E d \in Drafts, e \in Entry :
                 EntryFacts(d, e) /\ journal' \in Upserted(journal, d, e)
  <2> DEFINE e == [state |-> StoredResult(attempt[a].result),
                   tx |-> attempt[a].loaded]
  <2>1. PICK d \in Drafts : d = attempt[a].draft
    BY <1>2 DEF FinishSave, At, TypeOK, Attempt
  <2>2. /\ attempt[a] \in Attempt /\ attempt[a] # None
        /\ attempt[a].pc = "saving" /\ AttemptFacts(a)
    BY <1>2 DEF FinishSave, At, TypeOK, AttemptInv
  <2>3. e \in Entry
    BY <2>2 DEF Entry, StoredState, StoredResult, AttemptFacts, Attempt
  <2>4. a \in AttemptsOf(d)
    BY <2>1, <2>2 DEF AttemptsOf
  <2>5. /\ e.state = "Included" => chain[a] = "included"
        /\ e.state = "Rejected" => chain[a] = "failed"
        /\ e.state # "Expired"
    BY Zenon, <2>2 DEF StoredResult, AttemptFacts, Own
  <2>6. EntryFacts(d, e)
    BY <2>1, <2>2, <2>4, <2>5 DEF EntryFacts, AttemptFacts
  <2> QED
    BY <1>2, <2>1, <2>3, <2>6 DEF FinishSave
<1>3. ASSUME NEW r \in Reconcilers, ReconcileSave(r)
      PROVE  \E d \in Drafts, e \in Entry :
                 EntryFacts(d, e) /\ journal' \in Upserted(journal, d, e)
  <2> DEFINE e == [state |-> recon[r].verdict, tx |-> recon[r].tx]
  <2>1. recon[r] \in Reconciliation /\ recon[r].verdict # "none"
    BY <1>3 DEF ReconcileSave, TypeOK, ReconInv, ReconFacts
  <2>2. e \in Entry /\ recon[r].draft \in Drafts
    BY <2>1 DEF Reconciliation, Verdict, Entry, StoredState
  <2>3. EntryFacts(recon[r].draft, e)
    BY <1>3, <2>1 DEF ReconcileSave, ReconInv, ReconFacts, EntryFacts, AttemptsOf,
                      Reconciliation
  <2> QED
    BY <1>3, <2>2, <2>3 DEF ReconcileSave
<1>4. CASE UNCHANGED vars
  BY Zenon, <1>4 DEF vars
<1>5. ASSUME NEW d \in Drafts, DraftStep(d)
      PROVE  journal' = journal
  BY <1>5 DEF DraftStep, AuthorizeLate, Authorize, GetLate, SubmitLate, Submit,
              CancelSubmission
<1>6. ASSUME NEW a \in Attempts, WorkerStep(a)
      PROVE  journal' = journal \/ BeginBroadcast(a) \/ FinishSave(a)
  BY <1>6 DEF WorkerStep, ProvingEnds, WatchEnds, Send, FinishLoad, FinishFails,
              Settle, WaiterRecovers
<1>7. ASSUME NEW r \in Reconcilers, ReconcileStep(r)
      PROVE  journal' = journal \/ ReconcileSave(r)
  BY Zenon, <1>7 DEF ReconcileStep, ReconcileLoad, ReconcileWalk, ReconcileTip,
              ReconcileApply, ReconcileFails
<1>8. ASSUME NEW a \in Attempts, NEW o \in {"included", "failed"},
             DropSubmit(a) \/ WorkerDies(a) \/ ChainFinalizes(a, o)
      PROVE  journal' = journal
  BY <1>8 DEF DropSubmit, WorkerDies, ChainFinalizes
<1>9. CASE ChainAdvances \/ Restart
  BY <1>9 DEF ChainAdvances, Restart
<1> QED
  BY Zenon, <1>1, <1>2, <1>3, <1>4, <1>5, <1>6, <1>7, <1>8, <1>9, PrepareFrame DEF Next

\* Every step keeps what records say about the chain.
LEMMA RecordStep ==
    ASSUME IInv, [Next]_vars, TypeOK'
    PROVE  RecordInv'
<1>1. Stable /\ TypeOK'
  BY StableStep
<1> SUFFICES ASSUME NEW d \in Drafts, journal'[d] # None
             PROVE  EntryFacts(d, journal[d])'
  BY DEF RecordInv
<1>2. ASSUME journal'[d] = journal[d]
      PROVE  EntryFacts(d, journal[d])'
  <2>1. PICK e \in Entry : e = journal[d]
    BY <1>2 DEF IInv, TypeOK
  <2>2. EntryFacts(d, e)
    BY <1>2, <2>1 DEF IInv, RecordInv
  <2>3. EntryFacts(d, e)'
    BY <1>1, <2>2, EntryKept
  <2> QED
    BY Zenon, <1>2, <2>1, <2>3 DEF EntryFacts
<1>3. ASSUME NEW x \in Drafts, NEW e \in Entry, EntryFacts(x, e),
             journal' \in Upserted(journal, x, e)
      PROVE  EntryFacts(d, journal[d])'
  <2>1. journal \in Journal
    BY JournalType DEF IInv
  <2>2. journal'[d] = journal[d] \/ (d = x /\ journal'[d] = e)
    BY <1>3, <2>1, UpsertedFacts
  <2>3. EntryFacts(x, e)'
    BY Zenon, <1>1, <1>3, EntryKept
  <2> QED
    BY <1>2, <2>2, <2>3 DEF EntryFacts
<1> QED
  BY <1>2, <1>3, JournalStep

\* What a copy of a record says stays true across an await.
LEMMA ReconKept ==
    ASSUME IInv, Stable, TypeOK', NEW q \in Reconciliation, ReconFacts(q)
    PROVE  ReconFacts(q)'
<1>1. q.tx \in Attempts /\ q.draft \in Drafts
  BY DEF Reconciliation
<1>2. attempt'[q.tx] # None /\ attempt'[q.tx].draft = q.draft
  BY <1>1 DEF ReconFacts, Stable, Kept
<1>3. q.verdict = "Expired" => intent'[q.draft].deadline <= time'
  <2>1. intent[q.draft] \in Intent /\ intent'[q.draft] = intent[q.draft]
    BY <1>1, IntentFixed DEF ReconFacts
  <2>2. intent[q.draft].deadline \in Nat
    BY ZenonT(30), <2>1, ConstantsAssumption DEF Intent
  <2> QED
    BY <2>1, <2>2 DEF ReconFacts, Stable
<1> QED
  BY <1>1, <1>2, <1>3 DEF ReconFacts, Stable

\* What a reconciler holds after its own step was true before it.
LEMMA ReconMove ==
    ASSUME IInv, [Next]_vars, TypeOK', NEW r \in Reconcilers, recon'[r] # None
    PROVE  recon'[r] \in Reconciliation /\ ReconFacts(recon'[r])
<1> USE DEF IInv
<1>1. TypeOK'
  OBVIOUS
<1>2. recon'[r] \in Reconciliation
  BY <1>1 DEF TypeOK
<1>3. ASSUME recon'[r] = recon[r]
      PROVE  ReconFacts(recon'[r])
  BY <1>3 DEF ReconInv
<1>4. ASSUME NEW x \in Reconcilers, ReconcileStep(x)
      PROVE  ReconFacts(recon'[r])
  <2>1. CASE x # r
    <3>1. recon'[r] = recon[r]
      BY ZenonT(60), <1>4, <2>1 DEF ReconcileStep, ReconcileLoad, ReconcileWalk,
           ReconcileTip, ReconcileSave, ReconcileApply, ReconcileFails, TypeOK
    <3> QED
      BY <1>3, <3>1
  <2>2. ASSUME x = r, NEW d \in Drafts, ReconcileLoad(r, d)
        PROVE  ReconFacts(recon'[r])
    <3>1. recon'[r] = [draft |-> d, tx |-> journal[d].tx, stage |-> "walking",
                       verdict |-> "none"]
      BY <2>2 DEF ReconcileLoad, TypeOK
    <3>2. EntryFacts(d, journal[d])
      BY <2>2 DEF ReconcileLoad, RecordInv
    <3> QED
      BY SMTT(60), <3>1, <3>2 DEF EntryFacts, ReconFacts
  <2>3. ASSUME recon[r] # None
        PROVE  recon[r] \in Reconciliation /\ ReconFacts(recon[r])
    BY <2>3 DEF ReconInv, TypeOK
  <2>4. ASSUME x = r, NEW verdict \in Verdict, ReconcileWalk(r, verdict)
        PROVE  ReconFacts(recon'[r])
    <3>1. PICK stage \in {"tip", "saving"} :
            /\ recon'[r] = [recon[r] EXCEPT !.stage = stage, !.verdict = verdict]
            /\ stage = "saving" => verdict # "none"
      BY Zenon, <2>3, <2>4 DEF ReconcileWalk, TypeOK
    <3>2. /\ recon'[r].tx = recon[r].tx /\ recon'[r].draft = recon[r].draft
          /\ recon'[r].verdict = verdict
          /\ recon'[r].stage \in {"saving", "applying"} => verdict # "none"
      <4>1. recon[r] \in Reconciliation
        BY <2>3, <2>4 DEF ReconcileWalk
      <4>2. recon'[r].stage = stage
        BY <3>1, <4>1 DEF Reconciliation
      <4> QED
        BY <3>1, <4>1, <4>2 DEF Reconciliation
    <3>3. /\ verdict = "Included" => chain[recon[r].tx] = "included"
          /\ verdict = "Rejected" => chain[recon[r].tx] = "failed"
          /\ verdict # "Expired"
      BY Zenon, <2>4 DEF ReconcileWalk
    <3> QED
      BY <2>3, <2>4, <3>2, <3>3 DEF ReconFacts, ReconcileWalk
  <2>5. ASSUME x = r, ReconcileTip(r)
        PROVE  ReconFacts(recon'[r])
    <3> DEFINE verdict == TipVerdict(intent[recon[r].draft].deadline)
    <3>1. recon'[r] = [recon[r] EXCEPT !.stage = "saving", !.verdict = verdict]
      BY <2>3, <2>5 DEF ReconcileTip, TypeOK
    <3>2. /\ recon'[r].tx = recon[r].tx /\ recon'[r].draft = recon[r].draft
          /\ recon'[r].verdict = verdict
      BY ZenonT(60), <2>3, <2>5, <3>1 DEF ReconcileTip, Reconciliation
    <3>3. /\ verdict \in {"Expired", "OutcomeUnknown"}
          /\ verdict = "Expired" => intent[recon[r].draft].deadline <= time
      BY DEF TipVerdict
    <3> HIDE DEF verdict
    <3> QED
      BY <2>3, <2>5, <3>2, <3>3 DEF ReconFacts, ReconcileTip
  <2>6. ASSUME x = r, ReconcileSave(r)
        PROVE  ReconFacts(recon'[r])
    <3>1. recon'[r] = [recon[r] EXCEPT !.stage = "applying"]
      BY <2>3, <2>6 DEF ReconcileSave, TypeOK
    <3>2. /\ recon'[r].tx = recon[r].tx /\ recon'[r].draft = recon[r].draft
          /\ recon'[r].verdict = recon[r].verdict
      BY <2>3, <2>6, <3>1 DEF ReconcileSave, Reconciliation
    <3> QED
      BY <2>3, <2>6, <3>2 DEF ReconFacts, ReconcileSave
  <2>7. CASE x = r /\ (ReconcileApply(r) \/ ReconcileFails(r))
    BY <2>7 DEF ReconcileApply, ReconcileFails, TypeOK
  <2> QED
    BY <1>4, <2>1, <2>2, <2>4, <2>5, <2>6, <2>7 DEF ReconcileStep
<1>5. ASSUME NEW d \in Drafts, DraftStep(d)
      PROVE  recon' = recon
  BY <1>5 DEF DraftStep, AuthorizeLate, Authorize, GetLate, SubmitLate, Submit,
              CancelSubmission
<1>6. ASSUME NEW a \in Attempts, NEW o \in {"included", "failed"},
             ChainFinalizes(a, o)
      PROVE  recon' = recon
  BY <1>6 DEF ChainFinalizes
<1>7. CASE ChainAdvances \/ UNCHANGED vars
  BY <1>2, <1>3, <1>7 DEF ChainAdvances, vars
<1>8. CASE Restart
  BY Zenon, <1>8 DEF Restart
<1>9. ASSUME NEW a \in Attempts,
             WorkerStep(a) \/ DropSubmit(a) \/ WorkerDies(a)
      PROVE  recon' = recon
  BY <1>9, WorkerFrame
<1>10. ASSUME NEW p \in Planners, PrepareStep(p)
       PROVE  recon' = recon
  BY Zenon, <1>10, PrepareFrame
<1> QED
  BY Zenon, <1>2, <1>3, <1>4, <1>5, <1>6, <1>7, <1>8, <1>9, <1>10 DEF Next

\* Every step keeps what reconcilers hold.
LEMMA ReconStep ==
    ASSUME IInv, [Next]_vars, TypeOK'
    PROVE  ReconInv'
<1>1. Stable /\ TypeOK'
  BY StableStep
<1> SUFFICES ASSUME NEW r \in Reconcilers, recon'[r] # None
             PROVE  ReconFacts(recon[r])'
  BY DEF ReconInv
<1>2. PICK q \in Reconciliation : q = recon'[r] /\ ReconFacts(q)
  BY ReconMove
<1>3. ReconFacts(q)'
  BY Zenon, <1>1, <1>2, ReconKept
<1> QED
  BY <1>2, <1>3 DEF ReconFacts

-----------------------------------------------------------------------------
(***************************************************************************)
(* Where active and pending attempts come from                             *)
(***************************************************************************)
\* Nothing about a is new, except a broadcast that its worker records.
NothingNew(a) ==
    /\ attempt[a] # None
    /\ Active(a)' => Active(a)
    /\ attempt'[a].pc = "proving" => attempt[a].pc = "proving"
    /\ Pending(a)' => Pending(a) \/ BeginBroadcast(a)

\* Enough for it: the place of the worker and the state on the chain.
LEMMA NothingNewIf ==
    ASSUME IInv, Stable, NEW a \in Attempts, attempt[a] # None,
           attempt[a].pc = "done" => attempt'[a].pc = "done",
           attempt'[a].pc = "proving" => attempt[a].pc = "proving",
           attempt'[a].pc = "recorded" =>
               attempt[a].pc = "recorded" \/ BeginBroadcast(a),
           chain'[a] # "absent" => chain[a] # "absent" \/ Send(a)
    PROVE  NothingNew(a)
<1>1. /\ attempt'[a] # None
      /\ attempt'[a].material = attempt[a].material
      /\ attempt'[a].draft = attempt[a].draft
  BY DEF Stable, Kept
<1>2. chain[a] = "failed" => chain'[a] = "failed"
  BY Zenon DEF Stable
<1>3. time < DeadlineOf(a) \/ ~(time' < DeadlineOf(a)')
  <2>1. /\ intent[attempt[a].draft] \in Intent
        /\ intent'[attempt[a].draft] = intent[attempt[a].draft]
    BY IntentFixed
  <2>2. intent[attempt[a].draft].deadline \in Nat
    BY Zenon, <2>1, ConstantsAssumption DEF Intent
  <2> QED
    BY SMTT(60), <1>1, <2>1, <2>2 DEF DeadlineOf, Stable
<1>4. Send(a) => attempt[a].pc = "recorded"
  BY DEF Send, At
<1>5. Active(a)' => Active(a)
  BY ZenonT(60), <1>1, <1>4 DEF Active
<1>6. Pending(a)' => Pending(a) \/ BeginBroadcast(a)
  BY Zenon, <1>1, <1>2, <1>3, <1>4 DEF Pending
<1> QED
  BY SMTT(30), <1>5, <1>6 DEF NothingNew

\* Only a submission gives a signed transaction to an attempt.
LEMMA Origin ==
    ASSUME IInv, [Next]_vars, TypeOK', NEW a \in Attempts, attempt'[a] # None
    PROVE  NothingNew(a) \/ \E d \in Drafts : Submit(d, a)
<1> DEFINE Goal == NothingNew(a) \/ \E d \in Drafts : Submit(d, a)
<1> SUFFICES Goal
  OBVIOUS
<1>1. Stable
  BY StableStep
<1>2. CASE attempt'[a] = attempt[a] /\ chain'[a] = chain[a]
  BY <1>1, <1>2, NothingNewIf
<1>3. ASSUME NEW d \in Drafts, NEW b \in Attempts, Submit(d, b)
      PROVE  Goal
  <2>1. CASE b = a
    BY SMTT(30), <1>3, <2>1
  <2>2. CASE b # a
    BY Zenon, <1>2, <1>3, <2>2 DEF Submit, IInv, TypeOK
  <2> QED
    BY <2>1, <2>2
<1>4. ASSUME NEW d \in Drafts, CancelSubmission(d)
      PROVE  Goal
  <2>1. PICK b \in Attempts : b = draft[d].control
    BY <1>4 DEF CancelSubmission, IInv, TypeOK, Draft
  <2>2. attempt[b] \in Attempt /\ attempt[b] # None
    BY <1>4, <2>1 DEF CancelSubmission, IInv, ControlInv, TypeOK
  <2>3. attempt' = [attempt EXCEPT ![b] =
            [attempt[b] EXCEPT !.phase = "CancellationRequested"]]
    BY Zenon, <1>4, <2>1, <2>2 DEF CancelSubmission, CancelledPhase, IInv, TypeOK
  <2>4. chain' = chain
    BY Zenon, <1>4 DEF CancelSubmission
  <2>5. CASE a = b
    <3>1. attempt'[a].pc = attempt[a].pc
      BY <2>2, <2>3, <2>5 DEF IInv, TypeOK, Attempt
    <3> QED
      BY Zenon, <1>1, <2>2, <2>4, <2>5, <3>1, NothingNewIf
  <2>6. CASE a # b
    BY <1>2, <2>3, <2>4, <2>6 DEF IInv, TypeOK
  <2> QED
    BY <2>5, <2>6
<1>5. ASSUME NEW b \in Attempts,
             WorkerStep(b) \/ DropSubmit(b) \/ WorkerDies(b)
      PROVE  Goal
  <2>1. CASE a # b
    <3>1. attempt'[a] = attempt[a]
      BY <1>5, <2>1, WorkerFrame
    <3>2. chain'[a] = chain[a]
      BY Zenon, <1>5, <2>1 DEF WorkerStep, ProvingEnds, WatchEnds, BeginBroadcast,
           Send, FinishLoad, FinishSave, FinishFails, Settle, WaiterRecovers,
           DropSubmit, WorkerDies, IInv, TypeOK
    <3> QED
      BY <1>2, <3>1, <3>2
  <2>2. CASE a = b
    <3>1. attempt[a] \in Attempt /\ attempt[a] # None
      BY <1>5, <2>2, WorkerFrame, ConstantsAssumption
    <3>2. chain'[a] # "absent" => chain[a] # "absent" \/ Send(a)
      BY Zenon, <1>5, <2>2 DEF WorkerStep, ProvingEnds, WatchEnds, BeginBroadcast,
           FinishLoad, FinishSave, FinishFails, Settle, WaiterRecovers,
           DropSubmit, WorkerDies
    <3>3. /\ attempt[a].pc = "done" => attempt'[a].pc = "done"
          /\ attempt'[a].pc = "proving" => attempt[a].pc = "proving"
          /\ attempt'[a].pc = "recorded" =>
                 attempt[a].pc = "recorded" \/ BeginBroadcast(a)
      <4>1. ASSUME NEW result \in Result,
                   ProvingEnds(a, result) \/ WatchEnds(a, result)
            PROVE  <3>3
        BY Zenon, <3>1, <4>1, RecordsMoved DEF ProvingEnds, WatchEnds, At, IInv, TypeOK
      <4>2. CASE FinishFails(a) \/ Settle(a)
        BY <3>1, <4>2, RecordsMoved DEF FinishFails, Settle, At, IInv, TypeOK
      <4>3. CASE BeginBroadcast(a) \/ Send(a) \/ FinishSave(a)
        BY <3>1, <4>3 DEF BeginBroadcast, Send, FinishSave, At, IInv, TypeOK,
                          Attempt
      <4>4. CASE FinishLoad(a) \/ WorkerDies(a)
        BY <3>1, <4>4 DEF FinishLoad, WorkerDies, At, IInv, TypeOK, Attempt
      <4>5. CASE WaiterRecovers(a)
        BY <3>1, <4>5 DEF WaiterRecovers, At, IInv, TypeOK, Attempt
      <4>6. CASE DropSubmit(a)
        BY <3>1, <4>6 DEF DropSubmit, IInv, TypeOK, Attempt
      <4> QED
        BY Zenon, <1>5, <2>2, <4>1, <4>2, <4>3, <4>4, <4>5, <4>6 DEF WorkerStep
    <3> QED
      BY Zenon, <1>1, <3>1, <3>2, <3>3, NothingNewIf
  <2> QED
    BY <2>1, <2>2
<1>6. ASSUME NEW b \in Attempts, NEW o \in {"included", "failed"},
             ChainFinalizes(b, o)
      PROVE  Goal
  <2>1. chain[b] = "pool" /\ attempt' = attempt
    BY Zenon, <1>6 DEF ChainFinalizes
  <2>2. attempt[b] # None
    BY <2>1 DEF IInv, AttemptInv, AttemptFacts
  <2>3. CASE a = b
    BY Zenon, <1>1, <2>1, <2>2, <2>3, NothingNewIf
  <2>4. CASE a # b
    BY Zenon, <1>2, <1>6, <2>1, <2>4 DEF ChainFinalizes, IInv, TypeOK
  <2> QED
    BY <2>3, <2>4
<1>7. CASE Restart
  <2>1. attempt[a] # None /\ attempt'[a] = Ended(attempt[a]) /\ chain' = chain
    BY <1>7 DEF Restart
  <2>2. attempt[a] \in Attempt
    BY Zenon, <2>1 DEF IInv, TypeOK
  <2>3. attempt'[a].pc = "done"
    BY <2>1, <2>2, RecordsMoved
  <2> QED
    BY <1>1, <2>1, <2>3, NothingNewIf
<1>8. ASSUME NEW d \in Drafts, AuthorizeLate(d) \/ Authorize(d)
                                \/ GetLate(d) \/ SubmitLate(d)
      PROVE  Goal
  BY Zenon, <1>2, <1>8 DEF AuthorizeLate, Authorize, GetLate, SubmitLate
<1>9. CASE ChainAdvances \/ UNCHANGED vars
  BY <1>2, <1>9 DEF ChainAdvances, vars
<1>10. ASSUME NEW p \in Planners, PrepareStep(p)
       PROVE  Goal
  BY <1>2, <1>10, PrepareFrame
<1>11. ASSUME NEW r \in Reconcilers, ReconcileStep(r)
       PROVE  Goal
  BY <1>2, <1>11, ReconcileFrame
<1> HIDE DEF Goal
<1> QED
  BY Zenon, <1>3, <1>4, <1>5, <1>6, <1>7, <1>8, <1>9, <1>10, <1>11 DEF Next, DraftStep

-----------------------------------------------------------------------------
(***************************************************************************)
(* SignedInv is preserved                                                  *)
(***************************************************************************)
\* At most one attempt of a draft is active after the step.
LEMMA UniqueStep ==
    ASSUME IInv, [Next]_vars, TypeOK', NEW a \in Attempts, NEW b \in Attempts,
           Active(a)', Active(b)', attempt'[a].draft = attempt'[b].draft
    PROVE  a = b
<1>1. Stable
  BY StableStep
<1>2. ASSUME NEW x \in Attempts, NEW y \in Attempts, NEW d \in Drafts,
             Submit(d, x), Active(x)', Active(y)',
             attempt'[x].draft = attempt'[y].draft, x # y
      PROVE  FALSE
  <2>1. attempt'[x].draft = d /\ attempt'[x].material = draft[d].material
    BY <1>2 DEF Submit, IInv, TypeOK
  <2>2. draft[d].material = "signed" /\ draft[d].state = "Authorized"
    BY <1>2, <2>1 DEF Active, Submit
  <2>3. attempt'[y] = attempt[y] /\ chain' = chain
    BY <1>2 DEF Submit, IInv, TypeOK
  <2>4. Active(y) /\ y \in AttemptsOf(d)
    BY ZenonT(30), <1>2, <2>1, <2>3 DEF Active, AttemptsOf
  <2> QED
    BY <1>2, <2>2, <2>4 DEF Submit, IInv, SignedInv, HeldFacts
<1>3. /\ NothingNew(a) \/ \E d \in Drafts : Submit(d, a)
      /\ NothingNew(b) \/ \E d \in Drafts : Submit(d, b)
  BY Origin DEF Active
<1>4. CASE NothingNew(a) /\ NothingNew(b)
  <2>1. Active(a) /\ Active(b) /\ attempt[a].draft = attempt[b].draft
    BY Zenon, <1>1, <1>4 DEF NothingNew, Stable, Kept
  <2> QED
    BY Zenon, <2>1 DEF IInv, SignedInv
<1> QED
  BY <1>2, <1>3, <1>4

\* A record that may be held keeps being so when no attempt is new.
LEMMA HeldKept ==
    ASSUME IInv, Stable, NEW d \in Drafts, NEW r, HeldFacts(d, r),
           \A a \in Attempts : attempt'[a] # None /\ attempt'[a].draft = d =>
               NothingNew(a)
    PROVE  HeldFacts(d, r)'
<1>1. intent'[d] # None
  BY ZenonT(60) DEF HeldFacts, Stable
<1>2. ASSUME NEW a \in AttemptsOf(d)'
      PROVE  /\ a \in AttemptsOf(d)
             /\ attempt'[a].material = attempt[a].material
             /\ Active(a)' => Active(a)
  <2>1. a \in Attempts /\ attempt'[a] # None /\ attempt'[a].draft = d
    BY <1>2 DEF AttemptsOf
  <2>2. NothingNew(a)
    BY <2>1
  <2> QED
    BY <2>1, <2>2 DEF NothingNew, Stable, Kept, AttemptsOf
<1> QED
  BY SMTT(30), <1>1, <1>2 DEF HeldFacts

\* A draft that expires holds no more than before.
LEMMA ExpiredHeld ==
    ASSUME NEW d \in Drafts, NEW r \in Draft, HeldFacts(d, r)
    PROVE  HeldFacts(d, ExpiredDraft(r))
BY DEF HeldFacts, ExpiredDraft, Shape, Draft

\* Every record that a step other than Submit and Settle leaves may be held.
LEMMA DraftMove ==
    ASSUME IInv, NEW d \in Drafts, draft'[d] # None,
           \/ \E p \in Planners : PrepareStep(p)
           \/ \E x \in Drafts : AuthorizeLate(x) \/ Authorize(x) \/ GetLate(x)
                                \/ SubmitLate(x) \/ CancelSubmission(x)
           \/ \E r \in Reconcilers : ReconcileStep(r)
           \/ draft' = draft
    PROVE  \/ HeldFacts(d, draft'[d])
           \/ \E p \in Planners : PrepareInsert(p, d)
<1> USE DEF IInv
<1>1. ASSUME draft'[d] = draft[d]
      PROVE  HeldFacts(d, draft'[d])
  BY ZenonT(60), <1>1 DEF SignedInv
<1>2. ASSUME draft[d] # None
      PROVE  draft[d] \in Draft /\ HeldFacts(d, draft[d])
  BY Zenon, <1>2 DEF SignedInv, TypeOK
<1>3. ASSUME NEW p \in Planners, PrepareStep(p), ~PrepareInsert(p, d)
      PROVE  draft'[d] = draft[d]
  BY <1>3 DEF PrepareStep, PrepareBegin, PrepareCheck, PrepareInsert,
              PrepareReturn, TypeOK
<1>4. ASSUME NEW x \in Drafts, AuthorizeLate(x) \/ GetLate(x) \/ SubmitLate(x)
      PROVE  HeldFacts(d, draft'[d])
  <2>1. CASE x # d
    BY Zenon, <1>1, <1>4, <2>1 DEF AuthorizeLate, GetLate, SubmitLate, TypeOK
  <2>2. CASE x = d
    <3>1. draft[d] # None /\ draft'[d] = ExpiredDraft(draft[d])
      BY Zenon, <1>4, <2>2 DEF AuthorizeLate, GetLate, SubmitLate, TypeOK
    <3> QED
      BY <1>2, <3>1, ExpiredHeld
  <2> QED
    BY SMTT(30), <2>1, <2>2
<1>5. ASSUME NEW x \in Drafts, Authorize(x)
      PROVE  HeldFacts(d, draft'[d])
  <2>1. CASE x # d
    BY <1>1, <1>5, <2>1 DEF Authorize, TypeOK
  <2>2. CASE x = d
    <3>1. PICK m \in {"signed", "void"} :
            /\ draft'[d] = [draft[d] EXCEPT !.state = "Authorized", !.material = m]
            /\ m = "signed" => draft[d].material = "payload"
      BY Zenon, <1>2, <1>5, <2>2 DEF Authorize, TypeOK
    <3>2. draft[d] # None
      BY <1>5, <2>2 DEF Authorize
    <3>3. draft'[d].state = "Authorized" /\ draft'[d].material = m
      BY ZenonT(60), <1>2, <3>1, <3>2 DEF Draft
    <3> QED
      BY <1>2, <3>1, <3>2, <3>3 DEF HeldFacts, Shape
  <2> QED
    BY <2>1, <2>2
<1>6. ASSUME NEW x \in Drafts, CancelSubmission(x)
      PROVE  HeldFacts(d, draft'[d])
  <2>1. CASE x # d
    BY <1>1, <1>6, <2>1 DEF CancelSubmission, TypeOK
  <2>2. CASE x = d
    <3>1. /\ draft[d] # None
          /\ draft'[d] = [draft[d] EXCEPT !.submission = "CancellationRequested"]
      BY <1>6, <2>2 DEF CancelSubmission, TypeOK
    <3>2. /\ draft'[d].state = draft[d].state
          /\ draft'[d].material = draft[d].material
      BY <1>2, <3>1 DEF Draft
    <3> QED
      BY Zenon, <1>2, <3>1, <3>2 DEF HeldFacts, Shape
  <2> QED
    BY <2>1, <2>2
<1>7. ASSUME NEW r \in Reconcilers, ReconcileStep(r)
      PROVE  HeldFacts(d, draft'[d])
  <2>1. CASE draft'[d] = draft[d]
    BY SMTT(30), <1>1, <2>1
  <2>2. CASE draft'[d] # draft[d]
    <3>1. /\ ReconcileApply(r) /\ d = recon[r].draft /\ draft[d] # None
          /\ draft'[d] = ReconciledDraft(draft[d], recon[r].verdict)
      <4>1. ReconcileApply(r)
        BY ZenonT(30), <1>7, <2>2 DEF ReconcileStep, ReconcileLoad, ReconcileWalk,
             ReconcileTip, ReconcileSave, ReconcileFails
      <4>2. recon[r] \in Reconciliation
        BY ZenonT(60), <4>1 DEF ReconcileApply, TypeOK
      <4>3. PICK x \in Drafts : x = recon[r].draft
        BY <4>2 DEF Reconciliation
      <4> QED
        BY Zenon, <2>2, <4>1, <4>3 DEF ReconcileApply, TypeOK
    <3>2. recon[r].tx \in AttemptsOf(d)
      BY Zenon, <3>1 DEF ReconcileApply, ReconInv, ReconFacts, TypeOK, Reconciliation,
                  AttemptsOf
    <3>3. /\ draft'[d].material = draft[d].material
          /\ draft'[d].state \in {draft[d].state, "Submitted"}
      BY Zenon, <1>2, <3>1 DEF ReconciledDraft, Draft
    <3> QED
      BY ZenonT(60), <1>2, <3>1, <3>2, <3>3 DEF HeldFacts, Shape
  <2> QED
    BY <2>1, <2>2
<1> QED
  BY <1>1, <1>3, <1>4, <1>5, <1>6, <1>7

\* What settling may make of a draft; it is offered again only by a worker
\* that failed or was cancelled.
LEMMA SettledFacts ==
    ASSUME NEW r \in Draft, NEW result, NEW phase, Shape(r),
           SettledDraft(r, result, phase) # None
    PROVE  LET n == SettledDraft(r, result, phase) IN
           /\ Shape(n)
           /\ n.material \in {r.material, "cleared"}
           /\ n.control \in {r.control, None}
           /\ n.submission = "CancellationRequested" /\ n.control # None
                  => n = r
           /\ n.state = "Authorized" =>
                  \/ r.state = "Authorized"
                  \/ /\ result \notin {"expired", "unknown", "included"}
                     /\ ~(result = "rejected" /\ phase = "Broadcasting")
<1>0. ~(result = "rejected" /\ phase = "Broadcasting")
  <2>1. ASSUME result = "rejected" /\ phase = "Broadcasting"
        PROVE  SettledDraft(r, result, phase) = None
    BY <2>1 DEF SettledDraft
  <2> QED
    BY <2>1
<1>1. CASE r.state # "Submitting"
  <2>1. SettledDraft(r, result, phase) = r
    BY ZenonT(60), <1>0, <1>1 DEF SettledDraft
  <2> QED
    BY <1>1, <2>1
<1>2. CASE r.state = "Submitting"
  <2> DEFINE n == SettledDraft(r, result, phase)
  <2>2. CASE result = "expired"
    <3>1. n = [ExpiredDraft(r) EXCEPT !.submission = "NotStarted",
                                      !.control = None]
      BY <1>2, <2>2 DEF SettledDraft
    <3> QED
      BY <3>1 DEF ExpiredDraft, Shape, Draft
  <2>3. CASE result = "unknown"
    <3>1. n = [r EXCEPT !.submission = "OutcomeUnknown", !.control = None]
      BY <1>2, <2>3 DEF SettledDraft
    <3> QED
      BY <1>2, <3>1 DEF Shape, Draft
  <2>4. CASE result = "included"
    <3>1. n = [r EXCEPT !.state = "Submitted", !.submission = "Included",
                        !.control = None, !.material = "cleared"]
      BY <1>2, <2>4 DEF SettledDraft
    <3> QED
      BY <3>1 DEF Shape, Draft
  <2>5. CASE result \notin {"expired", "unknown", "included"}
    <3>1. PICK m \in {"Cancelled", "NotStarted"} :
              n = [r EXCEPT !.state = "Authorized", !.submission = m,
                            !.control = None]
      BY Zenon, <1>0, <1>2, <2>5 DEF SettledDraft
    <3> QED
      BY <1>0, <1>2, <2>5, <3>1 DEF Shape, Draft
  <2> QED
    BY <2>2, <2>3, <2>4, <2>5
<1> QED
  BY <1>1, <1>2

\* What settling does to a draft.
LEMMA SettledAs ==
    ASSUME NEW r \in Draft, NEW result, NEW phase, Shape(r), NEW n,
           n = SettledDraft(r, result, phase), n # None
    PROVE  /\ Shape(n)
           /\ n.material \in {r.material, "cleared"}
           /\ n.state = "Authorized" =>
                  \/ r.state = "Authorized"
                  \/ /\ result \notin {"expired", "unknown", "included"}
                     /\ ~(result = "rejected" /\ phase = "Broadcasting")
BY ZenonT(60), SettledFacts

\* Settling gives a signed transaction to nobody else.
LEMMA SettleHeld ==
    ASSUME IInv, [Next]_vars, TypeOK', NEW a \in Attempts, Settle(a),
           \A b \in Attempts : attempt'[b] # None => NothingNew(b),
           NEW d \in Drafts, draft'[d] # None
    PROVE  HeldFacts(d, draft[d])'
<1> USE DEF IInv
<1>1. Stable
  BY Zenon, StableStep
<1>2. attempt[a] \in Attempt /\ attempt[a] # None /\ attempt[a].pc = "settling"
  BY ZenonT(60) DEF Settle, At, TypeOK
<1>3. PICK x \in Drafts : x = attempt[a].draft
  BY Zenon, <1>2 DEF Attempt
<1>4. CASE draft'[d] = draft[d]
  <2>1. PICK r : r = draft[d]
    BY ZenonT(60)
  <2>2. HeldFacts(d, r)
    BY <1>4, <2>1 DEF SignedInv
  <2>3. HeldFacts(d, r)'
    BY Zenon, <1>1, <2>2, HeldKept
  <2> QED
    BY ZenonT(60), <1>4, <2>1, <2>3 DEF HeldFacts
<1>5. CASE draft'[d] # draft[d]
  <2>1. PICK r, n : /\ r \in Draft /\ r = draft[d] /\ d = x /\ n = draft'[d]
              /\ n = SettledDraft(r, attempt[a].result, attempt[a].phase)
    BY SMTT(30), <1>3, <1>5 DEF Settle, TypeOK
  <2>2. HeldFacts(d, r)
    BY ZenonT(60), <2>1, ConstantsAssumption DEF SignedInv
  <2>3. /\ Shape(n)
        /\ n.material \in {r.material, "cleared"}
        /\ n.state = "Authorized" =>
               \/ r.state = "Authorized"
               \/ /\ attempt[a].result \notin {"expired", "unknown", "included"}
                  /\ ~(/\ attempt[a].result = "rejected"
                       /\ attempt[a].phase = "Broadcasting")
    <3>1. Shape(r)
      BY Zenon, <2>2 DEF HeldFacts
    <3>2. PICK o, h : /\ o = attempt[a].result /\ h = attempt[a].phase
                      /\ n = SettledDraft(r, o, h)
      BY Zenon, <2>1
    <3>3. r \in Draft /\ n # None
      BY ZenonT(60), <2>1
    <3>4. /\ Shape(n)
          /\ n.material \in {r.material, "cleared"}
          /\ n.state = "Authorized" =>
                 \/ r.state = "Authorized"
                 \/ /\ o \notin {"expired", "unknown", "included"}
                    /\ ~(o = "rejected" /\ h = "Broadcasting")
      BY SMT, <3>1, <3>2, <3>3, SettledAs
    <3> QED
      BY Zenon, <3>2, <3>4
  <2>4. HeldFacts(d, r)'
    BY Zenon, <1>1, <2>2, HeldKept
  <2>5. ASSUME NEW b \in AttemptsOf(d)', n.material = "signed",
               n.state = "Authorized", Active(b)'
        PROVE  FALSE
    <3>1. b \in Attempts /\ attempt'[b] # None
      BY ZenonT(60), <2>5 DEF AttemptsOf
    <3>2. Active(b) /\ attempt[b].draft = d /\ b \in AttemptsOf(d)
      BY SMTT(30), <1>1, <2>5, <3>1 DEF NothingNew, AttemptsOf, Stable, Kept
    <3>3. r.material = "signed" /\ r.state # "Authorized"
      BY ZenonT(30), <2>2, <2>3, <2>5, <3>2 DEF HeldFacts
    <3>4. Active(a)
      BY ZenonT(60), <1>2, <1>3, <2>1, <2>2, <3>3 DEF Active, HeldFacts, AttemptsOf
    <3>5. a = b
      BY Zenon, <1>3, <2>1, <3>1, <3>2, <3>4 DEF SignedInv
    <3>6. chain[a] = "absent"
      <4>1. AttemptFacts(a) /\ chain[a] \in ChainState
        BY ZenonT(60) DEF AttemptInv, TypeOK
      <4> QED
        BY Zenon, <1>2, <2>3, <2>5, <3>3, <4>1 DEF AttemptFacts, Own, ChainState
    <3>7. attempt'[a].pc = "done" /\ chain'[a] = chain[a]
      BY SMTT(30), <1>2, RecordsMoved DEF Settle, TypeOK
    <3> QED
      BY <2>5, <3>5, <3>6, <3>7 DEF Active
  <2>6. HeldFacts(d, n)'
    BY Zenon, <2>3, <2>4, <2>5 DEF HeldFacts
  <2> QED
    BY ZenonT(60), <2>1, <2>6 DEF HeldFacts
<1> QED
  BY ZenonT(60), <1>4, <1>5

\* Submitting moves the signed transaction into one attempt.
LEMMA SubmitHeld ==
    ASSUME IInv, [Next]_vars, TypeOK', NEW x \in Drafts, NEW a \in Attempts, Submit(x, a),
           NEW d \in Drafts, draft'[d] # None
    PROVE  HeldFacts(d, draft[d])'
<1> USE DEF IInv
<1>1. Stable
  BY StableStep
<1>2. /\ \A b \in Attempts \ {a} : attempt'[b] = attempt[b]
      /\ attempt'[a].draft = x
      /\ attempt'[a].material = draft[x].material
  BY SMTT(30) DEF Submit, TypeOK
<1>3. ASSUME NEW b \in Attempts \ {a}, attempt'[b] # None
      PROVE  NothingNew(b)
  BY ZenonT(60), <1>2, <1>3, Origin DEF Submit
<1>4. CASE d # x
  <2>1. PICK r : r = draft[d] /\ draft'[d] = r
    BY Zenon, <1>4 DEF Submit, TypeOK
  <2>2. HeldFacts(d, r)
    BY Zenon, <2>1 DEF SignedInv
  <2>3. HeldFacts(d, r)'
    BY ZenonT(60), <1>1, <1>2, <1>3, <1>4, <2>2, HeldKept
  <2> QED
    BY Zenon, <2>1, <2>3 DEF HeldFacts
<1>5. CASE d = x
  <2>1. draft[d] \in Draft /\ HeldFacts(d, draft[d]) /\ draft[d].state = "Authorized"
    BY <1>5 DEF Submit, SignedInv, TypeOK
  <2>2. /\ draft'[d].state = "Submitting"
        /\ draft'[d].material = draft[d].material
    BY <1>5, <2>1 DEF Submit, TypeOK, Draft
  <2>3. intent'[d] # None /\ Shape(draft'[d]) /\ draft'[d].material # "payload"
    BY ZenonT(60), <2>1, <2>2 DEF Submit, HeldFacts, Shape
  <2>4. ASSUME NEW b \in AttemptsOf(d)', draft'[d].material = "signed"
        PROVE  attempt'[b].material = "signed"
    BY <1>2, <1>5, <2>1, <2>2, <2>4 DEF HeldFacts, AttemptsOf
  <2> QED
    BY <2>2, <2>3, <2>4 DEF HeldFacts
<1> QED
  BY <1>4, <1>5

\* Every step keeps signed transactions in one pair of hands.
LEMMA SignedStep ==
    ASSUME IInv, [Next]_vars, TypeOK'
    PROVE  SignedInv'
<1>1. Stable /\ TypeOK'
  BY StableStep
<1>2. \A a, b \in Attempts :
         Active(a)' /\ Active(b)' /\ attempt'[a].draft = attempt'[b].draft => a = b
  BY UniqueStep
<1>3. ASSUME NEW d \in Drafts, draft'[d] # None
      PROVE  HeldFacts(d, draft[d])'
  <2>1. ASSUME NEW x \in Drafts, NEW a \in Attempts, Submit(x, a)
        PROVE  HeldFacts(d, draft[d])'
    BY Zenon, <1>3, <2>1, SubmitHeld
  <2>2. ASSUME \A x \in Drafts, a \in Attempts : ~Submit(x, a)
        PROVE  HeldFacts(d, draft[d])'
    <3>1. \A a \in Attempts : attempt'[a] # None => NothingNew(a)
      BY <2>2, Origin
    <3>2. ASSUME NEW a \in Attempts, Settle(a)
          PROVE  HeldFacts(d, draft[d])'
      BY <1>3, <3>1, <3>2, SettleHeld
    <3>3. ASSUME NEW p \in Planners, PrepareInsert(p, d)
          PROVE  HeldFacts(d, draft[d])'
      <4>1. ASSUME NEW a \in AttemptsOf(d)'
            PROVE  FALSE
        <5>1. attempt[a] # None /\ attempt[a].draft = d /\ a \in Attempts
          BY Zenon, <3>3, <4>1 DEF PrepareInsert, AttemptsOf
        <5> QED
          BY SMTT(30), <3>3, <5>1 DEF PrepareInsert, IInv, AttemptInv, AttemptFacts
      <4>2. intent'[d] # None
        BY ZenonT(60), <3>3, ConstantsAssumption DEF PrepareInsert, IInv, TypeOK, Planning
      <4>3. Shape(draft[d])'
        BY <3>3 DEF PrepareInsert, Shape, IInv, TypeOK
      <4> QED
        BY ZenonT(60), <4>1, <4>2, <4>3 DEF HeldFacts
    <3>4. ASSUME \/ \E p \in Planners : PrepareStep(p)
                 \/ \E x \in Drafts : AuthorizeLate(x) \/ Authorize(x)
                        \/ GetLate(x) \/ SubmitLate(x) \/ CancelSubmission(x)
                 \/ \E r \in Reconcilers : ReconcileStep(r)
                 \/ draft' = draft
          PROVE  HeldFacts(d, draft[d])'
      <4>1. CASE HeldFacts(d, draft'[d])
        <5>1. PICK r : r = draft'[d]
          BY Zenon
        <5>2. HeldFacts(d, r)'
          BY ZenonT(60), <1>1, <3>1, <4>1, <5>1, HeldKept
        <5> QED
          BY <5>1, <5>2 DEF HeldFacts
      <4> QED
        BY ZenonT(60), <1>3, <3>3, <3>4, <4>1, DraftMove
    <3>5. ASSUME NEW a \in Attempts,
                 WorkerStep(a) \/ DropSubmit(a) \/ WorkerDies(a), ~Settle(a)
          PROVE  draft' = draft
      BY <3>5 DEF WorkerStep, ProvingEnds, WatchEnds, BeginBroadcast, Send,
           FinishLoad, FinishSave, FinishFails, WaiterRecovers, DropSubmit,
           WorkerDies
    <3>6. ASSUME NEW a \in Attempts, NEW o \in {"included", "failed"},
                 ChainFinalizes(a, o)
          PROVE  draft' = draft
      BY <3>6 DEF ChainFinalizes
    <3>7. CASE ChainAdvances \/ UNCHANGED vars
      BY <3>4, <3>7 DEF ChainAdvances, vars
    <3>8. CASE Restart
      BY <1>3, <3>8 DEF Restart
    <3> QED
      BY Zenon, <2>2, <3>2, <3>4, <3>5, <3>6, <3>7, <3>8 DEF Next, DraftStep
  <2> QED
    BY <2>1, <2>2
<1> QED
  BY <1>2, <1>3 DEF SignedInv

-----------------------------------------------------------------------------
(***************************************************************************)
(* ControlInv, BarrierInv and PlanInv are preserved                        *)
(***************************************************************************)
LEMMA ControlStep ==
    ASSUME IInv, [Next]_vars, TypeOK'
    PROVE  ControlInv'
<1> USE DEF IInv
<1>1. Stable /\ TypeOK'
  BY StableStep
<1> SUFFICES ASSUME NEW d \in Drafts, draft'[d] # None, draft'[d].control # None
             PROVE  /\ attempt'[draft'[d].control] # None
                    /\ draft'[d].submission = "CancellationRequested" =>
                           attempt'[draft'[d].control].phase
                               = "CancellationRequested"
  BY Zenon DEF ControlInv
<1> DEFINE Goal == /\ attempt'[draft'[d].control] # None
                   /\ draft'[d].submission = "CancellationRequested" =>
                          attempt'[draft'[d].control].phase
                              = "CancellationRequested"
<1>2. draft'[d] \in Draft
  BY Zenon, <1>1 DEF TypeOK
<1>3. PICK c \in Attempts : c = draft'[d].control
  BY Zenon, <1>2 DEF Draft
\* Enough: the draft held this control, and no cancellation is new.
<1>4. ASSUME draft[d] # None, draft[d].control = c,
             draft'[d].submission = "CancellationRequested" =>
                 draft[d].submission = "CancellationRequested"
      PROVE  Goal
  <2>1. /\ attempt[c] # None
        /\ draft[d].submission = "CancellationRequested" =>
               attempt[c].phase = "CancellationRequested"
    BY Zenon, <1>3, <1>4, ConstantsAssumption DEF ControlInv
  <2> QED
    BY Zenon, <1>1, <1>3, <1>4, <2>1 DEF Stable, Kept
<1>5. ASSUME draft'[d] = draft[d]
      PROVE  Goal
  BY <1>3, <1>4, <1>5
<1>6. ASSUME NEW p \in Planners, PrepareStep(p)
      PROVE  Goal
  <2>1. ASSUME NEW x \in Drafts, PrepareInsert(p, x)
        PROVE  draft'[d] = draft[d]
    BY Zenon, <2>1 DEF PrepareInsert, TypeOK
  <2> QED
    BY Zenon, <1>5, <1>6, <2>1 DEF PrepareStep, PrepareBegin, PrepareCheck,
                            PrepareReturn
<1>7. ASSUME NEW x \in Drafts,
             AuthorizeLate(x) \/ GetLate(x) \/ SubmitLate(x) \/ Authorize(x)
      PROVE  Goal
  <2>1. CASE x # d
    BY ZenonT(60), <1>5, <1>7, <2>1 DEF AuthorizeLate, GetLate, SubmitLate, Authorize, TypeOK
  <2>2. CASE x = d
    <3>1. draft[d] # None /\ draft[d] \in Draft
      BY Zenon, <1>7, <2>2 DEF AuthorizeLate, GetLate, SubmitLate, Authorize, TypeOK
    <3>2. /\ draft'[d].control = draft[d].control
          /\ draft'[d].submission = draft[d].submission
      <4>1. CASE AuthorizeLate(x) \/ GetLate(x) \/ SubmitLate(x)
        <5>1. draft'[d] = ExpiredDraft(draft[d])
          BY <2>2, <4>1 DEF AuthorizeLate, GetLate, SubmitLate, TypeOK
        <5> QED
          BY ZenonT(60), <3>1, <5>1 DEF ExpiredDraft, Draft
      <4>2. CASE Authorize(x)
        <5>1. PICK m : draft'[d] = [draft[d] EXCEPT !.state = "Authorized",
                                                    !.material = m]
          BY ZenonT(60), <2>2, <3>1, <4>2 DEF Authorize, TypeOK
        <5> QED
          BY SMTT(30), <3>1, <5>1 DEF Draft
      <4> QED
        BY <1>7, <4>1, <4>2
    <3> QED
      BY <1>3, <1>4, <3>1, <3>2
  <2> QED
    BY <2>1, <2>2
<1>8. ASSUME NEW x \in Drafts, NEW a \in Attempts, Submit(x, a)
      PROVE  Goal
  <2>1. CASE x # d
    BY Zenon, <1>5, <1>8, <2>1 DEF Submit, TypeOK
  <2>2. CASE x = d
    <3>1. draft[d] \in Draft
      BY <1>8, <2>2 DEF Submit, TypeOK
    <3>2. draft'[d].control = a /\ draft'[d].submission = "Running"
      BY ZenonT(60), <1>8, <2>2, <3>1 DEF Submit, TypeOK, Draft
    <3>3. attempt'[a] \in Attempt
      <4>1. draft[d].material \in {"signed", "void"}
        BY <1>8, <2>2, <3>1 DEF Submit, SignedInv, HeldFacts, Shape
      <4>2. attempt'[a] = [draft |-> d, material |-> draft[d].material,
                phase |-> "Working", pc |-> "proving", result |-> "none",
                loaded |-> None, awaited |-> TRUE]
        BY ZenonT(60), <1>8, <2>2 DEF Submit, TypeOK
      <4> QED
        BY <4>1, <4>2 DEF Attempt, Result
    <3> QED
      BY <3>2, <3>3, ConstantsAssumption
  <2> QED
    BY <2>1, <2>2
<1>9. ASSUME NEW x \in Drafts, CancelSubmission(x)
      PROVE  Goal
  <2>1. CASE x # d
    BY Zenon, <1>5, <1>9, <2>1 DEF CancelSubmission, TypeOK
  <2>2. CASE x = d
    <3>1. draft[d] \in Draft /\ draft[d] # None
      BY <1>9, <2>2 DEF CancelSubmission, TypeOK
    <3>2. draft[d].control = c
      BY ZenonT(60), <1>3, <1>9, <2>2, <3>1 DEF CancelSubmission, TypeOK, Draft
    <3>3. attempt[c] # None /\ attempt[c] \in Attempt
      BY <3>1, <3>2, ConstantsAssumption DEF ControlInv, TypeOK
    <3>4. attempt'[c].phase = "CancellationRequested"
      BY Zenon, <1>9, <2>2, <3>2, <3>3 DEF CancelSubmission, TypeOK, Attempt
    <3> QED
      BY <1>1, <1>3, <3>3, <3>4 DEF Stable
  <2> QED
    BY <2>1, <2>2
<1>10. ASSUME NEW a \in Attempts, Settle(a)
       PROVE  Goal
  <2>1. CASE draft'[d] = draft[d]
    BY Zenon, <1>5, <2>1
  <2>2. CASE draft'[d] # draft[d]
    <3>1. PICK x \in Drafts : x = attempt[a].draft
      BY Zenon, <1>10 DEF Settle, At, TypeOK, Attempt
    <3>2. /\ draft[d] # None /\ draft[d] \in Draft
          /\ draft'[d] = SettledDraft(draft[d], attempt[a].result,
                                      attempt[a].phase)
      BY ZenonT(30), <1>10, <2>2, <3>1 DEF Settle, TypeOK
    <3>3. Shape(draft[d])
      BY ZenonT(60), <3>2 DEF SignedInv, HeldFacts
    <3>4. /\ draft'[d].control \in {draft[d].control, None}
          /\ draft'[d].submission = "CancellationRequested"
                 /\ draft'[d].control # None => draft'[d] = draft[d]
      BY SMTT(60), <3>2, <3>3, SettledFacts
    <3> QED
      BY Zenon, <1>3, <1>4, <3>2, <3>4
  <2> QED
    BY Zenon, <2>1, <2>2
<1>11. ASSUME NEW r \in Reconcilers, ReconcileStep(r)
       PROVE  Goal
  <2>1. CASE draft' = draft
    BY Zenon, <1>5, <2>1
  <2>2. CASE draft' # draft
    <3>1. ReconcileApply(r)
      BY ZenonT(60), <1>11, <2>2 DEF ReconcileStep, ReconcileLoad, ReconcileWalk,
           ReconcileTip, ReconcileSave, ReconcileFails
    <3>2. recon[r] \in Reconciliation
      BY <3>1 DEF ReconcileApply, TypeOK
    <3>3. PICK x \in Drafts : x = recon[r].draft
      BY <3>2 DEF Reconciliation
    <3>4. CASE x = d
      <4>1. /\ draft[d] # None /\ draft[d] \in Draft
            /\ draft'[d] = ReconciledDraft(draft[d], recon[r].verdict)
        BY ZenonT(60), <3>1, <3>3, <3>4 DEF ReconcileApply, TypeOK
      <4>2. draft'[d].control = None
        BY <4>1 DEF ReconciledDraft, Draft
      <4> QED
        BY SMTT(30), <4>2
    <3>5. CASE x # d
      BY ZenonT(60), <1>5, <3>1, <3>3, <3>5 DEF ReconcileApply, TypeOK
    <3> QED
      BY <3>4, <3>5
  <2> QED
    BY Zenon, <2>1, <2>2
<1>12. ASSUME NEW a \in Attempts,
              WorkerStep(a) \/ DropSubmit(a) \/ WorkerDies(a), ~Settle(a)
       PROVE  Goal
  <2>1. draft' = draft
    BY Zenon, <1>12 DEF WorkerStep, ProvingEnds, WatchEnds, BeginBroadcast, Send,
           FinishLoad, FinishSave, FinishFails, WaiterRecovers, DropSubmit,
           WorkerDies
  <2> QED
    BY <1>5, <2>1
<1>13. ASSUME NEW a \in Attempts, NEW o \in {"included", "failed"},
              ChainFinalizes(a, o)
       PROVE  Goal
  BY Zenon, <1>5, <1>13 DEF ChainFinalizes
<1>14. ASSUME ChainAdvances \/ UNCHANGED vars
       PROVE  Goal
  BY <1>5, <1>14 DEF ChainAdvances, vars
<1>15. ASSUME Restart
       PROVE  Goal
  BY Zenon, <1>15 DEF Restart
<1> HIDE DEF Goal
<1>16. ASSUME NEW x \in Drafts, DraftStep(x)
       PROVE  Goal
  BY Zenon, <1>7, <1>8, <1>9, <1>16 DEF DraftStep
<1>17. ASSUME NEW a \in Attempts,
              WorkerStep(a) \/ DropSubmit(a) \/ WorkerDies(a)
       PROVE  Goal
  BY Zenon, <1>10, <1>12, <1>17
<1>18. Goal
  BY ZenonT(60), <1>6, <1>11, <1>13, <1>14, <1>15, <1>16, <1>17 DEF Next
<1> QED
  BY <1>18 DEF Goal

\* A pending attempt is the only active one of its draft: no fact about the
\* chain allows its record to be closed or its draft to be dropped.
LEMMA PendingAlone ==
    ASSUME IInv, NEW a \in Attempts, Pending(a)
    PROVE  /\ \A b \in AttemptsOf(attempt[a].draft) : chain[b] # "failed"
           /\ ~(intent[attempt[a].draft].deadline <= time)
<1> USE DEF IInv
<1>1. ASSUME NEW b \in AttemptsOf(attempt[a].draft), chain[b] = "failed"
      PROVE  FALSE
  <2>1. b \in Attempts /\ attempt[b] # None /\ attempt[b].draft = attempt[a].draft
    BY Zenon, <1>1 DEF AttemptsOf
  <2>2. Active(b)
    BY Zenon, <1>1, <2>1 DEF Active, AttemptInv, AttemptFacts, Own
  <2>3. Active(a)
    BY Zenon DEF Active, Pending
  <2>4. a = b
    BY Zenon, <2>1, <2>2, <2>3 DEF SignedInv
  <2> QED
    BY <1>1, <2>4 DEF Pending
<1>2. ~(intent[attempt[a].draft].deadline <= time)
  <2>1. attempt[a] \in Attempt /\ intent[attempt[a].draft] # None
    BY ZenonT(60) DEF Pending, TypeOK, AttemptInv, AttemptFacts
  <2>2. intent[attempt[a].draft].deadline \in Nat /\ time \in Nat
    <3>1. intent[attempt[a].draft] \in Intent
      BY Zenon, <2>1 DEF TypeOK, Attempt
    <3>2. time \in Nat
      <4>1. time \in 0..MaxTime
        BY ZenonT(60) DEF TypeOK
      <4> QED
        BY SMT, <4>1, ConstantsAssumption
    <3> QED
      BY Zenon, <3>1, <3>2, ConstantsAssumption DEF Intent
  <2> QED
    BY SMTT(30), <2>2 DEF Pending, DeadlineOf
<1> QED
  BY <1>1, <1>2

\* Every step keeps the journal a barrier.
LEMMA BarrierStep ==
    ASSUME IInv, [Next]_vars, TypeOK'
    PROVE  BarrierInv'
<1> USE DEF IInv
<1>1. Stable
  BY Zenon, StableStep
<1> SUFFICES ASSUME NEW a \in Attempts, Pending(a)'
             PROVE  Blocking(attempt[a].draft)'
  BY DEF BarrierInv
<1>2. ~\E d \in Drafts : Submit(d, a)
  <2>1. ASSUME NEW d \in Drafts, Submit(d, a)
        PROVE  FALSE
    <3>1. attempt'[a].pc = "proving" /\ chain'[a] = "absent"
      BY Zenon, <2>1 DEF Submit, TypeOK, AttemptInv, AttemptFacts
    <3> QED
      BY <3>1 DEF Pending
  <2> QED
    BY <2>1
<1>3. NothingNew(a)
  BY SMTT(30), <1>2, Origin DEF Pending
<1>4. PICK d \in Drafts : d = attempt[a].draft /\ d = attempt'[a].draft
  BY ZenonT(60), <1>1, <1>3 DEF NothingNew, TypeOK, Attempt, Stable, Kept
<1>5. journal \in Journal
  BY JournalType
<1>6. CASE BeginBroadcast(a)
  <2> DEFINE e == [state |-> "Broadcasting", tx |-> a]
  <2>1. e \in Entry /\ journal' \in Upserted(journal, d, e)
    BY ZenonT(60), <1>4, <1>6 DEF BeginBroadcast, Entry, StoredState
  <2>2. journal'[d] = e
    BY Zenon, <1>5, <2>1, UpsertedFacts
  <2> QED
    BY SMTT(60), <1>4, <2>1, <2>2, ConstantsAssumption DEF Blocking
<1>7. CASE Pending(a)
  <2>1. /\ journal[d] # None
        /\ journal[d].state \in {"Broadcasting", "OutcomeUnknown", "Included"}
    BY Zenon, <1>4, <1>7 DEF BarrierInv, Blocking
  <2>2. /\ \A b \in AttemptsOf(d) : chain[b] # "failed"
        /\ ~(intent[d].deadline <= time)
    BY Zenon, <1>4, <1>7, PendingAlone
  <2>3. CASE journal' = journal
    BY <1>4, <2>1, <2>3 DEF Blocking
  <2>4. ASSUME NEW x \in Drafts, NEW e \in Entry, EntryFacts(x, e),
               journal' \in Upserted(journal, x, e)
        PROVE  Blocking(attempt[a].draft)'
    <3>1. CASE x # d
      <4>1. journal'[d] = journal[d]
        <5>1. \/ journal'[d] = journal[d]
              \/ journal'[d] = None /\ journal[d].state \in {"Rejected", "Expired"}
          BY SMT, <1>5, <2>4, <3>1, UpsertedFacts
        <5> QED
          BY ZenonT(60), <2>1, <5>1
      <4> QED
        BY Zenon, <1>4, <2>1, <4>1 DEF Blocking
    <3>2. CASE x = d
      <4>1. e.state \in {"Broadcasting", "OutcomeUnknown", "Included"}
        BY Zenon, <2>2, <2>4, <3>2 DEF EntryFacts, Entry, StoredState
      <4>2. journal'[d] = e
        BY <1>5, <2>4, <3>2, <4>1, UpsertedFacts
      <4> QED
        BY ZenonT(60), <1>4, <4>1, <4>2, ConstantsAssumption DEF Blocking
    <3> QED
      BY <3>1, <3>2
  <2> QED
    BY SMTT(30), <2>3, <2>4, JournalStep
<1> QED
  BY <1>3, <1>6, <1>7 DEF NothingNew

\* Why a retained draft is dropped.
LEMMA DraftGone ==
    ASSUME IInv, [Next]_vars, TypeOK', NEW d \in Drafts, draft[d] # None, draft'[d] = None
    PROVE  \/ Restart
           \/ intent[d].deadline <= time
           \/ \E b \in AttemptsOf(d) :
                 chain[b] = "failed" /\ attempt[b].pc # "proving"
<1> USE DEF IInv
<1> DEFINE Goal == \/ Restart
                   \/ intent[d].deadline <= time
                   \/ \E b \in AttemptsOf(d) :
                         chain[b] = "failed" /\ attempt[b].pc # "proving"
<1>1. draft[d] \in Draft
  BY DEF TypeOK
<1>2. ASSUME NEW p \in Planners, PrepareStep(p)
      PROVE  FALSE
  <2>1. ASSUME NEW x \in Drafts, PrepareInsert(p, x)
        PROVE  FALSE
    <3>1. draft'[d] \in Draft
      BY ZenonT(30), <1>1, <2>1 DEF PrepareInsert, TypeOK, Draft, DraftState,
                        SubmissionState, Material
    <3> QED
      BY SMTT(30), <3>1, ConstantsAssumption
  <2> QED
    BY <1>2, <2>1 DEF PrepareStep, PrepareBegin, PrepareCheck, PrepareReturn
<1>3. ASSUME NEW x \in Drafts, DraftStep(x)
      PROVE  FALSE
  <2>1. TypeOK'
    BY ZenonT(60)
  <2>2. draft'[d] \in Draft
    <3>1. CASE x # d
      BY ZenonT(60), <1>1, <1>3, <3>1 DEF DraftStep, AuthorizeLate, Authorize, GetLate,
           SubmitLate, Submit, CancelSubmission, TypeOK
    <3>2. CASE AuthorizeLate(d) \/ GetLate(d) \/ SubmitLate(d)
      BY <1>1, <3>2, ExpiredDraftType DEF AuthorizeLate, GetLate, SubmitLate,
                                          TypeOK
    <3>3. CASE Authorize(d)
      BY Zenon, <1>1, <3>3 DEF Authorize, TypeOK, Draft, DraftState, Material
    <3>4. ASSUME NEW a \in Attempts, Submit(d, a)
          PROVE  draft'[d] \in Draft
      BY ZenonT(60), <1>1, <3>4 DEF Submit, TypeOK, Draft, DraftState, SubmissionState
    <3>5. CASE CancelSubmission(d)
      BY SMTT(30), <1>1, <3>5 DEF CancelSubmission, TypeOK, Draft, SubmissionState
    <3> QED
      BY ZenonT(60), <1>3, <3>1, <3>2, <3>3, <3>4, <3>5 DEF DraftStep
  <2> QED
    BY <2>2, ConstantsAssumption
<1>4. ASSUME NEW a \in Attempts,
             WorkerStep(a) \/ DropSubmit(a) \/ WorkerDies(a)
      PROVE  Goal
  <2>1. Settle(a)
    BY Zenon, <1>4 DEF WorkerStep, ProvingEnds, WatchEnds, BeginBroadcast, Send,
           FinishLoad, FinishSave, FinishFails, WaiterRecovers, DropSubmit,
           WorkerDies
  <2>2. attempt[a] \in Attempt /\ attempt[a] # None /\ attempt[a].pc = "settling"
    BY Zenon, <2>1 DEF Settle, At, TypeOK
  <2>3. PICK x \in Drafts : x = attempt[a].draft
    BY ZenonT(60), <2>2 DEF Attempt
  <2>4. x = d /\ SettledDraft(draft[d], attempt[a].result, attempt[a].phase) = None
    BY SMTT(30), <2>1, <2>3 DEF Settle, TypeOK
  <2>5. attempt[a].result = "rejected"
    <3>1. ASSUME attempt[a].result # "rejected"
          PROVE  SettledDraft(draft[d], attempt[a].result, attempt[a].phase)
                     \in Draft
      BY ZenonT(60), <1>1, <3>1 DEF SettledDraft, ExpiredDraft, Draft, DraftState,
                        SubmissionState, Material
    <3> QED
      BY Zenon, <2>4, <3>1, ConstantsAssumption
  <2>6. chain[a] = "failed"
    BY ZenonT(30), <2>2, <2>5 DEF AttemptInv, AttemptFacts, Own
  <2> QED
    BY ZenonT(60), <2>2, <2>3, <2>4, <2>6 DEF AttemptsOf
<1>5. ASSUME NEW r \in Reconcilers, ReconcileStep(r)
      PROVE  Goal
  <2>1. ReconcileApply(r)
    BY ZenonT(60), <1>5 DEF ReconcileStep, ReconcileLoad, ReconcileWalk, ReconcileTip,
                ReconcileSave, ReconcileFails
  <2>2. recon[r] \in Reconciliation /\ ReconFacts(recon[r])
    BY SMTT(30), <2>1 DEF ReconcileApply, TypeOK, ReconInv
  <2>3. PICK x \in Drafts : x = recon[r].draft
    BY ZenonT(60), <2>2 DEF Reconciliation
  <2>4. x = d /\ ReconciledDraft(draft[d], recon[r].verdict) = None
    <3>1. /\ draft \in [Drafts -> Draft \cup {None}]
          /\ draft' = IF draft[x] = None THEN draft
                      ELSE [draft EXCEPT ![x] = ReconciledDraft(draft[x], recon[r].verdict)]
      BY Zenon, <2>1, <2>3 DEF ReconcileApply, TypeOK
    <3>2. draft'[d] = None /\ draft[d] # None
      BY ZenonT(60), <1>1, ConstantsAssumption
    <3> QED
      BY Zenon, <3>1, <3>2
  <2>5. recon[r].verdict \in {"Rejected", "Expired"}
    <3>1. ASSUME recon[r].verdict \notin {"Rejected", "Expired"}
          PROVE  ReconciledDraft(draft[d], recon[r].verdict) \in Draft
      BY ZenonT(30), <1>1, <3>1 DEF ReconciledDraft, Draft, DraftState, SubmissionState
    <3> QED
      BY <2>4, <3>1, ConstantsAssumption
  <2>6. CASE recon[r].verdict = "Rejected"
    <3>1. recon[r].tx \in AttemptsOf(d) /\ chain[recon[r].tx] = "failed"
      BY <2>2, <2>3, <2>4, <2>6 DEF ReconFacts, AttemptsOf, Reconciliation
    <3>2. attempt[recon[r].tx].pc # "proving"
      BY ZenonT(60), <3>1 DEF AttemptInv, AttemptFacts, Own, AttemptsOf
    <3> QED
      BY ZenonT(60), <3>1, <3>2
  <2>7. CASE recon[r].verdict = "Expired"
    BY Zenon, <2>1, <2>2, <2>3, <2>4, <2>7 DEF ReconFacts, ReconcileApply
  <2> QED
    BY <2>5, <2>6, <2>7
<1>6. ASSUME NEW a \in Attempts, NEW o \in {"included", "failed"},
             ChainFinalizes(a, o)
      PROVE  FALSE
  BY <1>6 DEF ChainFinalizes
<1>7. ASSUME ChainAdvances \/ UNCHANGED vars
      PROVE  FALSE
  BY SMTT(30), <1>7 DEF ChainAdvances, vars
<1>8. Goal
  BY ZenonT(60), <1>2, <1>3, <1>4, <1>5, <1>6, <1>7 DEF Next
<1> QED
  BY Zenon, <1>8

\* A worker that may still broadcast in time has its draft.
LEMMA ProvingStep ==
    ASSUME IInv, [Next]_vars, TypeOK', NEW a \in Attempts,
           attempt'[a] # None, attempt'[a].material = "signed",
           attempt'[a].pc = "proving", time' < DeadlineOf(a)'
    PROVE  draft'[attempt'[a].draft] # None
<1> USE DEF IInv
<1>1. Stable
  BY ZenonT(60), StableStep
<1>2. ASSUME NEW d \in Drafts, Submit(d, a)
      PROVE  draft'[attempt'[a].draft] # None
  <2>1. attempt'[a].draft = d
    BY <1>2 DEF Submit, TypeOK
  <2>2. draft[d] \in Draft
    BY <1>2 DEF Submit, TypeOK
  <2>3. draft'[d] \in Draft
    BY ZenonT(60), <1>2, <2>2 DEF Submit, TypeOK, Draft, DraftState, SubmissionState
  <2> QED
    BY <2>1, <2>3, ConstantsAssumption
<1>3. CASE NothingNew(a)
  <2>1. /\ attempt[a] # None /\ attempt[a].pc = "proving"
        /\ attempt[a].material = "signed"
    BY <1>1, <1>3 DEF NothingNew, Stable, Kept
  <2>2. PICK d \in Drafts : /\ d = attempt[a].draft /\ d = attempt'[a].draft
                            /\ intent[d] \in Intent /\ intent'[d] = intent[d]
    BY ZenonT(60), <1>1, <2>1, IntentFixed DEF Stable, Kept
  <2>3. time < intent[d].deadline
    <3>1. intent[d].deadline \in Nat
      BY Zenon, <2>2, ConstantsAssumption DEF Intent
    <3> QED
      BY SMTT(60), <1>1, <2>2, <3>1 DEF DeadlineOf, Stable
  <2>4. draft[d] # None
    BY ZenonT(30), <2>1, <2>2, <2>3 DEF PlanInv, DeadlineOf
  <2>5. ASSUME draft'[d] = None
        PROVE  FALSE
    <3>1. CASE Restart
      <4>1. attempt'[a] = Ended(attempt[a]) /\ attempt[a] \in Attempt
        BY <2>1, <3>1 DEF Restart, TypeOK
      <4> QED
        BY ZenonT(60), <4>1, RecordsMoved
    <3>2. CASE intent[d].deadline <= time
      <4>1. intent[d].deadline \in Nat /\ time \in Nat
        BY ZenonT(60), <1>1, <2>2, ConstantsAssumption DEF Intent, Stable
      <4> QED
        BY SMTT(30), <2>3, <3>2, <4>1
    <3>3. ASSUME NEW b \in AttemptsOf(d), chain[b] = "failed",
                 attempt[b].pc # "proving"
          PROVE  FALSE
      <4>1. b \in Attempts /\ attempt[b] # None /\ attempt[b].draft = d
        BY Zenon, <3>3 DEF AttemptsOf
      <4>2. Active(b)
        BY ZenonT(60), <3>3, <4>1 DEF Active, AttemptInv, AttemptFacts, Own
      <4>3. Active(a)
        BY SMTT(30), <2>1 DEF Active
      <4>4. a = b
        BY ZenonT(60), <2>2, <4>1, <4>2, <4>3 DEF SignedInv
      <4> QED
        BY Zenon, <2>1, <3>3, <4>4
    <3> QED
      BY ZenonT(30), <2>4, <2>5, <3>1, <3>2, <3>3, DraftGone
  <2> QED
    BY Zenon, <2>2, <2>5
<1> QED
  BY Zenon, <1>2, <1>3, Origin

\* What a checked plan was before the step.
LEMMA CheckedOrigin ==
    ASSUME IInv, [Next]_vars, TypeOK', NEW p \in Planners,
           planning'[p] # None, planning'[p].checked = TRUE
    PROVE  /\ planning[p] # None
           /\ planning'[p].intent = planning[p].intent
           /\ planning[p].checked = TRUE \/ ~Blocked(planning[p].intent)
           /\ ~Restart
<1> USE DEF IInv
<1> DEFINE Goal == /\ planning[p] # None
                   /\ planning'[p].intent = planning[p].intent
                   /\ planning[p].checked = TRUE \/ ~Blocked(planning[p].intent)
<1>1. ASSUME planning'[p] = planning[p]
      PROVE  Goal
  BY <1>1
<1>2. ASSUME NEW q \in Planners, PrepareStep(q)
      PROVE  Goal
  <2>1. CASE q # p
    <3>1. planning'[p] = planning[p]
      BY SMTT(30), <1>2, <2>1 DEF PrepareStep, PrepareBegin, PrepareCheck, PrepareInsert,
                        PrepareReturn, TypeOK
    <3> QED
      BY <1>1, <3>1
  <2>2. CASE q = p
    <3>1. ASSUME NEW i \in Intent, PrepareBegin(p, i)
          PROVE  FALSE
      BY <3>1 DEF PrepareBegin, TypeOK
    <3>2. ASSUME NEW d \in Drafts, PrepareInsert(p, d)
          PROVE  FALSE
      BY ZenonT(60), <3>2 DEF PrepareInsert, TypeOK
    <3>3. ~PrepareReturn(p)
      BY DEF PrepareReturn, TypeOK
    <3>4. CASE PrepareCheck(p)
      <4>1. planning[p] \in Planning /\ ~Blocked(planning[p].intent)
        BY <3>4 DEF PrepareCheck, TypeOK
      <4>2. planning'[p].intent = planning[p].intent
        BY <3>4, <4>1 DEF PrepareCheck, TypeOK, Planning
      <4> QED
        BY <3>4, <4>1, <4>2 DEF PrepareCheck
    <3> QED
      BY ZenonT(60), <1>2, <2>2, <3>1, <3>2, <3>3, <3>4 DEF PrepareStep
  <2> QED
    BY Zenon, <2>1, <2>2
<1>3. ASSUME NEW d \in Drafts, DraftStep(d)
      PROVE  planning' = planning
  BY Zenon, <1>3 DEF DraftStep, AuthorizeLate, Authorize, GetLate, SubmitLate, Submit,
              CancelSubmission
<1>4. ASSUME NEW a \in Attempts,
             WorkerStep(a) \/ DropSubmit(a) \/ WorkerDies(a)
      PROVE  planning' = planning
  BY <1>4, WorkerFrame
<1>5. ASSUME NEW r \in Reconcilers, ReconcileStep(r)
      PROVE  planning' = planning
  BY <1>5, ReconcileFrame
<1>6. ASSUME NEW a \in Attempts, NEW o \in {"included", "failed"},
             ChainFinalizes(a, o)
      PROVE  planning' = planning
  BY <1>6 DEF ChainFinalizes
<1>7. ASSUME ChainAdvances \/ UNCHANGED vars
      PROVE  planning' = planning
  BY Zenon, <1>7 DEF ChainAdvances, vars
<1>8. ~Restart
  BY Zenon DEF Restart
<1> HIDE DEF Goal
<1>9. Goal
  BY ZenonT(60), <1>1, <1>2, <1>3, <1>4, <1>5, <1>6, <1>7, <1>8 DEF Next
<1> QED
  BY <1>8, <1>9 DEF Goal

\* Every step leaves a checked planner alone with its plan.
LEMMA PlanStep ==
    ASSUME IInv, [Next]_vars, TypeOK'
    PROVE  PlanInv'
<1> USE DEF IInv
<1>1. Stable
  BY StableStep
<1>2. ASSUME NEW a \in Attempts, attempt'[a] # None,
             attempt'[a].material = "signed", attempt'[a].pc = "proving",
             time' < DeadlineOf(a)'
      PROVE  draft'[attempt'[a].draft] # None
  BY ZenonT(60), <1>2, ProvingStep
<1>3. ASSUME NEW a \in Attempts, NEW p \in Planners, Pending(a)',
             planning'[p] # None, planning'[p].checked = TRUE,
             planning'[p].intent.transfer \notin Shielded,
             SameFingerprint(intent[attempt[a].draft], planning[p].intent)'
      PROVE  draft'[attempt'[a].draft] # None
  <2>1. /\ planning[p] # None
        /\ planning'[p].intent = planning[p].intent
        /\ planning[p].checked = TRUE \/ ~Blocked(planning[p].intent)
        /\ ~Restart
    BY ZenonT(30), <1>3, CheckedOrigin
  <2>2. ~\E d \in Drafts : Submit(d, a)
    <3>1. ASSUME NEW d \in Drafts, Submit(d, a)
          PROVE  FALSE
      <4>1. attempt'[a].pc = "proving" /\ chain'[a] = "absent"
        BY ZenonT(60), <3>1 DEF Submit, TypeOK, AttemptInv, AttemptFacts
      <4> QED
        BY <1>3, <4>1 DEF Pending
    <3> QED
      BY <3>1
  <2>3. NothingNew(a)
    BY <1>3, <2>2, Origin DEF Pending
  <2>4. PICK d \in Drafts : /\ d = attempt[a].draft /\ d = attempt'[a].draft
                            /\ intent[d] \in Intent /\ intent'[d] = intent[d]
    BY ZenonT(30), <1>1, <2>3, IntentFixed DEF NothingNew, Stable, Kept
  <2>5. SameFingerprint(intent[d], planning[p].intent)
    BY ZenonT(30), <1>3, <2>1, <2>4 DEF SameFingerprint, Fingerprint
  <2>6. CASE BeginBroadcast(a)
    <3>1. draft' = draft /\ attempt[a].pc = "proving" /\ attempt[a] # None
      BY SMTT(30), <2>6 DEF BeginBroadcast, At
    <3>2. attempt[a].material = "signed"
      BY Zenon, <1>1, <1>3, <2>3 DEF Pending, NothingNew, Stable, Kept
    <3>3. time < DeadlineOf(a)
      BY <1>3, <2>4, <2>6 DEF Pending, DeadlineOf, BeginBroadcast
    <3> QED
      BY Zenon, <2>4, <3>1, <3>2, <3>3 DEF PlanInv
  <2>7. CASE Pending(a)
    <3>1. planning[p].checked = TRUE
      <4>1. Blocking(d)
        BY Zenon, <2>4, <2>7 DEF BarrierInv
      <4>2. Blocked(planning[p].intent)
        BY <2>5, <4>1 DEF Blocking, Blocked, Recorded
      <4> QED
        BY <2>1, <4>2
    <3>2. draft[d] # None
      BY Zenon, <1>3, <2>1, <2>4, <2>5, <2>7, <3>1 DEF PlanInv
    <3>3. /\ \A b \in AttemptsOf(d) : chain[b] # "failed"
          /\ ~(intent[d].deadline <= time)
      BY Zenon, <2>4, <2>7, PendingAlone
    <3> QED
      BY ZenonT(60), <2>1, <2>4, <3>2, <3>3, DraftGone
  <2> QED
    BY <1>3, <2>3, <2>6, <2>7 DEF NothingNew
<1> QED
  BY ZenonT(30), <1>2, <1>3 DEF PlanInv

-----------------------------------------------------------------------------
(***************************************************************************)
(* The journal                                                             *)
(***************************************************************************)
Bounded == Cardinality(Recorded(journal)) <= MaxRecords

\* The journal stays within its bound.
LEMMA TypeOKBounded == TypeOK => journal \in Journal /\ Bounded
BY ZenonT(60) DEF TypeOK, Journal, Bounded, Recorded

\* A save stays within the bound.
LEMMA UpsertedBound ==
    ASSUME NEW j \in Journal, NEW d \in Drafts, NEW e \in Entry,
           Cardinality(Recorded(j)) <= MaxRecords,
           NEW k \in Upserted(j, d, e)
    PROVE  k \in Journal /\ Cardinality(Recorded(k)) <= MaxRecords
<1> DEFINE grown == [j EXCEPT ![d] = e]
<1>1. None \notin Entry
  BY ConstantsAssumption
<1>2. grown \in Journal /\ grown[d] = e /\ \A x \in Drafts \ {d} : grown[x] = j[x]
  BY DEF Journal
<1>3. CASE Cardinality(Recorded(grown)) <= MaxRecords
  BY Zenon, <1>2, <1>3 DEF Upserted
<1>4. CASE ~(Cardinality(Recorded(grown)) <= MaxRecords)
  <2>1. PICK x \in Evictable(grown) : k = [grown EXCEPT ![x] = None]
    BY Zenon, <1>4 DEF Upserted
  <2>2. x \in Drafts /\ grown[x] # None /\ grown[x].state \in {"Rejected", "Expired"}
    BY <2>1 DEF Evictable, Recorded
  <2>3. k \in Journal /\ k[x] = None /\ \A y \in Drafts \ {x} : k[y] = grown[y]
    BY <1>2, <2>1, <2>2 DEF Journal
  <2>4. Cardinality(Recorded(k)) <= MaxRecords
    <3>1. Recorded(grown) = Recorded(j) \cup {d}
      BY <1>1, <1>2 DEF Recorded
    <3>2. Recorded(k) = Recorded(grown) \ {x}
      BY <2>2, <2>3 DEF Recorded
    <3>3. IsFiniteSet(Recorded(j)) /\ IsFiniteSet(Recorded(grown))
      BY ConstantsAssumption, FS_Subset DEF Recorded
    <3> DEFINE m == Cardinality(Recorded(j))
               n == Cardinality(Recorded(grown))
               o == Cardinality(Recorded(k))
    <3>4. m \in Nat /\ n \in Nat
      BY <3>3, FS_CardinalityType
    <3>5. n = m \/ n = m + 1
      BY Zenon, <3>1, <3>3, FS_AddElement
    <3>6. o = n - 1
      <4>1. x \in Recorded(grown)
        BY <2>2 DEF Recorded
      <4> QED
        BY ZenonT(60), <4>1, <3>2, <3>3, FS_RemoveElement
    <3>7. m <= MaxRecords /\ MaxRecords \in Nat
      BY ConstantsAssumption
    <3> HIDE DEF m, n, o
    <3>8. o <= MaxRecords
      BY <3>4, <3>5, <3>6, <3>7
    <3> QED
      BY <3>8 DEF o
  <2> QED
    BY <2>3, <2>4
<1> QED
  BY <1>3, <1>4

-----------------------------------------------------------------------------
(***************************************************************************)
(* Type correctness                                                        *)
(***************************************************************************)
LEMMA PrepareTypes ==
    ASSUME TypeOK, NEW p \in Planners, PrepareStep(p)
    PROVE  TypeOK'
<1>1. ASSUME NEW i \in Intent, PrepareBegin(p, i)
      PROVE  TypeOK'
  <2>1. planning' \in [Planners -> Planning \cup {None}]
    BY <1>1 DEF PrepareBegin, TypeOK, Planning
  <2> QED
    BY ZenonT(60), <1>1, <2>1 DEF PrepareBegin, TypeOK
<1>2. CASE PrepareCheck(p)
  <2>1. planning' \in [Planners -> Planning \cup {None}]
    BY ZenonT(60), <1>2 DEF PrepareCheck, TypeOK, Planning
  <2> QED
    BY <1>2, <2>1 DEF PrepareCheck, TypeOK
<1>3. ASSUME NEW d \in Drafts, PrepareInsert(p, d)
      PROVE  TypeOK'
  <2>1. planning' \in [Planners -> Planning \cup {None}]
    BY ZenonT(60), <1>3 DEF PrepareInsert, TypeOK
  <2>2. intent' \in [Drafts -> Intent \cup {None}]
    BY Zenon, <1>3 DEF PrepareInsert, TypeOK, Planning
  <2>3. draft' \in [Drafts -> Draft \cup {None}]
    BY Zenon, <1>3 DEF PrepareInsert, TypeOK, Draft, DraftState, SubmissionState,
                Material
  <2> QED
    BY ZenonT(60), <1>3, <2>1, <2>2, <2>3 DEF PrepareInsert, TypeOK
<1>4. CASE PrepareReturn(p)
  <2>1. planning' \in [Planners -> Planning \cup {None}]
    BY Zenon, <1>4 DEF PrepareReturn, TypeOK
  <2> QED
    BY Zenon, <1>4, <2>1 DEF PrepareReturn, TypeOK
<1> QED
  BY ZenonT(60), <1>1, <1>2, <1>3, <1>4 DEF PrepareStep

\* The steps of drafts keep the types.
LEMMA DraftTypes ==
    ASSUME TypeOK, SignedInv, ControlInv, NEW d \in Drafts, DraftStep(d)
    PROVE  TypeOK'
<1>1. CASE AuthorizeLate(d) \/ GetLate(d) \/ SubmitLate(d)
  <2>1. draft' = [draft EXCEPT ![d] = ExpiredDraft(@)] /\ draft[d] # None
    BY Zenon, <1>1 DEF AuthorizeLate, GetLate, SubmitLate
  <2>2. draft' \in [Drafts -> Draft \cup {None}]
    BY <2>1, ExpiredDraftType DEF TypeOK
  <2> QED
    BY ZenonT(60), <1>1, <2>2 DEF AuthorizeLate, GetLate, SubmitLate, TypeOK
<1>2. CASE Authorize(d)
  <2> DEFINE signed == [draft[d] EXCEPT
                  !.state = "Authorized",
                  !.material = IF @ = "payload" THEN "signed" ELSE "void"]
  <2>1. draft[d] \in Draft
    BY <1>2 DEF Authorize, TypeOK
  <2>2. signed \in Draft
    BY Zenon, <2>1 DEF Draft, DraftState, Material
  <2>3. draft' = [draft EXCEPT ![d] = signed]
    BY ZenonT(60), <1>2, <2>1 DEF Authorize, TypeOK
  <2>4. draft' \in [Drafts -> Draft \cup {None}]
    BY Zenon, <2>2, <2>3 DEF TypeOK
  <2> QED
    BY <1>2, <2>4 DEF Authorize, TypeOK
<1>3. ASSUME NEW a \in Attempts, Submit(d, a)
      PROVE  TypeOK'
  <2>1. draft[d] \in Draft /\ draft[d].material \in {"signed", "void"}
    BY <1>3 DEF Submit, TypeOK, SignedInv, HeldFacts, Shape
  <2>2. draft' \in [Drafts -> Draft \cup {None}]
    BY ZenonT(60), <1>3, <2>1 DEF Submit, TypeOK, Draft, DraftState, SubmissionState
  <2>3. attempt' \in [Attempts -> Attempt \cup {None}]
    BY <1>3, <2>1 DEF Submit, TypeOK, Attempt, Result
  <2> QED
    BY Zenon, <1>3, <2>2, <2>3 DEF Submit, TypeOK
<1>4. CASE CancelSubmission(d)
  <2>1. draft[d] \in Draft
    BY <1>4 DEF CancelSubmission, TypeOK
  <2>2. draft' \in [Drafts -> Draft \cup {None}]
    BY <1>4, <2>1 DEF CancelSubmission, TypeOK, Draft, SubmissionState
  <2>3. PICK a \in Attempts : a = draft[d].control
    BY <1>4, <2>1 DEF CancelSubmission, Draft
  <2>4. attempt[a] \in Attempt
    BY <1>4, <2>3 DEF CancelSubmission, ControlInv, TypeOK
  <2>5. attempt' = [attempt EXCEPT ![a].phase = "CancellationRequested"]
    BY Zenon, <1>4, <2>3 DEF CancelSubmission, CancelledPhase
  <2>6. attempt' \in [Attempts -> Attempt \cup {None}]
    BY <2>4, <2>5 DEF TypeOK, Attempt
  <2> QED
    BY ZenonT(60), <1>4, <2>2, <2>6 DEF CancelSubmission, TypeOK
<1> QED
  BY Zenon, <1>1, <1>2, <1>3, <1>4 DEF DraftStep

\* The steps of workers keep the types.
LEMMA WorkerTypes ==
    ASSUME TypeOK, AttemptInv, NEW a \in Attempts,
           WorkerStep(a) \/ DropSubmit(a) \/ WorkerDies(a)
    PROVE  TypeOK'
<1>1. ASSUME NEW result \in Result,
             ProvingEnds(a, result) \/ WatchEnds(a, result)
      PROVE  TypeOK'
  <2>1. attempt[a] \in Attempt
    BY ZenonT(60), <1>1 DEF ProvingEnds, WatchEnds, At, TypeOK
  <2>2. attempt' \in [Attempts -> Attempt \cup {None}]
    BY <1>1, <2>1, FinishingType DEF ProvingEnds, WatchEnds, TypeOK
  <2> QED
    BY ZenonT(60), <1>1, <2>2 DEF ProvingEnds, WatchEnds, TypeOK
<1>2. CASE BeginBroadcast(a)
  <2> DEFINE e == [state |-> "Broadcasting", tx |-> a]
  <2>1. attempt[a] \in Attempt /\ e \in Entry
    BY <1>2 DEF BeginBroadcast, At, TypeOK, Entry, StoredState
  <2>2. attempt' \in [Attempts -> Attempt \cup {None}]
    BY ZenonT(60), <1>2, <2>1 DEF BeginBroadcast, TypeOK, Attempt
  <2>3. journal \in Journal /\ Bounded /\ attempt[a].draft \in Drafts
    BY <2>1, TypeOKBounded DEF Attempt
  <2>4. journal' \in Journal /\ Cardinality(Recorded(journal')) <= MaxRecords
    BY <1>2, <2>1, <2>3, UpsertedBound DEF BeginBroadcast, Bounded
  <2> QED
    BY <1>2, <2>2, <2>4 DEF BeginBroadcast, TypeOK, Journal, Recorded
<1>3. CASE Send(a)
  <2>1. attempt[a] \in Attempt
    BY <1>3 DEF Send, At, TypeOK
  <2>2. attempt' \in [Attempts -> Attempt \cup {None}]
    BY <1>3, <2>1 DEF Send, TypeOK, Attempt
  <2>3. chain' \in [Attempts -> ChainState]
    BY <1>3 DEF Send, TypeOK, ChainState
  <2> QED
    BY <1>3, <2>2, <2>3 DEF Send, TypeOK
<1>4. CASE FinishLoad(a)
  <2>1. attempt[a] \in Attempt
    BY <1>4 DEF FinishLoad, At, TypeOK
  <2>2. journal[attempt[a].draft].tx \in Attempts
    BY <1>4, <2>1 DEF FinishLoad, TypeOK, Attempt, Entry
  <2>3. attempt' \in [Attempts -> Attempt \cup {None}]
    BY ZenonT(60), <1>4, <2>1, <2>2 DEF FinishLoad, TypeOK, Attempt
  <2> QED
    BY <1>4, <2>3 DEF FinishLoad, TypeOK
<1>5. CASE FinishSave(a)
  <2> DEFINE e == [state |-> StoredResult(attempt[a].result),
                   tx |-> attempt[a].loaded]
  <2>1. attempt[a] \in Attempt /\ attempt[a].loaded \in Attempts
    BY <1>5 DEF FinishSave, At, TypeOK, AttemptInv, AttemptFacts,
                Attempt
  <2>2. e \in Entry
    BY <2>1 DEF StoredResult, Entry, StoredState
  <2>3. attempt' \in [Attempts -> Attempt \cup {None}]
    BY ZenonT(60), <1>5, <2>1 DEF FinishSave, TypeOK, Attempt
  <2>4. journal \in Journal /\ Bounded /\ attempt[a].draft \in Drafts
    BY <2>1, TypeOKBounded DEF Attempt
  <2>5. journal' \in Journal /\ Cardinality(Recorded(journal')) <= MaxRecords
    BY Zenon, <1>5, <2>2, <2>4, UpsertedBound DEF FinishSave, Bounded
  <2> QED
    BY ZenonT(60), <1>5, <2>3, <2>5 DEF FinishSave, TypeOK, Journal, Recorded
<1>6. CASE FinishFails(a)
  <2>1. attempt[a] \in Attempt
    BY <1>6 DEF FinishFails, At, TypeOK
  <2>2. attempt' \in [Attempts -> Attempt \cup {None}]
    BY ZenonT(60), <1>6, <2>1, AfterFailedMarkType DEF FinishFails, TypeOK
  <2> QED
    BY ZenonT(60), <1>6, <2>2 DEF FinishFails, TypeOK
<1>7. CASE Settle(a)
  <2>1. attempt[a] \in Attempt
    BY Zenon, <1>7 DEF Settle, At, TypeOK
  <2>2. attempt' \in [Attempts -> Attempt \cup {None}]
    BY Zenon, <1>7, <2>1, EndedType DEF Settle, TypeOK
  <2>3. PICK d \in Drafts : d = attempt[a].draft
    BY Zenon, <2>1 DEF Attempt
  <2>4. draft' \in [Drafts -> Draft \cup {None}]
    BY Zenon, <1>7, <2>3, SettledDraftType DEF Settle, TypeOK
  <2> QED
    BY Zenon, <1>7, <2>2, <2>4 DEF Settle, TypeOK
<1>8. CASE WaiterRecovers(a)
  <2>1. attempt[a] \in Attempt
    BY <1>8 DEF WaiterRecovers, At, TypeOK
  <2>2. attempt' \in [Attempts -> Attempt \cup {None}]
    BY ZenonT(60), <1>8, <2>1 DEF WaiterRecovers, TypeOK, Attempt, Result
  <2> QED
    BY <1>8, <2>2 DEF WaiterRecovers, TypeOK
<1>9. CASE DropSubmit(a)
  <2>1. attempt[a] \in Attempt
    BY <1>9 DEF DropSubmit, TypeOK
  <2>2. CancelledPhase(attempt[a].phase)
            \in {"Working", "CancellationRequested", "Broadcasting"}
    BY <2>1 DEF CancelledPhase, Attempt
  <2>3. attempt' = [attempt EXCEPT ![a] =
            [attempt[a] EXCEPT !.awaited = FALSE,
                               !.phase = CancelledPhase(attempt[a].phase)]]
    BY Zenon, <1>9, <2>1 DEF DropSubmit, TypeOK
  <2>4. attempt' \in [Attempts -> Attempt \cup {None}]
    BY ZenonT(60), <2>1, <2>2, <2>3 DEF TypeOK, Attempt
  <2> QED
    BY Zenon, <1>9, <2>4 DEF DropSubmit, TypeOK
<1>10. CASE WorkerDies(a)
  <2>1. attempt[a] \in Attempt
    BY <1>10 DEF WorkerDies, TypeOK
  <2>2. attempt' \in [Attempts -> Attempt \cup {None}]
    BY <1>10, <2>1 DEF WorkerDies, TypeOK, Attempt
  <2> QED
    BY <1>10, <2>2 DEF WorkerDies, TypeOK
<1> QED
  BY ZenonT(60), <1>1, <1>2, <1>3, <1>4, <1>5, <1>6, <1>7, <1>8, <1>9, <1>10
     DEF WorkerStep

\* The steps of reconcilers keep the types.
LEMMA ReconcileTypes ==
    ASSUME TypeOK, ReconInv, NEW r \in Reconcilers, ReconcileStep(r)
    PROVE  TypeOK'
<1>1. ASSUME NEW d \in Drafts, ReconcileLoad(r, d)
      PROVE  TypeOK'
  <2>1. journal[d].tx \in Attempts
    BY <1>1 DEF ReconcileLoad, TypeOK, Entry
  <2>2. [draft |-> d, tx |-> journal[d].tx, stage |-> "walking",
         verdict |-> "none"] \in Reconciliation
    BY Zenon, <2>1 DEF Reconciliation, Verdict
  <2>3. recon' \in [Reconcilers -> Reconciliation \cup {None}]
    BY Zenon, <1>1, <2>2 DEF ReconcileLoad, TypeOK
  <2> QED
    BY ZenonT(60), <1>1, <2>3 DEF ReconcileLoad, TypeOK
<1>2. ASSUME NEW verdict \in Verdict, ReconcileWalk(r, verdict)
      PROVE  TypeOK'
  <2>1. PICK stage \in {"tip", "saving"} :
            recon' = [recon EXCEPT ![r].stage = stage, ![r].verdict = verdict]
    BY Zenon, <1>2 DEF ReconcileWalk
  <2>2. recon[r] \in Reconciliation
    BY <1>2 DEF ReconcileWalk, TypeOK
  <2>3. recon' \in [Reconcilers -> Reconciliation \cup {None}]
    BY ZenonT(60), <2>1, <2>2 DEF TypeOK, Reconciliation
  <2> QED
    BY <1>2, <2>3 DEF ReconcileWalk, TypeOK
<1>3. CASE ReconcileTip(r)
  <2>1. TipVerdict(intent[recon[r].draft].deadline) \in Verdict
    BY DEF TipVerdict, Verdict
  <2>2. recon' \in [Reconcilers -> Reconciliation \cup {None}]
    BY ZenonT(60), <1>3, <2>1 DEF ReconcileTip, TypeOK, Reconciliation
  <2> QED
    BY Zenon, <1>3, <2>2 DEF ReconcileTip, TypeOK
<1>4. CASE ReconcileSave(r)
  <2> DEFINE e == [state |-> recon[r].verdict, tx |-> recon[r].tx]
  <2>1. recon[r] \in Reconciliation /\ recon[r].verdict # "none"
    BY <1>4 DEF ReconcileSave, TypeOK, ReconInv, ReconFacts
  <2>2. e \in Entry /\ recon[r].draft \in Drafts
    BY <2>1 DEF Reconciliation, Verdict, Entry, StoredState
  <2>3. recon' \in [Reconcilers -> Reconciliation \cup {None}]
    BY <1>4, <2>1 DEF ReconcileSave, TypeOK, Reconciliation
  <2>4. journal' \in Journal /\ Cardinality(Recorded(journal')) <= MaxRecords
    BY <1>4, <2>2, TypeOKBounded, UpsertedBound DEF ReconcileSave, Bounded
  <2> QED
    BY <1>4, <2>3, <2>4 DEF ReconcileSave, TypeOK, Journal, Recorded
<1>5. CASE ReconcileApply(r)
  <2>1. recon[r] \in Reconciliation
    BY Zenon, <1>5 DEF ReconcileApply, TypeOK
  <2>2. PICK d \in Drafts : d = recon[r].draft
    BY <2>1 DEF Reconciliation
  <2>3. draft' \in [Drafts -> Draft \cup {None}]
    BY ZenonT(60), <1>5, <2>2, ReconciledDraftType DEF ReconcileApply, TypeOK
  <2>4. recon' \in [Reconcilers -> Reconciliation \cup {None}]
    BY Zenon, <1>5 DEF ReconcileApply, TypeOK
  <2> QED
    BY ZenonT(60), <1>5, <2>3, <2>4 DEF ReconcileApply, TypeOK
<1>6. CASE ReconcileFails(r)
  <2>1. recon' \in [Reconcilers -> Reconciliation \cup {None}]
    BY <1>6 DEF ReconcileFails, TypeOK
  <2> QED
    BY ZenonT(60), <1>6, <2>1 DEF ReconcileFails, TypeOK
<1> QED
  BY ZenonT(60), <1>1, <1>2, <1>3, <1>4, <1>5, <1>6 DEF ReconcileStep

\* Every step keeps the types.
LEMMA TypeStep ==
    ASSUME IInv, [Next]_vars
    PROVE  TypeOK'
<1> USE DEF IInv
<1>1. ASSUME NEW a \in Attempts, NEW o \in {"included", "failed"},
             ChainFinalizes(a, o)
      PROVE  TypeOK'
  <2>1. chain' \in [Attempts -> ChainState]
    BY Zenon, <1>1 DEF ChainFinalizes, ChainState, TypeOK
  <2> QED
    BY ZenonT(60), <1>1, <2>1 DEF ChainFinalizes, TypeOK
<1>2. CASE ChainAdvances
  <2>1. time' \in 0..MaxTime
    BY <1>2, ConstantsAssumption DEF ChainAdvances, TypeOK
  <2> QED
    BY Zenon, <1>2, <2>1 DEF ChainAdvances, TypeOK
<1>3. CASE Restart
  <2>1. attempt' \in [Attempts -> Attempt \cup {None}]
    BY ZenonT(60), <1>3, EndedType DEF Restart, TypeOK
  <2> QED
    BY Zenon, <1>3, <2>1 DEF Restart, TypeOK
<1>4. CASE UNCHANGED vars
  BY <1>4 DEF vars, TypeOK
<1> QED
  BY ZenonT(60), <1>1, <1>2, <1>3, <1>4, PrepareTypes, DraftTypes, WorkerTypes,
     ReconcileTypes DEF Next


-----------------------------------------------------------------------------
(***************************************************************************)
(* The theorems                                                            *)
(***************************************************************************)
LEMMA InitIInv == Init => IInv
<1> SUFFICES ASSUME Init PROVE IInv
  BY Zenon
<1>1. TypeOK
  <2>1. {d \in Drafts : journal[d] # None} = {}
    BY Zenon DEF Init
  <2>2. Cardinality({d \in Drafts : journal[d] # None}) <= MaxRecords
    BY SMTT(30), <2>1, FS_EmptySet, ConstantsAssumption
  <2> QED
    BY <2>2, ConstantsAssumption DEF Init, TypeOK, ChainState
<1>2. AttemptInv /\ SignedInv /\ ControlInv
  BY DEF Init, AttemptInv, AttemptFacts, SignedInv, Active, ControlInv
<1>3. RecordInv /\ ReconInv
  BY Zenon DEF Init, RecordInv, ReconInv
<1>4. BarrierInv /\ PlanInv
  BY DEF Init, BarrierInv, PlanInv, Pending
<1> QED
  BY Zenon, <1>1, <1>2, <1>3, <1>4 DEF IInv

\* Every step keeps the invariant.
LEMMA NextIInv == IInv /\ [Next]_vars => IInv'
BY ZenonT(60), TypeStep, AttemptStep, SignedStep, ControlStep, RecordStep, ReconStep,
   BarrierStep, PlanStep DEF IInv

\* IInv holds in every reachable state, whatever prepare, authorize, submit,
\* cancel_submission, the workers, reconcile_submission, the chain and
\* restarts of the process do and in whatever order.
THEOREM Inductive == Spec => []IInv
<1>1. Init => IInv
  BY InitIInv
<1>2. IInv /\ [Next]_vars => IInv'
  BY NextIInv
<1> QED
  BY <1>1, <1>2, PTL DEF Spec

\* The state stays well formed and the journal within MAX_RECORDS.
THEOREM TypeCorrect == Spec => []TypeOK
<1>1. IInv => TypeOK
  BY DEF IInv
<1> QED
  BY <1>1, Inductive, PTL

\* A transaction that can land before its deadline is pending.
LEMMA CanLandPending ==
    ASSUME IInv, NEW a \in Attempts, CanLand(a)
    PROVE  /\ attempt[a] # None /\ attempt[a].draft \in Drafts
           /\ Active(a)
           /\ time < DeadlineOf(a) => Pending(a)
<1>1. chain[a] \in {"included", "pool"}
  BY SMTT(30) DEF CanLand
<1>2. attempt[a] # None /\ attempt[a].material = "signed"
  BY ZenonT(60), <1>1 DEF IInv, AttemptInv, AttemptFacts, Own
<1>3. attempt[a].draft \in Drafts
  BY <1>2 DEF IInv, TypeOK, Attempt
<1> QED
  BY ZenonT(60), <1>1, <1>2, <1>3 DEF Active, Pending

\* The barrier: while a transaction handed to the node can still land before
\* its TTL, the journal blocks every new draft with its fingerprint
\* (begin_broadcast records first; upsert_entry evicts only settled records;
\* mark_terminal and persist_reconciliation write only what the chain says).
THEOREM Barrier == Spec => []BarrierHolds
<1>1. IInv => BarrierHolds
  <2> SUFFICES ASSUME IInv, NEW a \in Attempts, CanLand(a), time < DeadlineOf(a)
               PROVE  Blocked(intent[attempt[a].draft])
    BY Zenon DEF BarrierHolds
  <2>1. Pending(a) /\ attempt[a].draft \in Drafts
    BY CanLandPending
  <2>2. Blocking(attempt[a].draft)
    BY ZenonT(60), <2>1 DEF IInv, BarrierInv
  <2> QED
    BY ZenonT(60), <2>1, <2>2 DEF Blocking, Blocked, Recorded, SameFingerprint
<1> QED
  BY <1>1, Inductive, PTL

\* The signed transaction of a draft is sent by at most one attempt, and is
\* not on offer once it has been sent (restore_authorized only before the
\* broadcast).
THEOREM SentOnce == Spec => []SignedOnceSent
<1>1. IInv => SignedOnceSent
  <2> SUFFICES ASSUME IInv, NEW d \in Drafts
               PROVE  LET live == {a \in AttemptsOf(d) :
                                      Sent(a) /\ attempt[a].material = "signed"}
                      IN /\ Cardinality(live) <= 1
                         /\ (draft[d] # None /\ draft[d].state = "Authorized"
                              /\ draft[d].material = "signed") => live = {}
    BY Zenon DEF SignedOnceSent
  <2> DEFINE live == {a \in AttemptsOf(d) :
                         Sent(a) /\ attempt[a].material = "signed"}
  <2>1. \A a \in live : a \in Attempts /\ a \in AttemptsOf(d) /\ Active(a)
                        /\ attempt[a].draft = d
    BY Zenon DEF Active, Sent, AttemptsOf
  <2>2. \A a, b \in live : a = b
    BY Zenon, <2>1 DEF IInv, SignedInv
  <2>3. Cardinality(live) <= 1
    <3>1. CASE live = {}
      BY <3>1, FS_EmptySet
    <3>2. CASE live # {}
      <4>1. PICK a : a \in live
        BY Zenon, <3>2
      <4>2. live = {a}
        BY <2>2, <4>1
      <4>3. Cardinality({a}) = 1
        BY SMTT(30), FS_Singleton
      <4> HIDE DEF live
      <4> QED
        BY <4>2, <4>3
    <3> QED
      BY ZenonT(60), <3>1, <3>2
  <2>4. (draft[d] # None /\ draft[d].state = "Authorized"
           /\ draft[d].material = "signed") => live = {}
    BY ZenonT(60), <2>1 DEF IInv, SignedInv, HeldFacts
  <2> QED
    BY Zenon, <2>3, <2>4
<1> QED
  BY <1>1, Inductive, PTL

\* An attempt whose cancellation was accepted sends nothing
\* (begin_broadcast rechecks the phase under its lock).
THEOREM Cancellation == Spec => []CancelHonoured
<1>1. IInv => CancelHonoured
  <2> SUFFICES ASSUME IInv PROVE CancelHonoured
    OBVIOUS
  <2>1. ASSUME NEW a \in Attempts, attempt[a] # None,
               attempt[a].phase = "CancellationRequested"
        PROVE  ~Sent(a)
    BY Zenon, <2>1 DEF IInv, AttemptInv, AttemptFacts, Own, Sent
  <2>2. ASSUME NEW d \in Drafts, draft[d] # None,
               draft[d].submission = "CancellationRequested",
               draft[d].control # None
        PROVE  ~Sent(draft[d].control)
    <3>1. draft[d].control \in Attempts
      BY ZenonT(60), <2>2 DEF IInv, TypeOK, Draft
    <3> QED
      BY Zenon, <2>1, <2>2, <3>1 DEF IInv, ControlInv
  <2> QED
    BY <2>1, <2>2 DEF CancelHonoured
<1> QED
  BY <1>1, Inductive, PTL

\* The final states of the journal agree with the finalized chain.
THEOREM Truthful == Spec => []JournalTruthful
<1>1. IInv => JournalTruthful
  <2> SUFFICES ASSUME IInv, NEW d \in Recorded(journal)
               PROVE  /\ journal[d].state = "Included" =>
                             \E a \in AttemptsOf(d) : chain[a] = "included"
                      /\ journal[d].state = "Rejected" =>
                             \A a \in AttemptsOf(d) : ~CanLand(a)
                      /\ journal[d].state = "Expired" =>
                             intent[d].deadline <= time
    BY Zenon DEF JournalTruthful
  <2>1. d \in Drafts /\ EntryFacts(d, journal[d])
    BY DEF Recorded, IInv, RecordInv
  <2>2. ASSUME NEW a \in AttemptsOf(d), NEW b \in AttemptsOf(d),
               CanLand(a), chain[b] = "failed"
        PROVE  FALSE
    <3>1. /\ a \in Attempts /\ attempt[a].draft = d
          /\ b \in Attempts /\ attempt[b].draft = d /\ attempt[b] # None
      BY SMTT(30) DEF AttemptsOf
    <3>2. Active(a)
      BY ZenonT(60), <2>2, <3>1, CanLandPending
    <3>3. Active(b)
      BY Zenon, <2>2, <3>1 DEF Active, IInv, AttemptInv, AttemptFacts, Own
    <3>4. a = b
      BY ZenonT(60), <3>1, <3>2, <3>3 DEF IInv, SignedInv
    <3> QED
      BY Zenon, <2>2, <3>4 DEF CanLand
  <2> QED
    BY <2>1, <2>2 DEF EntryFacts
<1> QED
  BY <1>1, Inductive, PTL

\* A status that invites a retry is not shown for a draft with a transaction
\* that can land before its TTL (submission_status).
THEOREM SafeStatus == Spec => []StatusSafe
<1>1. IInv => StatusSafe
  <2> SUFFICES ASSUME IInv, NEW d \in Drafts,
                      Status(d) \in {"NotStarted", "Cancelled"},
                      NEW a \in AttemptsOf(d), CanLand(a)
               PROVE  DeadlineOf(a) <= time
    BY DEF StatusSafe
  <2>1. a \in Attempts /\ attempt[a] # None /\ attempt[a].draft = d
    BY Zenon DEF AttemptsOf
  <2>2. ~(time < DeadlineOf(a))
    <3>1. ASSUME time < DeadlineOf(a)
          PROVE  Blocking(d)
      BY SMTT(30), <2>1, <3>1, CanLandPending DEF IInv, BarrierInv
    <3> QED
      BY Zenon, <3>1 DEF Blocking, Status
  <2>3. DeadlineOf(a) \in Nat /\ time \in Nat
    <3>1. intent[d] \in Intent
      BY ZenonT(60), <2>1 DEF IInv, TypeOK, AttemptInv, AttemptFacts
    <3>2. time \in Nat
      BY ConstantsAssumption DEF IInv, TypeOK
    <3> QED
      BY ZenonT(60), <2>1, <3>1, <3>2, ConstantsAssumption DEF DeadlineOf, Intent
  <2> QED
    BY <2>2, <2>3
<1> QED
  BY <1>1, Inductive, PTL

\* No step inserts a draft for an unshielded plan while an earlier transaction
\* of the same fingerprint can still land (prepare looks twice: at the
\* journal, then at the drafts under their lock).
THEOREM NoReplacement == Spec => NoReplacementWhileUnresolved
<1> DEFINE Step ==
        \A d \in Drafts :
            intent'[d] # intent[d] /\ intent'[d].transfer \notin Shielded =>
                \A a \in Attempts :
                    CanLand(a) /\ time < DeadlineOf(a) =>
                        ~SameFingerprint(intent[attempt[a].draft], intent'[d])
<1>1. IInv /\ [Next]_vars => Step
  <2> SUFFICES ASSUME IInv, [Next]_vars, NEW d \in Drafts,
                      intent'[d] # intent[d],
                      intent'[d].transfer \notin Shielded,
                      NEW a \in Attempts, CanLand(a), time < DeadlineOf(a),
                      SameFingerprint(intent[attempt[a].draft], intent'[d])
               PROVE  FALSE
    OBVIOUS
  <2>1. PICK p \in Planners : PrepareInsert(p, d)
    <3>1. ASSUME NEW x \in Drafts, DraftStep(x)
          PROVE  intent' = intent
      BY ZenonT(60), <3>1 DEF DraftStep, AuthorizeLate, Authorize, GetLate, SubmitLate,
                  Submit, CancelSubmission
    <3>2. ASSUME NEW b \in Attempts,
                 WorkerStep(b) \/ DropSubmit(b) \/ WorkerDies(b)
          PROVE  intent' = intent
      BY Zenon, <3>2, WorkerFrame
    <3>3. ASSUME NEW r \in Reconcilers, ReconcileStep(r)
          PROVE  intent' = intent
      BY Zenon, <3>3, ReconcileFrame
    <3>4. ASSUME NEW b \in Attempts, NEW o \in {"included", "failed"},
                 ChainFinalizes(b, o)
          PROVE  intent' = intent
      BY Zenon, <3>4 DEF ChainFinalizes
    <3>5. ASSUME ChainAdvances \/ Restart \/ UNCHANGED vars
          PROVE  intent' = intent
      BY SMTT(30), <3>5 DEF ChainAdvances, Restart, vars
    <3>6. PICK p \in Planners : PrepareStep(p)
      BY ZenonT(60), <3>1, <3>2, <3>3, <3>4, <3>5 DEF Next
    <3>7. PrepareInsert(p, d)
      BY SMTT(30), <3>6 DEF PrepareStep, PrepareBegin, PrepareCheck, PrepareInsert,
                  PrepareReturn, IInv, TypeOK
    <3> QED
      BY Zenon, <3>7
  <2>2. /\ planning[p] # None /\ planning[p] \in Planning
        /\ planning[p].checked = TRUE
        /\ Planned(planning[p].intent) = {}
        /\ intent'[d] = planning[p].intent
    BY ZenonT(60), <2>1 DEF PrepareInsert, IInv, TypeOK, Planning
  <2>3. Pending(a) /\ attempt[a].draft \in Drafts
    BY ZenonT(60), CanLandPending
  <2>4. draft[attempt[a].draft] # None
    BY ZenonT(60), <2>2, <2>3 DEF IInv, PlanInv
  <2>5. attempt[a].draft \in Planned(planning[p].intent)
    BY <2>2, <2>3, <2>4 DEF Planned
  <2> QED
    BY ZenonT(60), <2>2, <2>5
<1>2. Spec => [][Step]_vars
  <2>1. Spec => []IInv
    BY Inductive
  <2>2. Spec => [][Next]_vars
    BY PTL DEF Spec
  <2>3. IInv /\ [Next]_vars => [Step]_vars
    BY <1>1
  <2> QED
    BY <2>1, <2>2, <2>3, PTL
<1> QED
  BY SMTT(60), <1>2 DEF NoReplacementWhileUnresolved

=============================================================================
