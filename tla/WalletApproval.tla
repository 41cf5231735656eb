--------------------------- MODULE WalletApproval ---------------------------
(***************************************************************************)
(* The process-local approval authority of the wallet application           *)
(* (crates/wallet/application/src/approval.rs).                            *)
(*                                                                         *)
(* A service owns a generation counter behind a mutex.  request() reads    *)
(* the generation and the clock, shows the trusted prompt without holding  *)
(* the mutex, and mints a capability only if, back under the mutex, the    *)
(* generation is unchanged and the clock is still inside the window.       *)
(* consume() runs entirely under the mutex and spends the capability once. *)
(* invalidate() bumps the generation; exhaustion disables the service.     *)
(*                                                                         *)
(* Calls that return an error leave the state as it was, so they are       *)
(* stuttering steps and have no action, except the ones that end a request *)
(* already in progress.                                                    *)
(***************************************************************************)
EXTENDS Integers, Sequences

CONSTANTS
    Services,        \* approval services: one issuer identity each
    Callers,         \* threads that may be inside request()
    CapIds,          \* identities of the capability objects ever minted
    Intents,         \* WalletApprovalIntent values
    PreviewIntents,  \* the transfer and dust intents, which carry a preview
    PreviewExpiry,   \* expires_at of the preview of such an intent
    MaxTtl,          \* MAX_TTL_MILLIS
    MaxTime,         \* largest UnixTimestampMillis (u64::MAX)
    MaxGeneration,   \* largest generation (u64::MAX)
    NoGeneration,    \* the generation None: the service is disabled for good
    NoCall,          \* the caller is not inside request()
    NoCap            \* the capability object does not exist yet

Time == 0..MaxTime
Generation == 0..MaxGeneration

\* What request() holds in local variables while the prompt is shown.
\* `revoked` is a history field: an invalidate() has run since the request
\* began.  No guard reads it.
Call == [stage: {"prompting", "approved"}, service: Services, intent: Intents,
         generation: Generation, issued_at: Time, expires_at: Time,
         revoked: BOOLEAN]

Capability == [issuer: Services, intent: Intents, generation: Generation,
               issued_at: Time, expires_at: Time, consumed: BOOLEAN,
               revoked: BOOLEAN]

ASSUME ConstantsAssumption ==
    /\ MaxTime \in Nat
    /\ MaxGeneration \in Nat
    /\ MaxTtl \in Nat
    /\ PreviewIntents \subseteq Intents
    /\ PreviewExpiry \in [PreviewIntents -> Time]
    /\ NoGeneration \notin Generation
    /\ NoCall \notin Call
    /\ NoCap \notin Capability

VARIABLES
    clock,       \* the wall clock; it may be set back
    generation,  \* service -> current generation, or NoGeneration
    call,        \* caller -> its request in progress, or NoCall
    capability,  \* capability object -> its fields, or NoCap
    spends       \* history: capability object -> the intents it was spent for

vars == <<clock, generation, call, capability, spends>>

TypeOK ==
    /\ clock \in Time
    /\ generation \in [Services -> Generation \cup {NoGeneration}]
    /\ call \in [Callers -> Call \cup {NoCall}]
    /\ capability \in [CapIds -> Capability \cup {NoCap}]
    /\ spends \in [CapIds -> Seq(Intents)]

Init ==
    /\ clock \in Time
    /\ generation = [s \in Services |-> 0]
    /\ call = [c \in Callers |-> NoCall]
    /\ capability = [k \in CapIds |-> NoCap]
    /\ spends = [k \in CapIds |-> <<>>]

-----------------------------------------------------------------------------
\* Fault: the window ignores the preview's own deadline.
ExpiresAtNoPreview(intent, issuedAt) == issuedAt + MaxTtl

\* The end of the approval window: the fixed bound, or the preview's own
\* deadline when that comes first.
ExpiresAt(intent, issuedAt) ==
    IF intent \in PreviewIntents /\ PreviewExpiry[intent] < issuedAt + MaxTtl
    THEN PreviewExpiry[intent]
    ELSE issuedAt + MaxTtl

\* request(), up to the call of the trusted port.
RequestBegin(c, s, intent) ==
    /\ call[c] = NoCall
    /\ generation[s] # NoGeneration
    /\ clock + MaxTtl <= MaxTime
    /\ clock < ExpiresAt(intent, clock)
    /\ call' = [call EXCEPT ![c] =
            [stage |-> "prompting", service |-> s, intent |-> intent,
             generation |-> generation[s], issued_at |-> clock,
             expires_at |-> ExpiresAt(intent, clock), revoked |-> FALSE]]
    /\ UNCHANGED <<clock, generation, capability, spends>>

\* The trusted surface approves exactly this intent.
PromptApprove(c) ==
    /\ call[c] # NoCall
    /\ call[c].stage = "prompting"
    /\ call' = [call EXCEPT ![c].stage = "approved"]
    /\ UNCHANGED <<clock, generation, capability, spends>>

\* The trusted surface denies the intent or is unavailable.
PromptRefuse(c) ==
    /\ call[c] # NoCall
    /\ call[c].stage = "prompting"
    /\ call' = [call EXCEPT ![c] = NoCall]
    /\ UNCHANGED <<clock, generation, capability, spends>>

\* Fault: the generation is not compared again after the prompt.
MintAllowedStale(r) ==
    /\ generation[r.service] # NoGeneration
    /\ r.issued_at <= clock
    /\ clock < r.expires_at

\* Under the generation mutex after the prompt: may the capability be minted?
MintAllowed(r) ==
    /\ generation[r.service] = r.generation
    /\ r.issued_at <= clock
    /\ clock < r.expires_at

Mint(c, k) ==
    /\ call[c] # NoCall
    /\ call[c].stage = "approved"
    /\ capability[k] = NoCap
    /\ MintAllowed(call[c])
    /\ capability' = [capability EXCEPT ![k] =
            [issuer |-> call[c].service, intent |-> call[c].intent,
             generation |-> call[c].generation,
             issued_at |-> call[c].issued_at,
             expires_at |-> call[c].expires_at,
             consumed |-> FALSE, revoked |-> call[c].revoked]]
    /\ call' = [call EXCEPT ![c] = NoCall]
    /\ UNCHANGED <<clock, generation, spends>>

\* Unavailable, GenerationMismatch, ClockWentBackwards or Expired.  The clock
\* port itself may fail, so refusal is possible whatever the window says.
MintRefused(c) ==
    /\ call[c] # NoCall
    /\ call[c].stage = "approved"
    /\ call' = [call EXCEPT ![c] = NoCall]
    /\ UNCHANGED <<clock, generation, capability, spends>>

\* Fault: the reconstructed intent is not compared.
ConsumeAllowedAnyIntent(s, cap, expected) ==
    /\ cap.issuer = s
    /\ generation[s] = cap.generation
    /\ cap.issued_at <= clock
    /\ clock < cap.expires_at
    /\ ~cap.consumed

\* The conditions of consume() in the order the code tests them.
ConsumeAllowed(s, cap, expected) ==
    /\ cap.issuer = s
    /\ generation[s] = cap.generation
    /\ cap.issued_at <= clock
    /\ clock < cap.expires_at
    /\ cap.intent = expected
    /\ ~cap.consumed

\* consume(): whoever holds a reference may call it, on any service and with
\* any reconstructed intent.
Consume(s, k, expected) ==
    /\ capability[k] # NoCap
    /\ ConsumeAllowed(s, capability[k], expected)
    /\ capability' = [capability EXCEPT ![k].consumed = TRUE]
    /\ spends' = [spends EXCEPT ![k] = Append(@, expected)]
    /\ UNCHANGED <<clock, generation, call>>

\* Fault: wrapping instead of checked addition.
NextGenerationWrapping(g) ==
    IF g = NoGeneration THEN NoGeneration ELSE (g + 1) % (MaxGeneration + 1)

\* Fault: an exhausted counter starts again from zero.
NextGenerationReset(g) ==
    IF g = NoGeneration THEN 0
    ELSE IF g = MaxGeneration THEN NoGeneration ELSE g + 1

\* checked_add on an optional counter: None stays None, and so does overflow.
NextGeneration(g) ==
    IF g = NoGeneration \/ g = MaxGeneration THEN NoGeneration ELSE g + 1

Invalidate(s) ==
    /\ generation' = [generation EXCEPT ![s] = NextGeneration(@)]
    /\ call' = [c \in Callers |->
            IF call[c] # NoCall /\ call[c].service = s
            THEN [call[c] EXCEPT !.revoked = TRUE] ELSE call[c]]
    /\ capability' = [k \in CapIds |->
            IF capability[k] # NoCap /\ capability[k].issuer = s
            THEN [capability[k] EXCEPT !.revoked = TRUE] ELSE capability[k]]
    /\ UNCHANGED <<clock, spends>>

\* ClockPort is the platform's wall clock: any reading may follow any other.
ClockChange ==
    /\ clock' \in Time
    /\ UNCHANGED <<generation, call, capability, spends>>

Next ==
    \/ \E c \in Callers, s \in Services, i \in Intents : RequestBegin(c, s, i)
    \/ \E c \in Callers : PromptApprove(c)
    \/ \E c \in Callers : PromptRefuse(c)
    \/ \E c \in Callers, k \in CapIds : Mint(c, k)
    \/ \E c \in Callers : MintRefused(c)
    \/ \E s \in Services, k \in CapIds, i \in Intents : Consume(s, k, i)
    \/ \E s \in Services : Invalidate(s)
    \/ ClockChange

Spec == Init /\ [][Next]_vars

-----------------------------------------------------------------------------
(***************************************************************************)
(* Properties                                                              *)
(***************************************************************************)
\* consume() succeeded for capability k in this step.
Spends(k) == spends'[k] # spends[k]

\* A capability authorises at most one protected operation, and only the one
\* it was requested for, however many holders race on it, on whichever
\* service, with whatever intent (consume(): compare_exchange on `consumed`
\* after the issuer and intent comparisons).
SpentOnceAsApproved ==
    \A k \in CapIds :
        \/ spends[k] = <<>>
        \/ capability[k] # NoCap /\ spends[k] = <<capability[k].intent>>

\* No capability is spent once its service has been invalidated, even when
\* the invalidation ran while the trusted prompt was still on screen, and
\* even when the generation counter has reached its maximum (request() and
\* consume() compare generations; invalidate() never reuses one).
RevokedNeverSpent ==
    [][\A k \in CapIds : Spends(k) => ~capability[k].revoked]_vars

\* An approval of a transfer or dust preview is never spent at or after the
\* preview's own deadline, although the prompt may stay open that long
\* (request() takes the minimum of both deadlines before it prompts).
PreviewNeverSpentLate ==
    [][\A k \in CapIds :
          Spends(k) /\ capability[k].intent \in PreviewIntents
              => clock < PreviewExpiry[capability[k].intent]]_vars

\* "Generation exhaustion permanently disables this composition": once the
\* generation is None no later invalidate() revives the service, and nothing
\* it issued before, or was about to issue, is spent.
DisabledForGood ==
    [][\A s \in Services : generation[s] = NoGeneration =>
          /\ generation'[s] = NoGeneration
          /\ \A k \in CapIds :
                Spends(k) => capability[k].issuer # s]_vars

\* The life cycle of a grant as its holder can observe it.
GrantPhase(cap) ==
    CASE cap = NoCap -> "unissued"
      [] cap # NoCap /\ cap.consumed -> "spent"
      [] cap # NoCap /\ ~cap.consumed /\ cap.revoked -> "revoked"
      [] cap # NoCap /\ ~cap.consumed /\ ~cap.revoked -> "live"

Grant == INSTANCE ApprovalGrant WITH
    Grants <- CapIds,
    NoIntent <- NoCap,
    phase <- [k \in CapIds |-> GrantPhase(capability[k])],
    purpose <- [k \in CapIds |-> IF capability[k] = NoCap THEN NoCap
                                 ELSE capability[k].intent],
    served <- spends

\* The service implements the clockless promise of ApprovalGrant.
ImplementsGrant == Grant!Spec

=============================================================================
