------------------------ MODULE WalletApprovalProofs ------------------------
(***************************************************************************)
(* Proofs about WalletApproval, for any number of services, callers,       *)
(* capabilities and intents and any bounds on time and generations.        *)
(***************************************************************************)
EXTENDS WalletApproval, TLAPS

\* A request or capability taken at generation g, not revoked, sees that very
\* generation as the current one; a revoked one has been left behind for good.
Fence(current, g, revoked) ==
    /\ revoked = TRUE => current = NoGeneration \/ current > g
    /\ revoked = FALSE => current = g

\* The window of an approval ends no later than its preview.
InsidePreview(r) ==
    r.intent \in PreviewIntents => r.expires_at <= PreviewExpiry[r.intent]

CallInv ==
    \A c \in Callers : call[c] # NoCall =>
        /\ Fence(generation[call[c].service], call[c].generation,
                 call[c].revoked)
        /\ InsidePreview(call[c])

CapabilityInv ==
    \A k \in CapIds : capability[k] # NoCap =>
        /\ Fence(generation[capability[k].issuer], capability[k].generation,
                 capability[k].revoked)
        /\ InsidePreview(capability[k])

SpendInv ==
    \A k \in CapIds :
        /\ capability[k] = NoCap => spends[k] = <<>>
        /\ capability[k] # NoCap /\ capability[k].consumed = FALSE
               => spends[k] = <<>>
        /\ capability[k] # NoCap /\ capability[k].consumed = TRUE
               => spends[k] = <<capability[k].intent>>

IInv == TypeOK /\ CallInv /\ CapabilityInv /\ SpendInv

\* The window computed by request() is a time and respects the preview.
LEMMA ExpiresAtFacts ==
    ASSUME NEW intent \in Intents, NEW t \in Time, t + MaxTtl <= MaxTime
    PROVE  /\ ExpiresAt(intent, t) \in Time
           /\ intent \in PreviewIntents =>
                  ExpiresAt(intent, t) <= PreviewExpiry[intent]
BY ConstantsAssumption DEF ExpiresAt, Time

\* invalidate() moves a generation out of reach of everything issued before.
LEMMA NextGenerationFacts ==
    ASSUME NEW g \in Generation \cup {NoGeneration}
    PROVE  /\ NextGeneration(g) \in Generation \cup {NoGeneration}
           /\ g = NoGeneration => NextGeneration(g) = NoGeneration
           /\ NextGeneration(g) # NoGeneration =>
                  g \in Generation /\ NextGeneration(g) > g
BY ConstantsAssumption DEF NextGeneration, Generation

\* A fence survives invalidate() of its service as that of a revoked holder.
LEMMA FenceKept ==
    ASSUME NEW current \in Generation \cup {NoGeneration},
           NEW g \in Generation, NEW revoked \in BOOLEAN,
           Fence(current, g, revoked)
    PROVE  Fence(NextGeneration(current), g, TRUE)
<1>1. CASE NextGeneration(current) = NoGeneration
  BY <1>1 DEF Fence
<1>2. CASE NextGeneration(current) # NoGeneration
  <2>1. current \in Generation /\ NextGeneration(current) \in Generation
        /\ NextGeneration(current) > current
    BY <1>2, NextGenerationFacts
  <2>2. current >= g
    BY <2>1, ConstantsAssumption DEF Fence, Generation
  <2> QED
    BY <2>1, <2>2 DEF Fence, Generation
<1> QED
  BY Zenon, <1>1, <1>2

\* The initial state satisfies the inductive invariant.
LEMMA InitInv == Init => IInv
BY ConstantsAssumption
   DEF Init, IInv, TypeOK, CallInv, CapabilityInv, SpendInv, Time, Generation

\* Every action preserves the types.
LEMMA TypeStep == TypeOK /\ [Next]_vars => TypeOK'
<1> SUFFICES ASSUME TypeOK, [Next]_vars PROVE TypeOK'
  OBVIOUS
<1> USE ConstantsAssumption DEF TypeOK
<1>1. ASSUME NEW c \in Callers, NEW s \in Services, NEW i \in Intents,
             RequestBegin(c, s, i)
      PROVE  TypeOK'
  <2>1. ExpiresAt(i, clock) \in Time
    BY <1>1, ExpiresAtFacts DEF RequestBegin
  <2> QED
    BY <1>1, <2>1 DEF RequestBegin, Call
<1>2. ASSUME NEW c \in Callers, PromptApprove(c) PROVE TypeOK'
  BY ZenonT(60), <1>2 DEF PromptApprove, Call
<1>3. ASSUME NEW c \in Callers, PromptRefuse(c) PROVE TypeOK'
  BY <1>3 DEF PromptRefuse
<1>4. ASSUME NEW c \in Callers, NEW k \in CapIds, Mint(c, k) PROVE TypeOK'
  <2>1. call[c] \in Call
    BY <1>4 DEF Mint
  <2> QED
    BY <1>4, <2>1 DEF Mint, Call, Capability
<1>5. ASSUME NEW c \in Callers, MintRefused(c) PROVE TypeOK'
  BY <1>5 DEF MintRefused
<1>6. ASSUME NEW s \in Services, NEW k \in CapIds, NEW i \in Intents,
             Consume(s, k, i)
      PROVE  TypeOK'
  <2>1. capability[k] \in Capability
    BY <1>6 DEF Consume
  <2>2. [capability[k] EXCEPT !.consumed = TRUE] \in Capability
    BY Zenon, <2>1 DEF Capability
  <2>3. capability' \in [CapIds -> Capability \cup {NoCap}]
    BY <1>6, <2>2 DEF Consume
  <2>4. spends' \in [CapIds -> Seq(Intents)]
    BY <1>6 DEF Consume
  <2> QED
    BY <1>6, <2>3, <2>4 DEF Consume
<1>7. ASSUME NEW s \in Services, Invalidate(s) PROVE TypeOK'
  <2>1. generation' \in [Services -> Generation \cup {NoGeneration}]
    BY <1>7, NextGenerationFacts DEF Invalidate
  <2>2. call' \in [Callers -> Call \cup {NoCall}]
    BY ZenonT(60), <1>7 DEF Invalidate, Call
  <2>3. capability' \in [CapIds -> Capability \cup {NoCap}]
    BY ZenonT(60), <1>7 DEF Invalidate, Capability
  <2> QED
    BY <1>7, <2>1, <2>2, <2>3 DEF Invalidate
<1>8. CASE ClockChange
  BY <1>8 DEF ClockChange
<1>9. CASE UNCHANGED vars
  BY <1>9 DEF vars
<1> QED
  BY <1>1, <1>2, <1>3, <1>4, <1>5, <1>6, <1>7, <1>8, <1>9 DEF Next

\* Every action preserves the inductive invariant.
LEMMA InvStep == IInv /\ [Next]_vars => IInv'
<1> SUFFICES ASSUME IInv, [Next]_vars PROVE IInv'
  OBVIOUS
<1>t. TypeOK /\ TypeOK'
  BY TypeStep DEF IInv
<1> SUFFICES CallInv' /\ CapabilityInv' /\ SpendInv'
  BY <1>t DEF IInv
<1>i. CallInv /\ CapabilityInv /\ SpendInv
  BY DEF IInv
<1>u. ASSUME UNCHANGED <<generation, call>> PROVE CallInv'
  BY <1>u, <1>i DEF CallInv, InsidePreview
<1>v. ASSUME UNCHANGED <<generation, capability>> PROVE CapabilityInv'
  BY <1>v, <1>i DEF CapabilityInv, InsidePreview
<1>w. ASSUME UNCHANGED <<capability, spends>> PROVE SpendInv'
  BY <1>w, <1>i DEF SpendInv
<1>1. ASSUME NEW c \in Callers, NEW s \in Services, NEW i \in Intents,
             RequestBegin(c, s, i)
      PROVE  CallInv' /\ CapabilityInv' /\ SpendInv'
  <2>1. i \in PreviewIntents => ExpiresAt(i, clock) <= PreviewExpiry[i]
    BY <1>1, <1>t, ExpiresAtFacts DEF RequestBegin, TypeOK
  <2>2. CallInv'
    BY <1>1, <1>i, <1>t, <2>1
       DEF RequestBegin, CallInv, InsidePreview, Fence, TypeOK
  <2> QED
    BY <1>1, <1>v, <1>w, <2>2 DEF RequestBegin
<1>2. ASSUME NEW c \in Callers, PromptApprove(c)
      PROVE  CallInv' /\ CapabilityInv' /\ SpendInv'
  <2>1. CallInv'
    BY <1>2, <1>i, <1>t
       DEF PromptApprove, CallInv, InsidePreview, Call, TypeOK
  <2> QED
    BY <1>2, <1>v, <1>w, <2>1 DEF PromptApprove
<1>3. ASSUME NEW c \in Callers, PromptRefuse(c)
      PROVE  CallInv' /\ CapabilityInv' /\ SpendInv'
  <2>1. CallInv'
    BY <1>3, <1>i, <1>t DEF PromptRefuse, CallInv, InsidePreview, TypeOK
  <2> QED
    BY <1>3, <1>v, <1>w, <2>1 DEF PromptRefuse
<1>4. ASSUME NEW c \in Callers, NEW k \in CapIds, Mint(c, k)
      PROVE  CallInv' /\ CapabilityInv' /\ SpendInv'
  <2>1. CallInv'
    BY <1>4, <1>i, <1>t DEF Mint, CallInv, InsidePreview, TypeOK
  <2>2. CapabilityInv'
    BY <1>4, <1>i, <1>t
       DEF Mint, CallInv, CapabilityInv, InsidePreview, TypeOK
  <2>3. SpendInv'
    BY <1>4, <1>i, <1>t DEF Mint, SpendInv, TypeOK
  <2> QED
    BY <2>1, <2>2, <2>3
<1>5. ASSUME NEW c \in Callers, MintRefused(c)
      PROVE  CallInv' /\ CapabilityInv' /\ SpendInv'
  <2>1. CallInv'
    BY <1>5, <1>i, <1>t DEF MintRefused, CallInv, InsidePreview, TypeOK
  <2> QED
    BY <1>5, <1>v, <1>w, <2>1 DEF MintRefused
<1>6. ASSUME NEW s \in Services, NEW k \in CapIds, NEW i \in Intents,
             Consume(s, k, i)
      PROVE  CallInv' /\ CapabilityInv' /\ SpendInv'
  <2>1. capability[k] \in Capability /\ capability[k].intent = i
    BY <1>6, <1>t DEF Consume, ConsumeAllowed, TypeOK
  <2>2. capability[k].consumed = FALSE
    BY <1>6, <2>1, Zenon DEF Consume, ConsumeAllowed, Capability
  <2>3. spends[k] = <<>>
    BY <1>6, <1>i, <2>1, <2>2 DEF Consume, SpendInv
  <2>4. /\ capability'[k] = [capability[k] EXCEPT !.consumed = TRUE]
        /\ spends'[k] = <<i>>
        /\ \A j \in CapIds : j # k => /\ capability'[j] = capability[j]
                                      /\ spends'[j] = spends[j]
    BY <1>6, <1>t, <2>3 DEF Consume, TypeOK
  <2>5. CapabilityInv'
    BY <1>6, <1>i, <2>1, <2>4
       DEF Consume, Capability, CapabilityInv, InsidePreview
  <2>6. /\ capability'[k].consumed = TRUE
        /\ capability'[k].intent = i
        /\ capability'[k] # NoCap
    BY ZenonT(60), <2>1, <2>4, ConstantsAssumption DEF Capability
  <2>7. SpendInv'
    BY ZenonT(60), <1>i, <2>4, <2>6 DEF SpendInv
  <2> QED
    BY <1>6, <1>u, <2>5, <2>7 DEF Consume
<1>7. ASSUME NEW s \in Services, Invalidate(s)
      PROVE  CallInv' /\ CapabilityInv' /\ SpendInv'
  <2>1. /\ generation'[s] = NextGeneration(generation[s])
        /\ generation[s] \in Generation \cup {NoGeneration}
        /\ \A z \in Services : z # s => generation'[z] = generation[z]
    BY <1>7, <1>t DEF Invalidate, TypeOK
  <2>2. CallInv'
    <3> SUFFICES ASSUME NEW c \in Callers, call'[c] # NoCall
                 PROVE  /\ Fence(generation'[call'[c].service],
                                 call'[c].generation, call'[c].revoked)
                        /\ InsidePreview(call'[c])
      BY DEF CallInv, InsidePreview
    <3>1. call[c] # NoCall /\ call[c] \in Call
      BY <1>7, <1>t DEF Invalidate, TypeOK
    <3>2. /\ Fence(generation[call[c].service], call[c].generation,
                   call[c].revoked)
          /\ InsidePreview(call[c])
      BY <1>i, <3>1 DEF CallInv
    <3>3. CASE call[c].service # s
      <4>1. call'[c] = call[c]
        BY <1>7, <3>3 DEF Invalidate
      <4> QED
        BY <2>1, <3>1, <3>2, <3>3, <4>1 DEF Call
    <3>4. CASE call[c].service = s
      <4>1. call'[c] = [call[c] EXCEPT !.revoked = TRUE]
        BY <1>7, <3>1, <3>4 DEF Invalidate
      <4>2. /\ call'[c].service = s
            /\ call'[c].generation = call[c].generation
            /\ call'[c].revoked = TRUE
            /\ call'[c].intent = call[c].intent
            /\ call'[c].expires_at = call[c].expires_at
        BY <3>1, <3>4, <4>1 DEF Call
      <4>3. call[c].generation \in Generation /\ call[c].revoked \in BOOLEAN
        BY <3>1 DEF Call
      <4>4. Fence(NextGeneration(generation[s]), call[c].generation, TRUE)
        BY Zenon, <2>1, <3>2, <3>4, <4>3, FenceKept
      <4>5. InsidePreview(call'[c])
        BY <3>2, <4>2 DEF InsidePreview
      <4> QED
        BY Zenon, <2>1, <4>2, <4>4, <4>5
    <3> QED
      BY <3>3, <3>4
  <2>3. CapabilityInv'
    <3> SUFFICES ASSUME NEW k \in CapIds, capability'[k] # NoCap
                 PROVE  /\ Fence(generation'[capability'[k].issuer],
                                 capability'[k].generation,
                                 capability'[k].revoked)
                        /\ InsidePreview(capability'[k])
      BY DEF CapabilityInv, InsidePreview
    <3>1. capability[k] # NoCap /\ capability[k] \in Capability
      BY <1>7, <1>t DEF Invalidate, TypeOK
    <3>2. /\ Fence(generation[capability[k].issuer],
                   capability[k].generation, capability[k].revoked)
          /\ InsidePreview(capability[k])
      BY <1>i, <3>1 DEF CapabilityInv
    <3>3. CASE capability[k].issuer # s
      <4>1. capability'[k] = capability[k]
        BY <1>7, <3>3 DEF Invalidate
      <4> QED
        BY <2>1, <3>1, <3>2, <3>3, <4>1 DEF Capability
    <3>4. CASE capability[k].issuer = s
      <4>1. capability'[k] = [capability[k] EXCEPT !.revoked = TRUE]
        BY <1>7, <3>1, <3>4 DEF Invalidate
      <4>2. /\ capability'[k].issuer = s
            /\ capability'[k].generation = capability[k].generation
            /\ capability'[k].revoked = TRUE
            /\ capability'[k].intent = capability[k].intent
            /\ capability'[k].expires_at = capability[k].expires_at
        BY <3>1, <3>4, <4>1 DEF Capability
      <4>3. /\ capability[k].generation \in Generation
            /\ capability[k].revoked \in BOOLEAN
        BY <3>1 DEF Capability
      <4>4. Fence(NextGeneration(generation[s]), capability[k].generation, TRUE)
        BY Zenon, <2>1, <3>2, <3>4, <4>3, FenceKept
      <4>5. InsidePreview(capability'[k])
        BY <3>2, <4>2 DEF InsidePreview
      <4> QED
        BY Zenon, <2>1, <4>2, <4>4, <4>5
    <3> QED
      BY <3>3, <3>4
  <2>4. SpendInv'
    <3> SUFFICES ASSUME NEW k \in CapIds, capability[k] \in Capability
                 PROVE  /\ capability'[k].consumed = capability[k].consumed
                        /\ capability'[k].intent = capability[k].intent
                        /\ capability'[k] # NoCap
      BY <1>7, <1>i, <1>t DEF Invalidate, SpendInv, TypeOK
    <3>1. [capability[k] EXCEPT !.revoked = TRUE] \in Capability
      BY Zenon DEF Capability
    <3> QED
      BY Zenon, <1>7, <3>1, ConstantsAssumption DEF Invalidate, Capability
  <2> QED
    BY <2>2, <2>3, <2>4
<1>8. CASE ClockChange
  BY <1>8, <1>u, <1>v, <1>w DEF ClockChange
<1>9. CASE UNCHANGED vars
  BY <1>9, <1>u, <1>v, <1>w DEF vars
<1> QED
  BY <1>1, <1>2, <1>3, <1>4, <1>5, <1>6, <1>7, <1>8, <1>9 DEF Next

\* The strengthened invariant holds in every reachable state of the service.
THEOREM Invariance == Spec => []IInv
BY InitInv, InvStep, PTL DEF Spec

\* Types are never violated.
THEOREM TypeCorrect == Spec => []TypeOK
BY Invariance, PTL DEF IInv

\* consume() hands out one operation per approval, for the approved intent.
THEOREM SingleUse == Spec => []SpentOnceAsApproved
<1>1. IInv => SpentOnceAsApproved
  <2> SUFFICES ASSUME IInv, NEW k \in CapIds, capability[k] # NoCap
               PROVE  spends[k] = <<>> \/ spends[k] = <<capability[k].intent>>
    BY DEF SpentOnceAsApproved, IInv, SpendInv
  <2>1. capability[k].consumed \in BOOLEAN
    BY DEF IInv, TypeOK, Capability
  <2>2. CASE capability[k].consumed = TRUE
    BY <2>2 DEF IInv, SpendInv
  <2>3. CASE capability[k].consumed = FALSE
    BY <2>3 DEF IInv, SpendInv
  <2> QED
    BY Zenon, <2>1, <2>2, <2>3
<1> QED
  BY <1>1, Invariance, PTL

\* Only consume() changes `spends`, and then its conditions held.
LEMMA SpendStep ==
    ASSUME TypeOK, [Next]_vars, NEW k \in CapIds, Spends(k)
    PROVE  \E s \in Services, i \in Intents : Consume(s, k, i)
<1>1. PICK s \in Services, j \in CapIds, i \in Intents : Consume(s, j, i)
  BY DEF Next, vars, Spends, RequestBegin, PromptApprove, PromptRefuse, Mint,
         MintRefused, Invalidate, ClockChange
<1>2. j = k
  BY <1>1 DEF Consume, Spends, TypeOK
<1> QED
  BY <1>1, <1>2

\* Nothing revoked by invalidate() is ever consumed, whatever the interleaving
\* with the prompt and even after the generation counter is exhausted.
THEOREM RevocationWins == Spec => RevokedNeverSpent
<1>1. IInv /\ [Next]_vars =>
          [\A k \in CapIds : Spends(k) => ~capability[k].revoked]_vars
  <2> SUFFICES ASSUME IInv, [Next]_vars, NEW k \in CapIds, Spends(k)
               PROVE  ~capability[k].revoked
    OBVIOUS
  <2>1. PICK s \in Services, i \in Intents : Consume(s, k, i)
    BY SpendStep DEF IInv
  <2>2. /\ capability[k] # NoCap /\ capability[k] \in Capability
        /\ generation[capability[k].issuer] = capability[k].generation
    BY <2>1 DEF Consume, ConsumeAllowed, IInv, TypeOK
  <2>3. capability[k].generation \in Generation
    BY <2>2 DEF Capability
  <2>4. ~(capability[k].revoked = TRUE)
    BY <2>2, <2>3, ConstantsAssumption
       DEF IInv, CapabilityInv, Fence, Generation
  <2>5. capability[k].revoked \in BOOLEAN
    BY <2>2 DEF Capability
  <2> QED
    BY <2>4, <2>5
<1> QED
  BY <1>1, Invariance, PTL DEF Spec, RevokedNeverSpent

\* consume() respects the deadline of the preview shown in the prompt.
THEOREM PreviewDeadline == Spec => PreviewNeverSpentLate
<1>1. IInv /\ [Next]_vars =>
          [\A k \in CapIds :
              Spends(k) /\ capability[k].intent \in PreviewIntents
                  => clock < PreviewExpiry[capability[k].intent]]_vars
  <2> SUFFICES ASSUME IInv, [Next]_vars, NEW k \in CapIds, Spends(k),
                      capability[k].intent \in PreviewIntents
               PROVE  clock < PreviewExpiry[capability[k].intent]
    OBVIOUS
  <2>1. PICK s \in Services, i \in Intents : Consume(s, k, i)
    BY SpendStep DEF IInv
  <2>2. /\ capability[k] # NoCap /\ capability[k] \in Capability
        /\ clock < capability[k].expires_at
    BY <2>1 DEF Consume, ConsumeAllowed, IInv, TypeOK
  <2>3. capability[k].expires_at <= PreviewExpiry[capability[k].intent]
    BY <2>2 DEF IInv, CapabilityInv, InsidePreview
  <2>4. /\ clock \in Int /\ capability[k].expires_at \in Int
        /\ PreviewExpiry[capability[k].intent] \in Int
    BY <2>2, ConstantsAssumption DEF IInv, TypeOK, Capability, Time
  <2> QED
    BY <2>2, <2>3, <2>4
<1> QED
  BY <1>1, Invariance, PTL DEF Spec, PreviewNeverSpentLate

\* An exhausted generation counter disables a service permanently.
THEOREM ExhaustionIsFinal == Spec => DisabledForGood
<1>1. IInv /\ [Next]_vars =>
          [\A s \in Services : generation[s] = NoGeneration =>
              /\ generation'[s] = NoGeneration
              /\ \A k \in CapIds :
                    Spends(k) => capability[k].issuer # s]_vars
  <2> SUFFICES ASSUME IInv, [Next]_vars, NEW s \in Services,
                      generation[s] = NoGeneration
               PROVE  /\ generation'[s] = NoGeneration
                      /\ \A k \in CapIds :
                            Spends(k) => capability[k].issuer # s
    OBVIOUS
  <2>1. generation'[s] = NoGeneration
    <3>1. CASE \E z \in Services : Invalidate(z)
      BY <3>1 DEF Invalidate, NextGeneration, IInv, TypeOK
    <3>2. CASE UNCHANGED generation
      BY <3>2
    <3> QED
      BY <3>1, <3>2
         DEF Next, vars, RequestBegin, PromptApprove, PromptRefuse, Mint,
             MintRefused, Consume, ClockChange
  <2>2. ASSUME NEW k \in CapIds, Spends(k) PROVE capability[k].issuer # s
    <3>1. PICK z \in Services, i \in Intents : Consume(z, k, i)
      BY <2>2, SpendStep DEF IInv
    <3>2. /\ capability[k] \in Capability
          /\ generation[capability[k].issuer] = capability[k].generation
      BY <3>1 DEF Consume, ConsumeAllowed, IInv, TypeOK
    <3> QED
      BY <3>2, ConstantsAssumption DEF Capability
  <2> QED
    BY <2>1, <2>2
<1> QED
  BY <1>1, Invariance, PTL DEF Spec, DisabledForGood

\* Every step of the service is a step of the clockless grant, or none.
LEMMA GrantStep == IInv /\ [Next]_vars => [Grant!Next]_(Grant!gvars)
<1> DEFINE phase == [k \in CapIds |-> GrantPhase(capability[k])]
<1> DEFINE purpose == [k \in CapIds |-> IF capability[k] = NoCap THEN NoCap
                                        ELSE capability[k].intent]
<1> SUFFICES ASSUME IInv, [Next]_vars
             PROVE  Grant!Next \/ UNCHANGED <<phase, purpose, spends>>
  BY DEF Grant!gvars
<1>t. TypeOK /\ TypeOK'
  BY TypeStep DEF IInv
<1>u. ASSUME UNCHANGED <<capability, spends>>
      PROVE  UNCHANGED <<phase, purpose, spends>>
  BY <1>u
<1>1. ASSUME NEW c \in Callers, NEW k \in CapIds, Mint(c, k)
      PROVE  Grant!Next
  <2>1. call[c] \in Call /\ call[c].intent \in Intents
    BY <1>1, <1>t DEF Mint, TypeOK, Call
  <2>2. call[c].revoked = FALSE
    <3>1. /\ generation[call[c].service] = call[c].generation
          /\ call[c].generation \in Generation
          /\ call[c].revoked \in BOOLEAN
      BY <1>1, <2>1 DEF Mint, MintAllowed, Call
    <3> QED
      BY <1>1, <3>1, ConstantsAssumption
         DEF Mint, IInv, CallInv, Fence, Generation
  <2>3. /\ capability'[k] \in Capability
        /\ capability'[k].consumed = FALSE
        /\ capability'[k].revoked = FALSE
        /\ capability'[k].intent = call[c].intent
    <3> DEFINE fresh == [issuer |-> call[c].service, intent |-> call[c].intent,
                         generation |-> call[c].generation,
                         issued_at |-> call[c].issued_at,
                         expires_at |-> call[c].expires_at,
                         consumed |-> FALSE, revoked |-> call[c].revoked]
    <3>1. capability'[k] = fresh
      BY <1>1, <1>t DEF Mint, TypeOK
    <3>2. fresh \in Capability
      BY <2>1 DEF Call, Capability
    <3> QED
      BY SMTT(60), <2>2, <3>1, <3>2
  <2>4. /\ phase[k] = "unissued"
        /\ phase'[k] = "live"
        /\ purpose'[k] = call[c].intent
    BY ZenonT(60), <1>1, <2>3, ConstantsAssumption DEF Mint, GrantPhase
  <2>5. \A j \in CapIds : j # k => phase'[j] = phase[j]
                                   /\ purpose'[j] = purpose[j]
    BY <1>1 DEF Mint
  <2>6. /\ phase' = [phase EXCEPT ![k] = "live"]
        /\ purpose' = [purpose EXCEPT ![k] = call[c].intent]
    BY ZenonT(60), <2>4, <2>5
  <2>7. PICK i \in Intents : i = call[c].intent
    BY <2>1
  <2>8. Grant!Issue(k, i)
    BY <1>1, <2>4, <2>6, <2>7 DEF Grant!Issue, Mint
  <2> QED
    BY <2>8 DEF Grant!Next
<1>2. ASSUME NEW s \in Services, NEW k \in CapIds, NEW i \in Intents,
             Consume(s, k, i)
      PROVE  Grant!Next
  <2>1. /\ capability[k] # NoCap /\ capability[k] \in Capability
        /\ capability[k].intent = i
        /\ generation[capability[k].issuer] = capability[k].generation
    BY <1>2, <1>t DEF Consume, ConsumeAllowed, TypeOK
  <2>2. capability[k].consumed = FALSE
    BY <1>2, <2>1, Zenon DEF Consume, ConsumeAllowed, Capability
  <2>3. capability[k].revoked = FALSE
    <3>1. /\ capability[k].generation \in Generation
          /\ capability[k].revoked \in BOOLEAN
      BY <2>1 DEF Capability
    <3> QED
      BY <2>1, <3>1, ConstantsAssumption
         DEF IInv, CapabilityInv, Fence, Generation
  <2>4. /\ capability'[k] = [capability[k] EXCEPT !.consumed = TRUE]
        /\ spends' = [spends EXCEPT ![k] = Append(@, i)]
    BY <1>2, <1>t DEF Consume, TypeOK
  <2>5. /\ capability'[k].consumed = TRUE
        /\ capability'[k].intent = i
        /\ capability'[k] # NoCap
    BY ZenonT(60), <2>1, <2>4, ConstantsAssumption DEF Capability
  <2>6. phase[k] = "live" /\ purpose[k] = i
    BY <2>1, <2>2, <2>3 DEF GrantPhase
  <2>7. phase'[k] = "spent" /\ purpose'[k] = i
    BY <2>5 DEF GrantPhase
  <2>8. \A j \in CapIds : j # k => phase'[j] = phase[j]
                                   /\ purpose'[j] = purpose[j]
    BY <1>2, <1>t DEF Consume, TypeOK
  <2>9. phase' = [phase EXCEPT ![k] = "spent"] /\ purpose' = purpose
    <3>1. \A j \in CapIds : purpose'[j] = purpose[j]
      BY <2>6, <2>7, <2>8
    <3>2. purpose' = purpose
      BY <3>1
    <3>3. phase' = [phase EXCEPT ![k] = "spent"]
      BY Zenon, <2>7, <2>8
    <3> QED
      BY <3>2, <3>3
  <2>10. Grant!Spend(k)
    BY Zenon, <2>4, <2>6, <2>9 DEF Grant!Spend
  <2> QED
    BY <2>10 DEF Grant!Next
<1>3. ASSUME NEW s \in Services, Invalidate(s) PROVE Grant!Next
  <2> DEFINE gs == {k \in CapIds : /\ phase[k] = "live"
                                   /\ capability[k].issuer = s}
  <2>1. ASSUME NEW k \in CapIds
        PROVE  /\ phase'[k] = IF k \in gs THEN "revoked" ELSE phase[k]
               /\ purpose'[k] = purpose[k]
    <3>1. CASE capability[k] = NoCap
      BY <1>3, <3>1 DEF Invalidate, GrantPhase
    <3>2. CASE capability[k] # NoCap /\ capability[k].issuer # s
      BY <1>3, <3>2 DEF Invalidate
    <3>3. CASE capability[k] # NoCap /\ capability[k].issuer = s
      <4>1. capability[k] \in Capability
        BY <1>t, <3>3 DEF TypeOK
      <4>2. /\ capability'[k] = [capability[k] EXCEPT !.revoked = TRUE]
            /\ capability'[k] # NoCap
        BY Zenon, <1>3, <3>3, <4>1, ConstantsAssumption DEF Invalidate, Capability
      <4>3. /\ capability'[k].revoked = TRUE
            /\ capability'[k].consumed = capability[k].consumed
            /\ capability'[k].intent = capability[k].intent
            /\ capability[k].consumed \in BOOLEAN
            /\ capability[k].revoked \in BOOLEAN
        BY <4>1, <4>2 DEF Capability
      <4>4. CASE capability[k].consumed = TRUE
        BY Zenon, <3>3, <4>2, <4>3, <4>4 DEF GrantPhase
      <4>5. CASE capability[k].consumed = FALSE /\ capability[k].revoked = TRUE
        BY Zenon, <3>3, <4>2, <4>3, <4>5 DEF GrantPhase
      <4>6. CASE capability[k].consumed = FALSE /\ capability[k].revoked = FALSE
        BY Zenon, <3>3, <4>2, <4>3, <4>6 DEF GrantPhase
      <4> QED
        BY Zenon, <4>3, <4>4, <4>5, <4>6
    <3> QED
      BY ZenonT(60), <3>1, <3>2, <3>3
  <2>2. /\ phase' = [k \in CapIds |-> IF k \in gs THEN "revoked" ELSE phase[k]]
        /\ purpose' = purpose
    BY <2>1
  <2>3. Grant!Revoke(gs)
    BY <1>3, <2>2 DEF Grant!Revoke, Invalidate
  <2> QED
    BY Zenon, <2>3 DEF Grant!Next
<1> QED
  <2>1. CASE \E c \in Callers, s \in Services, i \in Intents :
                RequestBegin(c, s, i)
    BY <1>u, <2>1 DEF RequestBegin
  <2>2. CASE \E c \in Callers : \/ PromptApprove(c) \/ PromptRefuse(c)
                                \/ MintRefused(c)
    BY <1>u, <2>2 DEF PromptApprove, PromptRefuse, MintRefused
  <2>3. CASE ClockChange \/ UNCHANGED vars
    BY <1>u, <2>3 DEF ClockChange, vars
  <2> QED
    BY <1>1, <1>2, <1>3, <2>1, <2>2, <2>3 DEF Next

\* The approval service implements ApprovalGrant.
THEOREM GrantRefinement == Spec => ImplementsGrant
<1>1. Init => Grant!Init
  BY DEF Init, Grant!Init, GrantPhase
<1> QED
  BY <1>1, GrantStep, Invariance, PTL
     DEF Spec, ImplementsGrant, Grant!Spec

=============================================================================
