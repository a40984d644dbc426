------------------------- MODULE PolicyEval_proofs -------------------------
(* Proofs about evaluate_policy, for every set of policies and inventories. *)
EXTENDS PolicyEval, PolicyRules_proofs, TLAPS

----------------------------------------------------------------------------
(* The loop *)

\* What the loop has established about the capabilities it has visited.
Visited ==
    /\ seen = {Key(c) : c \in judged}
    /\ \A c, d \in judged : Key(c) = Key(d) => c = d
    /\ \A c \in caps \ todo : Key(c) \in seen

Collected ==
    /\ phase = "start" => findings = {} /\ judged = {} /\ seen = {} /\ todo = {}
    /\ phase = "loop" => /\ Visited
                         /\ findings = IdentityFindings(policy, caps)
                                       \cup UNION {Judge(policy, caps, c) : c \in judged}
    /\ phase = "done" => /\ Visited /\ todo = {}
                         /\ findings = Outcome(policy, caps, judged, risk)

IInv == TypeOK /\ Collected

\* The arguments of evaluate_policy are what the assumptions say.
LEMMA InputsAreTyped ==
    ASSUME TypeOK
    PROVE  policy \in Policy /\ caps \subseteq Capability /\ risk \in Nat
BY InputsAssumption DEF TypeOK

\* Nothing is collected before the loop.
LEMMA InitIsTyped == Init => IInv
BY DEF Init, IInv, TypeOK, Collected

\* The loop starts with the identity findings and every capability to visit.
LEMMA BeginKeepsInv ==
    ASSUME IInv, Begin
    PROVE  IInv'
<1> USE DEF IInv, Begin, inputs
<1>1. TypeOK'
  <2>1. IdentityFindings(policy, caps) \subseteq Finding
    BY InputsAreTyped, IdentityFindingsAreTyped
  <2> QED BY <2>1 DEF TypeOK
<1>2. phase' = "loop" => Visited'
  BY DEF Visited, Collected
<1>3. phase' = "loop" => UNION {Judge(policy', caps', c) : c \in judged'} = {}
  BY DEF Collected
<1> QED BY <1>1, <1>2, <1>3 DEF Collected

\* An iteration collects what the rules say of a capability, or knows its key.
LEMMA EvaluateKeepsInv ==
    ASSUME IInv, NEW c \in caps, Evaluate(c)
    PROVE  IInv'
<1> USE DEF IInv, Evaluate, inputs
<1>0. Visited /\ Judge(policy, caps, c) \subseteq Finding
  BY InputsAreTyped, JudgeIsTyped DEF Collected
<1>1. TypeOK'
  BY <1>0 DEF TypeOK
<1>2. Visited'
  <2>1. CASE Key(c) \in seen
    BY <1>0, <2>1 DEF Visited
  <2>2. CASE Key(c) \notin seen
    <3>1. seen' = {Key(d) : d \in judged'}
      BY <1>0, <2>2 DEF Visited
    <3>2. \A d, e \in judged' : Key(d) = Key(e) => d = e
      BY <1>0, <2>2 DEF Visited
    <3>3. \A d \in caps' \ todo' : Key(d) \in seen'
      BY <1>0, <2>2 DEF Visited
    <3> QED BY <3>1, <3>2, <3>3 DEF Visited
  <2> QED BY <2>1, <2>2
<1>3. findings' = IdentityFindings(policy, caps) \cup UNION {Judge(policy, caps, d) : d \in judged'}
  <2>1. CASE Key(c) \in seen
    BY <2>1 DEF Collected
  <2>2. CASE Key(c) \notin seen
    <3>1. UNION {Judge(policy, caps, d) : d \in judged \cup {c}}
          = (UNION {Judge(policy, caps, d) : d \in judged}) \cup Judge(policy, caps, c)
      OBVIOUS
    <3> QED BY <2>2, <3>1 DEF Collected
  <2> QED BY <2>1, <2>2
<1> QED BY <1>1, <1>2, <1>3 DEF Collected

\* At the end the collected findings become the outcome of the rules.
LEMMA FinishKeepsInv ==
    ASSUME IInv, Finish
    PROVE  IInv'
<1> USE DEF IInv, Finish, inputs
<1>1. RiskFindings(policy, risk) \subseteq Finding
  BY RiskFindingsAreTyped
<1>2. ApplySuppressions(policy, findings \cup RiskFindings(policy, risk)) \subseteq Finding
  BY <1>1, ApplySuppressionsIsTyped DEF TypeOK
<1>3. TypeOK'
  BY <1>2 DEF TypeOK
<1>4. Visited' /\ todo' = {}
  BY DEF Visited, Collected
<1>5. findings' = Outcome(policy, caps, judged, risk)
  <2>1. findings \cup RiskFindings(policy, risk)
        = IdentityFindings(policy, caps) \cup RiskFindings(policy, risk)
          \cup UNION {Judge(policy, caps, c) : c \in judged}
    BY DEF Collected
  <2> QED BY <2>1 DEF Outcome
<1> QED BY <1>3, <1>4, <1>5 DEF Collected

\* What the loop has collected is always what it has judged.
THEOREM IInvAlways == Spec => []IInv
<1>1. Init => IInv
  BY InitIsTyped
<1>2. IInv /\ [Next]_vars => IInv'
  <2> SUFFICES ASSUME IInv, [Next]_vars PROVE IInv'
    OBVIOUS
  <2>1. CASE Begin
    BY <2>1, BeginKeepsInv
  <2>2. ASSUME NEW c \in caps, Evaluate(c) PROVE IInv'
    BY <2>2, EvaluateKeepsInv
  <2>3. CASE Finish
    BY <2>3, FinishKeepsInv
  <2>4. CASE UNCHANGED vars
    BY <2>4 DEF vars, IInv, TypeOK, Collected, Visited
  <2> QED BY <2>1, <2>2, <2>3, <2>4 DEF Next
<1> QED BY <1>1, <1>2, PTL DEF Spec

\* Every variable keeps its type, whatever the policies and inventories.
THEOREM TypeCorrect == Spec => []TypeOK
<1>1. IInv => TypeOK
  BY DEF IInv
<1> QED BY <1>1, IInvAlways, PTL
----------------------------------------------------------------------------
(* The safety properties *)

\* The loop judges one capability of every key.
LEMMA JudgedRepresent ==
    ASSUME IInv, phase = "done"
    PROVE  judged \in Representatives(caps)
<1>1. \A c \in caps : \E d \in judged : Key(d) = Key(c)
  BY DEF IInv, Collected, Visited
<1>2. \A c \in caps : \E d \in judged : \A e \in judged : Key(e) = Key(c) <=> e = d
  BY <1>1 DEF IInv, Collected, Visited
<1> QED BY <1>2 DEF IInv, TypeOK, Representatives

\* What evaluate_policy returns is the outcome of the rules, in any order.
THEOREM FindsTheOutcomeAlways == Spec => []FindsTheOutcome
<1>1. IInv => FindsTheOutcome
  BY JudgedRepresent DEF IInv, Collected, FindsTheOutcome
<1> QED BY <1>1, IInvAlways, PTL

\* Capabilities with one key have the same id and names of one tool.
LEMMA SameKey ==
    ASSUME NEW c \in Capability, NEW d \in Capability, Key(d) = Key(c)
    PROVE  d.id = c.id /\ SameTool(d.tool, c.tool)
<1>1. /\ c.tool \in Tool /\ d.tool \in Tool
  BY DEF Capability
<1> QED BY <1>1 DEF Key, SameTool

\* A suppression that selects one of two names of a tool selects the other.
LEMMA SameToolIsSuppressedAlike ==
    ASSUME NEW p \in Policy, NEW c \in Capability, NEW d \in Capability,
           d.id = c.id, SameTool(d.tool, c.tool), NEW r \in Rule,
           Suppressed(p, Found("HIGH", r, d))
    PROVE  Suppressed(p, Found("HIGH", r, c))
<1>1. PICK s \in p.suppressions : Matches(Found("HIGH", r, d), s)
  BY DEF Suppressed
<1>2. c.tool \in Tool /\ d.tool \in Tool /\ c.tool # None
  BY IdentityAssumption DEF Capability
<1>3. s \in Suppression
  BY DEF Policy
<1>4. Matches(Found("HIGH", r, c), s)
  BY <1>1, <1>2, <1>3 DEF Matches, Found, SameTool, Suppression
<1> QED BY <1>4 DEF Suppressed

\* Every denied capability is reported, unless a suppression selects its pair.
THEOREM DeniedIsReportedAlways == Spec => []DeniedIsReported
<1>1. ASSUME IInv, phase = "done", NEW c \in caps, c.id \in policy.deny
      PROVE  \E f \in findings :
                /\ f.rule = "capability.denied" /\ f.cap = c.id
                /\ SameTool(f.tool, c.tool)
                /\ f.severity = "HIGH" \/ Suppressed(policy, Found("HIGH", "capability.denied", c))
  <2>1. PICK d \in judged : Key(d) = Key(c)
    BY <1>1 DEF IInv, Collected, Visited
  <2>2. c \in Capability /\ d \in Capability /\ policy \in Policy
    BY <1>1, InputsAreTyped DEF IInv, TypeOK
  <2>3. d.id = c.id /\ SameTool(d.tool, c.tool)
    BY <2>1, <2>2, SameKey
  <2> DEFINE g == Found("HIGH", "capability.denied", d)
             h == IF Suppressed(policy, g) THEN [g EXCEPT !.severity = "INFO"] ELSE g
  <2>4. g \in UNION {Judge(policy, caps, e) : e \in judged}
    BY <1>1, <2>3 DEF Judge
  <2>5. h \in findings
    BY <1>1, <2>4 DEF IInv, Collected, Outcome, ApplySuppressions
  <2>6. h.rule = "capability.denied" /\ h.cap = c.id /\ SameTool(h.tool, c.tool)
    BY <2>3 DEF Found
  <2>7. h.severity = "HIGH" \/ Suppressed(policy, Found("HIGH", "capability.denied", c))
    BY <2>2, <2>3, SameToolIsSuppressedAlike DEF Found, Rule
  <2> QED BY <2>5, <2>6, <2>7
<1>2. IInv => DeniedIsReported
  BY <1>1 DEF DeniedIsReported
<1> QED BY <1>2, IInvAlways, PTL

\* An identity finding stays HIGH under every suppression.
LEMMA IdentityFindingsStay ==
    ASSUME IInv, phase = "done", NEW f \in IdentityFindings(policy, caps)
    PROVE  f \in findings /\ f.severity = "HIGH"
<1>1. /\ f.severity = "HIGH"
      /\ f.rule \in {"policy.tool_identity_ambiguous", "policy.tool_identity_collision"}
  BY DEF IdentityFindings
<1>2. ~Suppressed(policy, f)
  BY <1>1 DEF Suppressed, Matches
<1>3. findings = ApplySuppressions(policy, IdentityFindings(policy, caps)
                     \cup RiskFindings(policy, risk)
                     \cup UNION {Judge(policy, caps, c) : c \in judged})
  BY DEF IInv, Collected, Outcome
<1>4. f \in findings
  BY <1>2, <1>3 DEF ApplySuppressions
<1> QED BY <1>1, <1>4

\* A blocked identity always fails the check.
LEMMA BlockedReaches ==
    ASSUME IInv, phase = "done", NEW i \in Blocked(policy, caps), NEW level \in Level
    PROVE  Reaches(findings, level)
<1>1. Targeted(policy) # {}
  BY DEF Blocked
<1>2. PICK f \in IdentityFindings(policy, caps) : TRUE
  BY <1>1 DEF IdentityFindings
<1> QED BY <1>2, IdentityFindingsStay, HighReaches

\* No suppression hides that a selector may not mean the tool it seems to mean.
THEOREM IdentityIsNeverSuppressedAlways == Spec => []IdentityIsNeverSuppressed
<1>1. ASSUME IInv, phase = "done", Targeted(policy) # {}, NEW c \in caps,
             IdentityOf[c.tool] = None \/ IdentityOf[c.tool] \in Blocked(policy, caps)
      PROVE  Reaches(findings, "HIGH")
  <2>1. CASE IdentityOf[c.tool] = None
    <3>1. c.tool \in Ambiguous(policy, caps)
      BY <2>1 DEF Ambiguous
    <3>2. PICK f \in IdentityFindings(policy, caps) : TRUE
      BY <1>1, <3>1 DEF IdentityFindings
    <3> QED BY <1>1, <3>2, IdentityFindingsStay, HighReaches DEF Level
  <2>2. CASE IdentityOf[c.tool] \in Blocked(policy, caps)
    BY <1>1, <2>2, BlockedReaches DEF Level
  <2> QED BY <1>1, <2>1, <2>2
<1>2. IInv => IdentityIsNeverSuppressed
  BY <1>1 DEF IdentityIsNeverSuppressed
<1> QED BY <1>2, IInvAlways, PTL

\* What a policy demands of a capability, judging it reports.
LEMMA JudgeMeetsDemands ==
    ASSUME IInv, NEW c \in caps, NEW level \in Level, Demands(c, level),
           IdentityOf[c.tool] \notin Blocked(policy, caps)
    PROVE  Reaches(Judge(policy, caps, c), level)
<1>1. CASE c.id \in policy.deny
  BY <1>1, HighReaches DEF Judge, Found
<1>2. CASE c.id \notin policy.deny /\ NotAllowed(policy, c)
  BY <1>2, HighReaches DEF Judge, Found
<1>3. CASE c.id \notin policy.deny /\ ~NotAllowed(policy, c)
  <2>1. Judge(policy, caps, c) = ScopeFindings(policy, c) \cup Reviewed(policy, c)
    BY <1>3 DEF Judge
  <2>2. CASE Reaches(ScopeFindings(policy, c), level)
    BY <2>1, <2>2 DEF Reaches
  <2>3. CASE level = "MEDIUM" /\ c.id \in policy.review
    <3>1. CASE \E f \in ScopeFindings(policy, c) : f.severity = "HIGH"
      <4>1. PICK f \in ScopeFindings(policy, c) : f.severity = "HIGH"
        BY <3>1
      <4>2. f \in Judge(policy, caps, c)
        BY <2>1, <4>1
      <4> QED BY <4>1, <4>2, HighReaches
    <3>2. CASE \A f \in ScopeFindings(policy, c) : f.severity # "HIGH"
      <4>1. Found("MEDIUM", "capability.review_required", c) \in Judge(policy, caps, c)
        BY <2>1, <2>3, <3>2 DEF Reviewed
      <4>2. Rank(Found("MEDIUM", "capability.review_required", c).severity) >= Rank(level)
        BY <2>3 DEF Found, Rank
      <4> QED BY <4>1, <4>2 DEF Reaches
    <3> QED BY <3>1, <3>2
  <2> QED BY <1>3, <2>2, <2>3 DEF Demands
<1> QED BY <1>1, <1>2, <1>3

\* The early exits of the loop never make the report milder than a rule asks.
THEOREM SkippingNeverWeakensAlways == Spec => []SkippingNeverWeakens
<1>1. ASSUME IInv, phase = "done", policy.suppressions = {},
             NEW c \in caps, NEW level \in Level,
             Demands(c, level), ~UntargetedTwin(c)
      PROVE  Reaches(findings, level)
  <2>1. PICK d \in judged : Key(d) = Key(c)
    BY <1>1 DEF IInv, Collected, Visited
  <2>2. /\ c \in Capability /\ d \in Capability /\ d \in caps /\ policy \in Policy
        /\ c.tool \in Tool /\ d.tool \in Tool
    BY <1>1, InputsAreTyped DEF IInv, TypeOK, Capability
  <2>3. d.id = c.id /\ SameTool(d.tool, c.tool)
    BY <2>1, <2>2, SameKey
  <2>4. CASE IdentityOf[c.tool] \in Blocked(policy, caps)
    BY <1>1, <2>4, BlockedReaches
  <2>5. CASE IdentityOf[c.tool] \notin Blocked(policy, caps)
    <3>1. d.tool = c.tool
      <4> SUFFICES ASSUME d.tool # c.tool PROVE FALSE
        OBVIOUS
      <4>1. IdentityOf[d.tool] = IdentityOf[c.tool]
        BY <2>3 DEF SameTool
      <4>2. IdentityOf[c.tool] \in Targeted(policy)
        BY <1>1, <2>2, <2>3 DEF UntargetedTwin
      <4>3. /\ c.tool \in Spellings(caps, IdentityOf[c.tool])
            /\ d.tool \in Spellings(caps, IdentityOf[c.tool])
        BY <1>1, <2>2, <4>1 DEF Spellings
      <4> QED BY <2>5, <4>2, <4>3 DEF Blocked
    <3>2. d = c
      BY <1>1, <2>2, <2>3, <3>1, InputsAssumption DEF IInv, TypeOK
    <3>3. Reaches(Judge(policy, caps, c), level)
      BY <1>1, <2>5, JudgeMeetsDemands
    <3>4. findings = IdentityFindings(policy, caps) \cup RiskFindings(policy, risk)
                     \cup UNION {Judge(policy, caps, e) : e \in judged}
      BY <1>1, <2>2, NothingIsSuppressed DEF IInv, Collected, Outcome
    <3>5. Judge(policy, caps, c) \subseteq findings
      BY <3>2, <3>4
    <3> QED BY <3>3, <3>5 DEF Reaches
  <2> QED BY <2>4, <2>5
<1>2. IInv => SkippingNeverWeakens
  BY <1>1 DEF SkippingNeverWeakens, Level
<1> QED BY <1>2, IInvAlways, PTL
============================================================================
