------------------------- MODULE PolicyDiff_proofs -------------------------
(* Proofs about the comparison of two policies, for every pair of policies. *)
EXTENDS PolicyDiff, PolicyRules_proofs, TLAPS

----------------------------------------------------------------------------
(* What diffing.py stays silent about *)

\* The changes of a rule that raise no warning.
Stricter(p, q) ==
    /\ p.deny \subseteq q.deny /\ p.review \subseteq q.review /\ q.maxRisk <= p.maxRisk
    /\ UnknownOrder(q.unknown) >= UnknownOrder(p.unknown)
    /\ DOMAIN p.allow \subseteq DOMAIN q.allow
    /\ \A i \in DOMAIN p.allow : q.allow[i] \subseteq p.allow[i]
    /\ DOMAIN p.constraints \subseteq DOMAIN q.constraints
    /\ \A c \in DOMAIN p.constraints : q.constraints[c].kinds \subseteq p.constraints[c].kinds
    /\ \A c \in DOMAIN p.constraints : p.constraints[c].values # {} =>
          /\ q.constraints[c].values # {}
          /\ q.constraints[c].values \subseteq p.constraints[c].values
    /\ \A s \in q.suppressions : \E b \in p.suppressions : SelectorOf(b) = SelectorOf(s)

\* No warning means that every rule stayed or became stricter.
LEMMA SilenceMeansStricter ==
    ASSUME NEW p \in Policy, NEW q \in Policy, Warnings(p, q) = {}
    PROVE  Stricter(p, q)
<1> DEFINE w == Warns(p, q)
<1>1. \A k \in DOMAIN w : ~w[k]
  BY DEF Warnings
<1>2. /\ ~w.deny_removed /\ ~w.review_requirement_removed /\ ~w.risk_threshold_raised
      /\ ~w.unknown_scope_weakened
  BY <1>1 DEF Warns
<1>3. /\ ~w.tool_allowlist_removed /\ ~w.tool_allowlist_expanded
      /\ ~w.scope_constraint_removed /\ ~w.scope_kind_expanded
  BY <1>1 DEF Warns
<1>4. ~w.scope_values_unconstrained /\ ~w.scope_values_expanded /\ ~w.suppression_added
  BY <1>1 DEF Warns
<1>5. p.maxRisk \in Nat /\ q.maxRisk \in Nat
  BY DEF Policy
<1>6. UnknownOrder(p.unknown) \in Nat /\ UnknownOrder(q.unknown) \in Nat
  BY DEF Policy, UnknownOrder
<1>7. /\ p.deny \subseteq q.deny /\ p.review \subseteq q.review /\ q.maxRisk <= p.maxRisk
      /\ UnknownOrder(q.unknown) >= UnknownOrder(p.unknown)
  <2>1. p.deny \subseteq q.deny /\ p.review \subseteq q.review
    BY <1>2 DEF Warns
  <2>2. ~(q.maxRisk > p.maxRisk)
    BY <1>2 DEF Warns
  <2>3. ~(UnknownOrder(q.unknown) < UnknownOrder(p.unknown))
    BY <1>2 DEF Warns
  <2> QED BY <2>1, <2>2, <2>3, <1>5, <1>6
<1>8. /\ DOMAIN p.allow \subseteq DOMAIN q.allow
      /\ \A i \in DOMAIN p.allow : q.allow[i] \subseteq p.allow[i]
  BY <1>3 DEF Warns
<1>9. /\ DOMAIN p.constraints \subseteq DOMAIN q.constraints
      /\ \A c \in DOMAIN p.constraints : q.constraints[c].kinds \subseteq p.constraints[c].kinds
  BY <1>3 DEF Warns, Common
<1>10. \A c \in DOMAIN p.constraints : p.constraints[c].values # {} =>
          /\ q.constraints[c].values # {}
          /\ q.constraints[c].values \subseteq p.constraints[c].values
  BY <1>4, <1>9 DEF Warns, Common, ValuesUnconstrained, ValuesExpanded
<1>11. \A s \in q.suppressions : \E b \in p.suppressions : SelectorOf(b) = SelectorOf(s)
  BY <1>4 DEF Warns
<1> QED BY <1>7, <1>8, <1>9, <1>10, <1>11 DEF Stricter

----------------------------------------------------------------------------
(* The rules are monotonic *)

\* A scope finding stays, or becomes HIGH, under a stricter policy.
LEMMA ScopeIsMonotonic ==
    ASSUME NEW p \in Policy, NEW q \in Policy, Stricter(p, q), NEW c \in Capability,
           NEW level \in Level, Reaches(ScopeFindings(p, c), level)
    PROVE  Reaches(ScopeFindings(q, c), level)
<1>1. c.id \in DOMAIN p.constraints /\ c.id \in DOMAIN q.constraints
  BY DEF Stricter, ScopeFindings, Reaches
<1>2. p.unknown \in {"deny", "review", "ignore"} /\ q.unknown \in {"deny", "review", "ignore"}
  BY DEF Policy
<1>3. CASE c.kind = "unknown"
  <2>1. CASE q.unknown = "deny"
    <3>1. ScopeFindings(q, c) = {Found("HIGH", "scope.unknown", c)}
      BY <1>1, <1>3, <2>1 DEF ScopeFindings
    <3> QED BY <3>1, HighReaches DEF Found
  <2>2. CASE q.unknown # "deny"
    <3>1. p.unknown = q.unknown \/ p.unknown = "ignore"
      BY <1>2, <2>2 DEF Stricter, UnknownOrder
    <3>2. p.unknown # "ignore"
      BY <1>1, <1>3 DEF ScopeFindings, Reaches
    <3>3. ScopeFindings(p, c) = ScopeFindings(q, c)
      <4>1. p.unknown = "review" /\ q.unknown = "review"
        BY <1>2, <2>2, <3>1, <3>2
      <4>2. ScopeFindings(p, c) = {Found("MEDIUM", "scope.unknown", c)}
        BY <1>1, <1>3, <4>1 DEF ScopeFindings
      <4>3. ScopeFindings(q, c) = {Found("MEDIUM", "scope.unknown", c)}
        BY <1>1, <1>3, <4>1 DEF ScopeFindings
      <4> QED BY <4>2, <4>3
    <3> QED BY <3>3
  <2> QED BY <2>1, <2>2
<1>4. CASE c.kind # "unknown"
  <2>1. CASE c.kind \notin q.constraints[c.id].kinds
    <3>1. ScopeFindings(q, c) = {Found("HIGH", "scope.constraint_violation", c)}
      BY <1>1, <1>4, <2>1 DEF ScopeFindings
    <3> QED BY <3>1, HighReaches DEF Found
  <2>2. CASE c.kind \in q.constraints[c.id].kinds
    <3>1. c.kind \in p.constraints[c.id].kinds
      BY <1>1, <2>2 DEF Stricter
    <3>2. /\ p.constraints[c.id].values # {}
          /\ c.values = {} \/ ~(c.values \subseteq p.constraints[c.id].values)
      BY <1>1, <1>4, <3>1 DEF ScopeFindings, Reaches
    <3>3. /\ q.constraints[c.id].values # {}
          /\ c.values = {} \/ ~(c.values \subseteq q.constraints[c.id].values)
      BY <1>1, <3>2 DEF Stricter
    <3>4. ScopeFindings(q, c) = {Found("HIGH", "scope.value_violation", c)}
      BY <1>1, <1>4, <2>2, <3>3 DEF ScopeFindings
    <3> QED BY <3>4, HighReaches DEF Found
  <2> QED BY <2>1, <2>2
<1> QED BY <1>3, <1>4

\* A finding that fails the check at a level: severe enough, and not suppressed.
Fails(p, F, level) == \E f \in F : Rank(f.severity) >= Rank(level) /\ ~Suppressed(p, f)

\* A suppressed finding is INFO, which reaches no level.
LEMMA OnlyUnsuppressedReach ==
    ASSUME NEW p, NEW F \in SUBSET Finding, NEW level \in Level
    PROVE  Reaches(ApplySuppressions(p, F), level) <=> Fails(p, F, level)
<1>1. \A f \in F : [f EXCEPT !.severity = "INFO"].severity = "INFO"
  BY DEF Finding
<1>2. ~(Rank("INFO") >= Rank(level))
  BY DEF Rank, Level
<1>3. ASSUME Reaches(ApplySuppressions(p, F), level) PROVE Fails(p, F, level)
  <2>1. PICK f \in F :
          Rank((IF Suppressed(p, f) THEN [f EXCEPT !.severity = "INFO"] ELSE f).severity) >= Rank(level)
    BY <1>3 DEF Reaches, ApplySuppressions
  <2>2. ~Suppressed(p, f)
    BY <1>1, <1>2, <2>1
  <2> QED BY <2>1, <2>2 DEF Fails
<1>4. ASSUME Fails(p, F, level) PROVE Reaches(ApplySuppressions(p, F), level)
  BY <1>4 DEF Fails, Reaches, ApplySuppressions
<1> QED BY <1>3, <1>4

\* Suppressions that need no new selector suppress nothing new.
LEMMA SuppressesNoMore ==
    ASSUME NEW p \in Policy, NEW q \in Policy, Stricter(p, q), NEW f, Suppressed(q, f)
    PROVE  Suppressed(p, f)
<1>1. PICK s \in q.suppressions : Matches(f, s)
  BY DEF Suppressed
<1>2. PICK b \in p.suppressions : SelectorOf(b) = SelectorOf(s)
  BY DEF Stricter
<1>3. b.rule = s.rule /\ b.cap = s.cap /\ b.tool = s.tool
  BY <1>2 DEF SelectorOf
<1>4. Matches(f, b)
  BY <1>1, <1>3 DEF Matches
<1> QED BY <1>4 DEF Suppressed

\* Under terminal suppressions the other rules always show.
LEMMA OtherRulesShow ==
    ASSUME NEW q, OnlyTerminal(q), NEW f,
           f.rule \notin {"capability.review_required", "risk.threshold"}
    PROVE  ~Suppressed(q, f)
BY DEF Suppressed, Matches, OnlyTerminal

\* If judging a capability fails the check, it still does under a stricter policy.
LEMMA JudgeIsMonotonic ==
    ASSUME NEW p \in Policy, NEW q \in Policy, Stricter(p, q), OnlyTerminal(q),
           NEW cs, NEW c \in Capability, NEW level \in Level,
           IdentityOf[c.tool] \notin Blocked(q, cs), Fails(p, Judge(p, cs, c), level)
    PROVE  Fails(q, Judge(q, cs, c), level)
<1> DEFINE denied == Found("HIGH", "capability.denied", c)
           unlisted == Found("HIGH", "capability.tool_allowlist_violation", c)
           review == Found("MEDIUM", "capability.review_required", c)
<1>0. Rank("HIGH") >= Rank(level)
  BY DEF Rank, Level
<1>1. CASE c.id \in q.deny
  <2>1. denied \in Judge(q, cs, c)
    BY <1>1 DEF Judge
  <2>2. ~Suppressed(q, denied) /\ denied.severity = "HIGH"
    BY OtherRulesShow DEF Found
  <2> QED BY <1>0, <2>1, <2>2 DEF Fails
<1>2. CASE c.id \notin q.deny /\ NotAllowed(q, c)
  <2>1. unlisted \in Judge(q, cs, c)
    BY <1>2 DEF Judge
  <2>2. ~Suppressed(q, unlisted) /\ unlisted.severity = "HIGH"
    BY OtherRulesShow DEF Found
  <2> QED BY <1>0, <2>1, <2>2 DEF Fails
<1>3. CASE c.id \notin q.deny /\ ~NotAllowed(q, c)
  <2>1. Judge(q, cs, c) = ScopeFindings(q, c) \cup Reviewed(q, c)
    BY <1>3 DEF Judge
  <2>2. c.id \notin p.deny /\ ~NotAllowed(p, c)
    BY <1>3 DEF Stricter, NotAllowed
  <2>3. Judge(p, cs, c) \subseteq ScopeFindings(p, c) \cup Reviewed(p, c)
    BY <2>2 DEF Judge
  <2>4. PICK f \in ScopeFindings(p, c) \cup Reviewed(p, c) :
          Rank(f.severity) >= Rank(level) /\ ~Suppressed(p, f)
    BY <2>3 DEF Fails
  <2>5. \A g \in ScopeFindings(q, c) : ~Suppressed(q, g)
    <3> TAKE g \in ScopeFindings(q, c)
    <3>1. g.rule \in {"scope.unknown", "scope.constraint_violation", "scope.value_violation"}
      BY ScopeFindingsAreScopeRules
    <3> QED BY <3>1, OtherRulesShow
  <2>6. CASE f \in ScopeFindings(p, c)
    <3>1. Reaches(ScopeFindings(q, c), level)
      BY <2>4, <2>6, ScopeIsMonotonic DEF Reaches
    <3> QED BY <2>1, <2>5, <3>1 DEF Reaches, Fails
  <2>7. CASE f \in Reviewed(p, c)
    <3>1. f = review /\ c.id \in q.review
      BY <2>7 DEF Reviewed, Stricter
    <3>2. CASE \E g \in ScopeFindings(q, c) : g.severity = "HIGH"
      BY <1>0, <2>1, <2>5, <3>2 DEF Fails
    <3>3. CASE \A g \in ScopeFindings(q, c) : g.severity # "HIGH"
      <4>1. review \in Judge(q, cs, c)
        BY <2>1, <3>1, <3>3 DEF Reviewed
      <4>2. ~Suppressed(q, review)
        BY <2>4, <3>1, SuppressesNoMore
      <4> QED BY <2>4, <3>1, <4>1, <4>2 DEF Fails
    <3> QED BY <3>2, <3>3
  <2> QED BY <2>4, <2>6, <2>7
<1> QED BY <1>1, <1>2, <1>3

\* The identities a policy with terminal suppressions selects are those of its allowlists.
LEMMA TargetedGrows ==
    ASSUME NEW p \in Policy, NEW q \in Policy, Stricter(p, q), OnlyTerminal(p)
    PROVE  Targeted(p) \subseteq Targeted(q)
BY DEF Targeted, OnlyTerminal, Stricter

\* An identity finding remains one under a stricter policy.
LEMMA IdentityIsMonotonic ==
    ASSUME NEW p \in Policy, NEW q \in Policy, Stricter(p, q), OnlyTerminal(p), NEW cs,
           \A c \in cs : c.tool \in NonAscii => IdentityOf[c.tool] \notin Targeted(q) \ Targeted(p)
    PROVE  IdentityFindings(p, cs) \subseteq IdentityFindings(q, cs)
<1>1. Targeted(p) \subseteq Targeted(q)
  BY TargetedGrows
<1>2. Blocked(p, cs) \subseteq Blocked(q, cs)
  BY <1>1 DEF Blocked
<1>3. Ambiguous(p, cs) \subseteq Ambiguous(q, cs)
  BY <1>1 DEF Ambiguous
<1>4. CASE Targeted(p) = {}
  BY <1>4 DEF IdentityFindings
<1>5. CASE Targeted(p) # {}
  <2>1. Targeted(q) # {}
    BY <1>1, <1>5
  <2> QED BY <1>2, <1>3, <1>5, <2>1 DEF IdentityFindings
<1> QED BY <1>4, <1>5

\* An identity finding is HIGH and no suppression touches it.
LEMMA IdentityFails ==
    ASSUME NEW p, NEW cs, NEW f \in IdentityFindings(p, cs), NEW q
    PROVE  f.severity = "HIGH" /\ ~Suppressed(q, f)
<1>1. /\ f.severity = "HIGH"
      /\ f.rule \in {"policy.tool_identity_ambiguous", "policy.tool_identity_collision"}
  BY DEF IdentityFindings
<1> QED BY <1>1 DEF Suppressed, Matches

\* Silence of the diff means that the verdict of every inventory is no milder.
LEMMA OutcomeIsMonotonic ==
    ASSUME NEW p \in Policy, NEW q \in Policy, Stricter(p, q), OnlyTerminal(p), OnlyTerminal(q),
           NEW cs \in SUBSET Capability, NEW some \in SUBSET cs, NEW r \in Nat,
           \A c \in cs : c.tool \in NonAscii => IdentityOf[c.tool] \notin Targeted(q) \ Targeted(p),
           NEW level \in Level, Reaches(Outcome(p, cs, some, r), level)
    PROVE  Reaches(Outcome(q, cs, some, r), level)
<1> DEFINE All(x) == IdentityFindings(x, cs) \cup RiskFindings(x, r)
                     \cup UNION {Judge(x, cs, c) : c \in some}
<1>1. All(p) \subseteq Finding /\ All(q) \subseteq Finding
  BY IdentityFindingsAreTyped, RiskFindingsAreTyped, JudgeIsTyped
<1>2. PICK f \in All(p) : Rank(f.severity) >= Rank(level) /\ ~Suppressed(p, f)
  <2>1. Outcome(p, cs, some, r) = ApplySuppressions(p, All(p))
    BY DEF Outcome
  <2>2. Fails(p, All(p), level)
    BY <1>1, <2>1, OnlyUnsuppressedReach
  <2> QED BY <2>2 DEF Fails
<1>3. Rank("HIGH") >= Rank(level)
  BY DEF Rank, Level
<1>4. Fails(q, All(q), level)
  <2>1. CASE f \in IdentityFindings(p, cs)
    <3>1. f \in All(q) /\ f.severity = "HIGH" /\ ~Suppressed(q, f)
      BY <2>1, IdentityIsMonotonic, IdentityFails
    <3> QED BY <1>3, <3>1 DEF Fails
  <2>2. CASE f \in RiskFindings(p, r)
    <3>1. p.maxRisk \in Nat /\ q.maxRisk \in Nat /\ q.maxRisk <= p.maxRisk
      BY DEF Policy, Stricter
    <3>2. f \in RiskFindings(q, r)
      BY <2>2, <3>1 DEF RiskFindings
    <3> QED BY <1>2, <3>2, SuppressesNoMore DEF Fails
  <2>3. ASSUME NEW c \in some, f \in Judge(p, cs, c) PROVE Fails(q, All(q), level)
    <3>1. c \in Capability /\ Fails(p, Judge(p, cs, c), level)
      BY <1>2, <2>3 DEF Fails
    <3>2. CASE IdentityOf[c.tool] \in Blocked(q, cs)
      <4>1. Targeted(q) # {}
        BY <3>2 DEF Blocked
      <4>2. PICK g \in IdentityFindings(q, cs) : TRUE
        BY <3>2, <4>1 DEF IdentityFindings
      <4>3. g \in All(q) /\ g.severity = "HIGH" /\ ~Suppressed(q, g)
        BY <4>2, IdentityFails
      <4> QED BY <1>3, <4>3 DEF Fails
    <3>3. CASE IdentityOf[c.tool] \notin Blocked(q, cs)
      <4>1. Fails(q, Judge(q, cs, c), level)
        BY <3>1, <3>3, JudgeIsMonotonic
      <4>2. Judge(q, cs, c) \subseteq All(q)
        BY <2>3
      <4> QED BY <4>1, <4>2 DEF Fails
    <3> QED BY <3>2, <3>3
  <2> QED BY <1>2, <2>1, <2>2, <2>3
<1>5. Outcome(q, cs, some, r) = ApplySuppressions(q, All(q))
  BY DEF Outcome
<1> QED BY <1>1, <1>4, <1>5, OnlyUnsuppressedReach

----------------------------------------------------------------------------
(* The pull-request check *)

Recorded ==
    /\ step \in {"base", "head", "compared"} =>
          base \in Policies /\ before = Outcome(base, caps, judged, risk)
    /\ step \in {"head", "compared"} =>
          head \in Policies /\ after = Outcome(head, caps, judged, risk)
    /\ step = "compared" => warnings = Warnings(base, head)
    /\ step # "compared" => warnings = {}

IInv == TypeOK /\ Recorded

\* The inventory and the score are what the assumptions say.
LEMMA InputsAreTyped ==
    ASSUME TypeOK
    PROVE  caps \in SUBSET Capability /\ judged \in SUBSET caps /\ risk \in Nat
BY InputsAssumption DEF TypeOK, Representatives

\* The snapshots hold what evaluating their policies finds.
THEOREM IInvAlways == Spec => []IInv
<1>1. Init => IInv
  BY DEF Init, IInv, TypeOK, Recorded
<1>2. IInv /\ [Next]_vars => IInv'
  <2> SUFFICES ASSUME IInv, [Next]_vars PROVE IInv'
    OBVIOUS
  <2>0. \A p \in Policies : Outcome(p, caps, judged, risk) \subseteq Finding
    BY InputsAreTyped, InputsAssumption, OutcomeIsTyped DEF IInv
  <2>1. ASSUME NEW p \in Policies, SnapshotBase(p) PROVE IInv'
    <3>1. warnings' = {}
      BY <2>1 DEF SnapshotBase, IInv, Recorded
    <3>2. TypeOK'
      BY <2>0, <2>1, <3>1 DEF SnapshotBase, IInv, TypeOK, inventory
    <3>3. Recorded'
      BY <2>1, <3>1 DEF SnapshotBase, IInv, Recorded, inventory
    <3> QED BY <3>2, <3>3 DEF IInv
  <2>2. ASSUME NEW p \in Policies, SnapshotHead(p) PROVE IInv'
    <3>1. warnings' = {}
      BY <2>2 DEF SnapshotHead, IInv, Recorded
    <3>2. TypeOK'
      BY <2>0, <2>2, <3>1 DEF SnapshotHead, IInv, TypeOK, inventory
    <3>3. Recorded'
      BY <2>2, <3>1 DEF SnapshotHead, IInv, Recorded, inventory
    <3> QED BY <3>2, <3>3 DEF IInv
  <2>3. CASE Compare
    <3>1. TypeOK'
      BY <2>3 DEF Compare, IInv, TypeOK, inventory, Warnings
    <3>2. Recorded'
      BY <2>3 DEF Compare, IInv, Recorded, inventory
    <3> QED BY <3>1, <3>2 DEF IInv
  <2>4. CASE UNCHANGED vars
    BY <2>4 DEF vars, IInv, TypeOK, Recorded
  <2> QED BY <2>1, <2>2, <2>3, <2>4 DEF Next
<1> QED BY <1>1, <1>2, PTL DEF Spec

\* Every variable keeps its type, for all policies and inventories.
THEOREM TypeCorrect == Spec => []TypeOK
<1>1. IInv => TypeOK
  BY DEF IInv
<1> QED BY <1>1, IInvAlways, PTL

\* A change that raises no warning never turns a failing check into a passing one.
THEOREM NoSilentWeakeningAlways == Spec => []NoSilentWeakening
<1>1. ASSUME IInv, step = "compared", warnings = {}, OnlyTerminal(base), OnlyTerminal(head),
             NewlySelected = {}, NEW level \in Level, Reaches(before, level)
      PROVE  Reaches(after, level)
  <2>1. base \in Policy /\ head \in Policy
    BY <1>1, InputsAssumption DEF IInv, Recorded
  <2>2. Stricter(base, head)
    BY <1>1, <2>1, SilenceMeansStricter DEF IInv, Recorded
  <2>3. \A c \in caps : c.tool \in NonAscii => IdentityOf[c.tool] \notin Targeted(head) \ Targeted(base)
    BY <1>1 DEF NewlySelected
  <2>4. caps \in SUBSET Capability /\ judged \in SUBSET caps /\ risk \in Nat
    BY <1>1, InputsAreTyped DEF IInv
  <2>5. before = Outcome(base, caps, judged, risk) /\ after = Outcome(head, caps, judged, risk)
    BY <1>1 DEF IInv, Recorded
  <2> QED BY <1>1, <2>1, <2>2, <2>3, <2>4, <2>5, OutcomeIsMonotonic
<1>2. IInv => NoSilentWeakening
  BY <1>1 DEF NoSilentWeakening, Level
<1> QED BY <1>2, IInvAlways, PTL
============================================================================
