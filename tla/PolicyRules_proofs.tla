------------------------ MODULE PolicyRules_proofs ------------------------
(* Lemmas about the policy rules that the other proofs share. *)
EXTENDS PolicyRules, TLAPS

\* The thresholds of --fail-on that can fail a check.
Level == {"MEDIUM", "HIGH"}

----------------------------------------------------------------------------
(* The rules *)

\* A capability yields well-formed findings about itself.
LEMMA FoundIsTyped ==
    ASSUME NEW c \in Capability, NEW s \in Severity, NEW r \in Rule
    PROVE  Found(s, r, c) \in Finding
BY DEF Found, Finding, Capability

\* Checking a scope yields well-formed findings.
LEMMA ScopeFindingsAreTyped ==
    ASSUME NEW p \in Policy, NEW c \in Capability
    PROVE  ScopeFindings(p, c) \subseteq Finding
<1>1. Found("MEDIUM", "scope.unknown", c) \in Finding
  BY FoundIsTyped DEF Severity, Rule
<1>2. Found("HIGH", "scope.unknown", c) \in Finding
  BY FoundIsTyped DEF Severity, Rule
<1>3. Found("HIGH", "scope.constraint_violation", c) \in Finding
  BY FoundIsTyped DEF Severity, Rule
<1>4. Found("HIGH", "scope.value_violation", c) \in Finding
  BY FoundIsTyped DEF Severity, Rule
<1>5. p.unknown \in {"deny", "review", "ignore"}
  BY DEF Policy
<1> QED BY <1>1, <1>2, <1>3, <1>4, <1>5, Zenon DEF ScopeFindings

\* A scope finding is of one of the three scope rules.
LEMMA ScopeFindingsAreScopeRules ==
    ASSUME NEW p \in Policy, NEW c, NEW f \in ScopeFindings(p, c)
    PROVE  f.rule \in {"scope.unknown", "scope.constraint_violation", "scope.value_violation"}
<1>1. p.unknown \in {"deny", "review", "ignore"}
  BY DEF Policy
<1>2. f \in {Found("MEDIUM", "scope.unknown", c), Found("HIGH", "scope.unknown", c),
             Found("HIGH", "scope.constraint_violation", c), Found("HIGH", "scope.value_violation", c)}
  BY <1>1, Zenon DEF ScopeFindings
<1> QED BY <1>2 DEF Found

\* Whatever a policy says of a capability is well formed.
LEMMA JudgeIsTyped ==
    ASSUME NEW p \in Policy, NEW cs, NEW c \in Capability
    PROVE  Judge(p, cs, c) \subseteq Finding
<1>1. Found("HIGH", "capability.denied", c) \in Finding
  BY FoundIsTyped DEF Severity, Rule
<1>2. Found("HIGH", "capability.tool_allowlist_violation", c) \in Finding
  BY FoundIsTyped DEF Severity, Rule
<1>3. Found("MEDIUM", "capability.review_required", c) \in Finding
  BY FoundIsTyped DEF Severity, Rule
<1>4. Reviewed(p, c) \subseteq Finding
  BY <1>3 DEF Reviewed
<1> QED BY <1>1, <1>2, <1>4, ScopeFindingsAreTyped, Zenon DEF Judge

\* Checking the tool identities yields well-formed findings.
LEMMA IdentityFindingsAreTyped ==
    ASSUME NEW p \in Policy, NEW cs \in SUBSET Capability
    PROVE  IdentityFindings(p, cs) \subseteq Finding
<1>1. Ambiguous(p, cs) \subseteq Tool
  BY DEF Ambiguous, Capability
<1> QED BY <1>1 DEF IdentityFindings, Finding, Severity, Rule

\* Checking the risk threshold yields well-formed findings.
LEMMA RiskFindingsAreTyped ==
    ASSUME NEW p, NEW r
    PROVE  RiskFindings(p, r) \subseteq Finding
BY DEF RiskFindings, Finding, Severity, Rule

\* Suppressing findings keeps them well formed.
LEMMA ApplySuppressionsIsTyped ==
    ASSUME NEW p, NEW F \in SUBSET Finding
    PROVE  ApplySuppressions(p, F) \subseteq Finding
BY DEF ApplySuppressions, Finding, Severity

\* What the rules say of an inventory is well formed.
LEMMA OutcomeIsTyped ==
    ASSUME NEW p \in Policy, NEW cs \in SUBSET Capability, NEW some \in SUBSET cs, NEW r
    PROVE  Outcome(p, cs, some, r) \subseteq Finding
<1>1. UNION {Judge(p, cs, c) : c \in some} \subseteq Finding
  BY JudgeIsTyped
<1> QED BY <1>1, IdentityFindingsAreTyped, RiskFindingsAreTyped, ApplySuppressionsIsTyped DEF Outcome

----------------------------------------------------------------------------
(* Severity and suppression *)

\* A finding of severity HIGH reaches every level.
LEMMA HighReaches ==
    ASSUME NEW F, NEW f \in F, f.severity = "HIGH", NEW level \in Level
    PROVE  Reaches(F, level)
BY DEF Reaches, Rank, Level

\* Without suppressions every finding of the rules is reported as it is.
LEMMA NothingIsSuppressed ==
    ASSUME NEW p \in Policy, p.suppressions = {}, NEW F
    PROVE  ApplySuppressions(p, F) = F
<1>1. \A f \in F : ~Suppressed(p, f)
  BY DEF Suppressed
<1> QED BY <1>1 DEF ApplySuppressions
============================================================================
