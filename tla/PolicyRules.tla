---------------------------- MODULE PolicyRules ----------------------------
(***************************************************************************)
(* src/agentcapdiff/policy.py: what evaluate_policy finds wrong with a       *)
(* capability under a policy, and diffing.py: which changes from one policy  *)
(* to another it warns about.  Selectors are taken as already canonical.     *)
(***************************************************************************)
EXTENDS Naturals, FiniteSets

CONSTANTS CapId,       \* capability ids, e.g. filesystem.read
          Tool,        \* tool names as the scanned files spell them
          Identity,    \* canonical tool identities
          None,        \* no selector, no identity, not about a capability or tool
          IdentityOf,  \* IdentityOf[t]: the identity name t folds to, or None
          NonAscii,    \* names with a character outside ASCII
          Value        \* scope values: paths, hosts

ASSUME IdentityAssumption ==
    /\ None \notin CapId \cup Tool \cup Identity
    /\ IdentityOf \in [Tool -> Identity \cup {None}]
    /\ NonAscii \subseteq Tool

ScopeKind == {"restricted", "broad", "unknown"}

Capability == [id : CapId, tool : Tool, kind : ScopeKind, values : SUBSET Value]

Rule == {"capability.denied", "capability.tool_allowlist_violation", "scope.unknown",
         "scope.constraint_violation", "scope.value_violation",
         "capability.review_required", "risk.threshold",
         "policy.tool_identity_ambiguous", "policy.tool_identity_collision"}

\* capability and tool narrow a suppression; None leaves it wide.
Suppression == [rule : Rule, cap : CapId \cup {None}, tool : Identity \cup {None}, expires : Nat]

Constraint == [kinds : SUBSET ScopeKind, values : SUBSET Value]

\* trust: the tools with a trust-boundary annotation.
Policy == [deny : SUBSET CapId, review : SUBSET CapId, maxRisk : Nat,
           allow : UNION {[D -> SUBSET CapId] : D \in SUBSET Identity},
           constraints : UNION {[D -> Constraint] : D \in SUBSET CapId},
           unknown : {"deny", "review", "ignore"},
           trust : SUBSET Identity, suppressions : SUBSET Suppression]

Severity == {"INFO", "MEDIUM", "HIGH"}

\* A suppressed finding keeps its rule here and is told by its severity INFO (in
\* the code the rule becomes policy.suppressed, and the message names the old one).
Finding == [severity : Severity, rule : Rule, cap : CapId \cup {None}, tool : Tool \cup {None}]

Found(severity, rule, c) == [severity |-> severity, rule |-> rule, cap |-> c.id, tool |-> c.tool]

----------------------------------------------------------------------------
(* Tool identities *)

Targeted(p) == DOMAIN p.allow \cup ({s.tool : s \in p.suppressions} \ {None})

Spellings(caps, i) == {c.tool : c \in {d \in caps : IdentityOf[d.tool] = i}}

\* Identities the policy selects that several names of the inventory fold to.
Blocked(p, caps) ==
    {i \in Targeted(p) : \E t, u \in Spellings(caps, i) : t # u}

Ambiguous(p, caps) ==
    {t \in {c.tool : c \in caps} :
        \/ IdentityOf[t] = None
        \/ t \in NonAscii /\ IdentityOf[t] \notin Targeted(p)}

IdentityFindings(p, caps) ==
    IF Targeted(p) = {} THEN {}
    ELSE {[severity |-> "HIGH", rule |-> "policy.tool_identity_ambiguous", cap |-> None, tool |-> t]
             : t \in Ambiguous(p, caps)}
         \cup {[severity |-> "HIGH", rule |-> "policy.tool_identity_collision", cap |-> None, tool |-> None]
             : i \in Blocked(p, caps)}

\* The pairs the loop tells apart: names that fold to one identity are one.
KeyById(c) == <<c.id, "any", None>>
Key(c) == IF IdentityOf[c.tool] = None THEN <<c.id, "raw", c.tool>>
                                       ELSE <<c.id, "identity", IdentityOf[c.tool]>>

----------------------------------------------------------------------------
(* One capability *)

ScopeFindings(p, c) ==
    IF c.id \notin DOMAIN p.constraints THEN {}
    ELSE IF c.kind = "unknown"
    THEN CASE p.unknown = "ignore" -> {}
           [] p.unknown = "review" -> {Found("MEDIUM", "scope.unknown", c)}
           [] p.unknown = "deny" -> {Found("HIGH", "scope.unknown", c)}
    ELSE IF c.kind \notin p.constraints[c.id].kinds
    THEN {Found("HIGH", "scope.constraint_violation", c)}
    ELSE IF /\ p.constraints[c.id].values # {}
            /\ c.values = {} \/ ~(c.values \subseteq p.constraints[c.id].values)
    THEN {Found("HIGH", "scope.value_violation", c)}
    ELSE {}

Reviewed(p, c) ==
    IF c.id \in p.review /\ \A f \in ScopeFindings(p, c) : f.severity # "HIGH"
    THEN {Found("MEDIUM", "capability.review_required", c)} ELSE {}

NotAllowed(p, c) ==
    LET i == IdentityOf[c.tool]
    IN  i # None /\ i \in DOMAIN p.allow /\ c.id \notin p.allow[i]

BlockedFirst(p, caps, c) ==
    IF IdentityOf[c.tool] \in Blocked(p, caps) THEN {}
    ELSE IF c.id \in p.deny THEN {Found("HIGH", "capability.denied", c)}
    ELSE IF NotAllowed(p, c) THEN {Found("HIGH", "capability.tool_allowlist_violation", c)}
    ELSE ScopeFindings(p, c) \cup Reviewed(p, c)

\* What one iteration of the loop finds: the first rule that rejects decides.
Judge(p, caps, c) ==
    IF c.id \in p.deny THEN {Found("HIGH", "capability.denied", c)}
    ELSE IF IdentityOf[c.tool] \in Blocked(p, caps) THEN {}
    ELSE IF NotAllowed(p, c) THEN {Found("HIGH", "capability.tool_allowlist_violation", c)}
    ELSE ScopeFindings(p, c) \cup Reviewed(p, c)

RiskCritical(p, risk) ==
    IF risk > p.maxRisk
    THEN {[severity |-> "CRITICAL", rule |-> "risk.threshold", cap |-> None, tool |-> None]} ELSE {}

RiskFindings(p, risk) ==
    IF risk > p.maxRisk
    THEN {[severity |-> "HIGH", rule |-> "risk.threshold", cap |-> None, tool |-> None]} ELSE {}

----------------------------------------------------------------------------
(* Suppressions *)

ExpiredOnItsDay(p, today) == \E s \in p.suppressions : s.expires <= today
Expired(p, today) == \E s \in p.suppressions : s.expires < today

MatchesAnyRule(f, s) ==
    /\ f.rule = s.rule
    /\ s.cap # None => f.cap = s.cap
    /\ s.tool # None => f.tool # None /\ IdentityOf[f.tool] = s.tool

Matches(f, s) ==
    /\ f.rule \notin {"policy.tool_identity_ambiguous", "policy.tool_identity_collision"}
    /\ f.rule = s.rule
    /\ s.cap # None => f.cap = s.cap
    /\ s.tool # None => f.tool # None /\ IdentityOf[f.tool] = s.tool

Suppressed(p, f) == \E s \in p.suppressions : Matches(f, s)

ApplySuppressions(p, F) ==
    {IF Suppressed(p, f) THEN [f EXCEPT !.severity = "INFO"] ELSE f : f \in F}

\* The findings of an inventory of which the capabilities in judged were looked at.
Outcome(p, caps, judged, risk) ==
    ApplySuppressions(p, IdentityFindings(p, caps) \cup RiskFindings(p, risk)
                         \cup UNION {Judge(p, caps, c) : c \in judged})

\* The loop looks at one capability of every key.
Representatives(caps) ==
    {judged \in SUBSET caps : \A c \in caps : \E d \in judged : \A e \in judged :
                                  Key(e) = Key(c) <=> e = d}

Rank(severity) == CASE severity = "INFO" -> 0 [] severity = "MEDIUM" -> 2 [] severity = "HIGH" -> 3

\* max_severity >= level, as cli.py's _should_fail compares it with --fail-on.
Reaches(F, level) == \E f \in F : Rank(f.severity) >= Rank(level)

----------------------------------------------------------------------------
(* diffing.py: changes that make a policy less strict *)

UnknownOrder(u) == CASE u = "ignore" -> 0 [] u = "review" -> 1 [] u = "deny" -> 2

SelectorOf(s) == <<s.rule, s.cap, s.tool>>

\* Constraints both policies have, with the values they allow.
Common(base, head) == DOMAIN base.constraints \cap DOMAIN head.constraints

EmptyIsStrict(base, head) == FALSE

\* An empty list of values allows them all.
ValuesUnconstrained(base, head) ==
    \E c \in Common(base, head) : base.constraints[c].values # {} /\ head.constraints[c].values = {}

ValuesExpanded(base, head) ==
    \E c \in Common(base, head) :
        /\ base.constraints[c].values # {} /\ head.constraints[c].values # {}
        /\ ~(head.constraints[c].values \subseteq base.constraints[c].values)

\* _policy_weakening_warnings: which kinds of warning a change raises.
Warns(base, head) ==
    [deny_removed |-> ~(base.deny \subseteq head.deny),
     review_requirement_removed |-> ~(base.review \subseteq head.review),
     risk_threshold_raised |-> head.maxRisk > base.maxRisk,
     unknown_scope_weakened |-> UnknownOrder(head.unknown) < UnknownOrder(base.unknown),
     tool_allowlist_removed |-> ~(DOMAIN base.allow \subseteq DOMAIN head.allow),
     tool_allowlist_expanded |->
        \E i \in DOMAIN base.allow \cap DOMAIN head.allow : ~(head.allow[i] \subseteq base.allow[i]),
     scope_constraint_removed |-> ~(DOMAIN base.constraints \subseteq DOMAIN head.constraints),
     scope_kind_expanded |->
        \E c \in Common(base, head) : ~(head.constraints[c].kinds \subseteq base.constraints[c].kinds),
     scope_values_unconstrained |-> ValuesUnconstrained(base, head),
     scope_values_expanded |-> ValuesExpanded(base, head),
     suppression_added |->
        \E s \in head.suppressions : \A b \in base.suppressions : SelectorOf(b) # SelectorOf(s),
     suppression_extended |->
        \E s \in head.suppressions, b \in base.suppressions :
            SelectorOf(b) = SelectorOf(s) /\ s.expires > b.expires,
     trust_boundary_removed |-> ~(base.trust \subseteq head.trust)]

Warnings(base, head) == {k \in DOMAIN Warns(base, head) : Warns(base, head)[k]}
============================================================================
