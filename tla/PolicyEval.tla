----------------------------- MODULE PolicyEval -----------------------------
(***************************************************************************)
(* evaluate_policy of src/agentcapdiff/policy.py as it runs: the identity   *)
(* check first, then one capability after another, then the risk threshold  *)
(* and the suppressions.                                                     *)
(***************************************************************************)
EXTENDS PolicyRules

CONSTANTS Policies,     \* the policies considered
          Inventories,  \* the sets of capabilities considered
          Risks,        \* risk scores considered
          Days          \* UTC days considered

\* Scope reconciliation leaves a tool name one scope per capability.
ASSUME InputsAssumption ==
    /\ Policies \subseteq Policy
    /\ Inventories \subseteq SUBSET Capability
    /\ \A cs \in Inventories : \A c, d \in cs : c.id = d.id /\ c.tool = d.tool => c = d
    /\ Risks \subseteq Nat /\ Days \subseteq Nat

VARIABLES policy, caps, risk, today,  \* the arguments, and the clock's date
          phase,      \* where the function is: start, loop, done or error
          todo,       \* capabilities the loop has still to visit
          seen,       \* keys it has met
          judged,     \* history: capabilities it did not skip
          findings    \* what it found

inputs == <<policy, caps, risk, today>>
vars == <<policy, caps, risk, today, phase, todo, seen, judged, findings>>

TypeOK ==
    /\ policy \in Policies /\ caps \in Inventories /\ risk \in Risks /\ today \in Days
    /\ phase \in {"start", "loop", "done", "error"}
    /\ todo \subseteq caps /\ judged \subseteq caps
    /\ seen \subseteq {Key(c) : c \in caps}
    /\ findings \subseteq Finding

Init ==
    /\ policy \in Policies /\ caps \in Inventories /\ risk \in Risks /\ today \in Days
    /\ phase = "start"
    /\ todo = {} /\ seen = {} /\ judged = {} /\ findings = {}

\* Selectors are made canonical, and a suppression past its date is an error.
Begin ==
    /\ phase = "start"
    /\ IF Expired(policy, today)
       THEN phase' = "error" /\ UNCHANGED <<todo, findings>>
       ELSE phase' = "loop" /\ todo' = caps /\ findings' = IdentityFindings(policy, caps)
    /\ UNCHANGED <<inputs, seen, judged>>

\* The order is that of the tools' names, which no selector depends on: any.
Evaluate(c) ==
    /\ phase = "loop" /\ c \in todo
    /\ todo' = todo \ {c}
    /\ IF Key(c) \in seen
       THEN UNCHANGED <<seen, judged, findings>>
       ELSE /\ seen' = seen \cup {Key(c)}
            /\ judged' = judged \cup {c}
            /\ findings' = findings \cup Judge(policy, caps, c)
    /\ UNCHANGED <<inputs, phase>>

SuppressThenRisk ==
    /\ phase = "loop" /\ todo = {}
    /\ phase' = "done"
    /\ findings' = ApplySuppressions(policy, findings) \cup RiskFindings(policy, risk)
    /\ UNCHANGED <<inputs, todo, seen, judged>>

Finish ==
    /\ phase = "loop" /\ todo = {}
    /\ phase' = "done"
    /\ findings' = ApplySuppressions(policy, findings \cup RiskFindings(policy, risk))
    /\ UNCHANGED <<inputs, todo, seen, judged>>

Next == Begin \/ (\E c \in caps : Evaluate(c)) \/ Finish

Spec == Init /\ [][Next]_vars

----------------------------------------------------------------------------
(* Properties *)

\* The loop, whatever its order, finds what the rules say of one capability per
\* key: no finding is lost or made twice by the early exits or the suppressions.
FindsTheOutcome ==
    phase = "done" => \E some \in Representatives(caps) : findings = Outcome(policy, caps, some, risk)

\* Names a selector cannot tell apart.
SameTool(t, u) == t = u \/ (IdentityOf[t] # None /\ IdentityOf[t] = IdentityOf[u])

\* "A global deny cannot be weakened": every denied capability of every tool is
\* reported for its identity, as HIGH unless a suppression selects that very pair.
DeniedIsReported ==
    phase = "done" =>
        \A c \in caps : c.id \in policy.deny =>
            \E f \in findings :
                /\ f.rule = "capability.denied" /\ f.cap = c.id
                /\ SameTool(f.tool, c.tool)
                /\ f.severity = "HIGH" \/ Suppressed(policy, Found("HIGH", "capability.denied", c))

\* Uncertainty about which tool a selector means cannot be suppressed.
IdentityIsNeverSuppressed ==
    phase = "done" /\ Targeted(policy) # {} =>
        \A c \in caps :
            \/ IdentityOf[c.tool] = None
            \/ IdentityOf[c.tool] \in Blocked(policy, caps)
            => Reaches(findings, "HIGH")

\* Names that fold to one identity which no selector of the policy targets.
UntargetedTwin(c) ==
    \E d \in caps : /\ d.tool # c.tool /\ SameTool(d.tool, c.tool)
                    /\ IdentityOf[c.tool] \notin Targeted(policy)

\* What the policy asks for a capability of a tool, taken alone.
Demands(c, level) ==
    \/ c.id \in policy.deny \/ NotAllowed(policy, c)
    \/ Reaches(ScopeFindings(policy, c), level)
    \/ level = "MEDIUM" /\ c.id \in policy.review

\* The exits that skip a rule never lower the verdict: without suppressions the
\* report is at least as severe as each rule, also for a blocked identity.
SkippingNeverWeakens ==
    phase = "done" /\ policy.suppressions = {} =>
        \A c \in caps, level \in {"MEDIUM", "HIGH"} :
            Demands(c, level) /\ ~UntargetedTwin(c) => Reaches(findings, level)

\* docs/policy-v0.5.md: "Tool-identity ambiguity does not bypass global
\* deny/review/scope enforcement", for each capability/tool pair.
ScopeIsEnforcedForEveryName ==
    phase = "done" /\ policy.suppressions = {} =>
        \A c \in caps : Reaches(ScopeFindings(policy, c), "HIGH") => Reaches(findings, "HIGH")
============================================================================
