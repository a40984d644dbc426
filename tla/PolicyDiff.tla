----------------------------- MODULE PolicyDiff -----------------------------
(***************************************************************************)
(* The pull-request check of .github/workflows/pr-capability-diff.yml: a     *)
(* snapshot under the base policy, a snapshot under the head policy, and the *)
(* comparison of the two (diffing.py), for an inventory the pull request      *)
(* leaves alone.  A snapshot is its policy and its findings.                  *)
(***************************************************************************)
EXTENDS PolicyRules

CONSTANTS Policies, Inventories, Risks, Days   \* what is considered, as in PolicyEval

ASSUME InputsAssumption ==
    /\ Policies \subseteq Policy
    /\ Inventories \subseteq SUBSET Capability
    /\ Risks \subseteq Nat /\ Days \subseteq Nat

VARIABLES caps, judged, risk, today, \* the inventory, what the loop looks at, score, date
          step,       \* start, base, head, compared or error: the last step done
          base, head, \* the policies in the two snapshots
          before, after, \* their findings
          warnings    \* policy_weakening_warnings of the diff

inventory == <<caps, judged, risk, today>>
vars == <<caps, judged, risk, today, step, base, head, before, after, warnings>>

NoPolicy == [deny |-> {}, review |-> {}, maxRisk |-> 60, allow |-> <<>>, constraints |-> <<>>,
             unknown |-> "review", trust |-> {}, suppressions |-> {}]

TypeOK ==
    /\ caps \in Inventories /\ judged \in Representatives(caps) /\ risk \in Risks /\ today \in Days
    /\ step \in {"start", "base", "head", "compared", "error"}
    /\ base \in Policies \cup {NoPolicy} /\ head \in Policies \cup {NoPolicy}
    /\ before \subseteq Finding /\ after \subseteq Finding
    /\ warnings \subseteq DOMAIN Warns(base, head)

Init ==
    /\ caps \in Inventories /\ judged \in Representatives(caps) /\ risk \in Risks /\ today \in Days
    /\ step = "start" /\ base = NoPolicy /\ head = NoPolicy
    /\ before = {} /\ after = {} /\ warnings = {}

\* agentcapdiff snapshot in the worktree of the base commit.
SnapshotBase(p) ==
    /\ step = "start" /\ base' = p
    /\ IF Expired(p, today)
       THEN step' = "error" /\ UNCHANGED before
       ELSE step' = "base" /\ before' = Outcome(p, caps, judged, risk)
    /\ UNCHANGED <<inventory, head, after, warnings>>

\* agentcapdiff snapshot in the checkout of the pull request.
SnapshotHead(p) ==
    /\ step = "base" /\ head' = p
    /\ IF Expired(p, today)
       THEN step' = "error" /\ UNCHANGED after
       ELSE step' = "head" /\ after' = Outcome(p, caps, judged, risk)
    /\ UNCHANGED <<inventory, base, before, warnings>>

\* agentcapdiff diff: compare_snapshots.
Compare ==
    /\ step = "head" /\ step' = "compared"
    /\ warnings' = Warnings(base, head)
    /\ UNCHANGED <<inventory, base, head, before, after>>

Next == (\E p \in Policies : SnapshotBase(p) \/ SnapshotHead(p)) \/ Compare

Spec == Init /\ [][Next]_vars

----------------------------------------------------------------------------
(* Properties *)

\* Suppressions of what the last rules find, for every tool.
OnlyTerminal(p) ==
    \A s \in p.suppressions : /\ s.rule \in {"capability.review_required", "risk.threshold"}
                              /\ s.tool = None

\* A name outside ASCII is reported unless the policy selects exactly it.
NewlySelected ==
    {c \in caps : c.tool \in NonAscii /\ IdentityOf[c.tool] \in Targeted(head) \ Targeted(base)}

\* A change of policy that weakens the verdict does not pass unannounced: if no
\* rule changed in a direction diffing.py warns about, no interplay of the rules
\* that did change lowers the severity, so a check that failed still fails.
NoSilentWeakening ==
    step = "compared" /\ warnings = {} /\ OnlyTerminal(base) /\ OnlyTerminal(head)
    /\ NewlySelected = {} =>
        \A level \in {"MEDIUM", "HIGH"} : Reaches(before, level) => Reaches(after, level)
============================================================================
