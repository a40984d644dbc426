---------------------------- MODULE MCPolicyEval ----------------------------
(* Instances of PolicyEval for TLC: a policy for each way the rules interact. *)
EXTENDS PolicyEval, TLC

CONSTANTS c1, twinA, twinB, other, odd, foreign, i1, i2, i3, v1, v2

\* twinA and twinB fold to i1, odd (a name with a wildcard) to nothing, and
\* foreign has a letter outside ASCII.
Names == {twinA, twinB, other, odd, foreign}
Folded == twinA :> i1 @@ twinB :> i1 @@ other :> i2 @@ odd :> None @@ foreign :> i3
Foreign == {foreign}

Cap(t, kind, values) == [id |-> c1, tool |-> t, kind |-> kind, values |-> values]
Seen == {Cap(t, "restricted", {v1}) : t \in {twinA, twinB, other}}
        \cup {Cap(t, "broad", {}) : t \in Names}
        \cup {Cap(t, "unknown", {}) : t \in {twinA, twinB}}
        \cup {Cap(other, "restricted", {v1, v2})}

\* One record per name, as scope reconciliation leaves it.
SomeInventories == {{}} \cup {{c} : c \in Seen}
                   \cup {{c, d} : <<c, d>> \in {p \in Seen \X Seen : p[1].tool # p[2].tool}}
                   \cup {{Cap(twinA, "restricted", {v1}), Cap(twinB, "broad", {}), Cap(other, "broad", {})}}

Suppress(rule, cap, tool) == [rule |-> rule, cap |-> cap, tool |-> tool, expires |-> 1]
SomeSuppressions == {{}, {Suppress("capability.denied", None, i1)},
                     {Suppress("scope.constraint_violation", c1, None)},
                     {Suppress("policy.tool_identity_collision", None, None)},
                     {Suppress("policy.tool_identity_ambiguous", None, None),
                      Suppress("risk.threshold", None, None)},
                     {[Suppress("risk.threshold", None, None) EXCEPT !.expires = 0]}}

Scoped == {<<<<>>, "review">>}
          \cup {<<c1 :> [kinds |-> {"restricted"}, values |-> vs], u>> :
                   vs \in {{}, {v1}}, u \in {"deny", "review", "ignore"}}

SomePolicies ==
    {[deny |-> d, review |-> r, maxRisk |-> 0, allow |-> a, constraints |-> s[1],
      unknown |-> s[2], trust |-> {}, suppressions |-> q] :
        d \in {{}, {c1}}, r \in {{}, {c1}}, a \in {<<>>, i1 :> {}, i1 :> {c1}},
        s \in Scoped, q \in SomeSuppressions}
SomeRisks == {0, 1}
SomeDays == {1}
============================================================================
