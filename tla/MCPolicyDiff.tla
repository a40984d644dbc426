---------------------------- MODULE MCPolicyDiff ----------------------------
(* Instances of PolicyDiff for TLC. *)
EXTENDS PolicyDiff, TLC

CONSTANTS c1, twinA, twinB, odd, i1, v1, v2

Names == {twinA, twinB, odd}
Folded == twinA :> i1 @@ twinB :> i1 @@ odd :> None
NoNames == {}

Cap(t, kind, values) == [id |-> c1, tool |-> t, kind |-> kind, values |-> values]
SomeInventories == {{Cap(twinA, "restricted", {v1})}, {Cap(twinA, "restricted", {v1, v2})},
                    {Cap(twinA, "broad", {})}, {Cap(twinA, "unknown", {})},
                    {Cap(twinA, "restricted", {v1}), Cap(twinB, "broad", {})},
                    {Cap(odd, "restricted", {v1})}}

Suppress(rule) == {[rule |-> rule, cap |-> None, tool |-> None, expires |-> 1]}

Restricted(values) == c1 :> [kinds |-> {"restricted"}, values |-> values]
Anyhow(values) == c1 :> [kinds |-> ScopeKind, values |-> values]
Scoped == {<<<<>>, "ignore">>, <<Restricted({}), "review">>, <<Restricted({v1}), "review">>,
           <<Restricted({v1}), "deny">>, <<Anyhow({v1, v2}), "review">>}

PoliciesWith(suppressions) ==
    {[deny |-> d, review |-> r, maxRisk |-> 1, allow |-> a, constraints |-> s[1],
      unknown |-> s[2], trust |-> {}, suppressions |-> q] :
        d \in {{}, {c1}}, r \in {{}, {c1}}, a \in {<<>>, i1 :> {}, i1 :> {c1}},
        s \in Scoped, q \in suppressions}

TerminalPolicies ==
    LET some == PoliciesWith({{}, Suppress("capability.review_required")})
    IN  some \cup {[p EXCEPT !.maxRisk = 0] : p \in {q \in some : q.allow = <<>> /\ q.review = {}}}
SomeRisks == {1}
SomeDays == {1}
============================================================================
