----------------------------- MODULE Snapshots -----------------------------
(***************************************************************************)
(* Snapshot artifacts: what write_snapshot stores (diffing.py), what          *)
(* load_snapshot accepts (snapshotio.py, snapshot_semantics.py) and what       *)
(* compare_snapshots reports.  A snapshot is a function on the fields it has; *)
(* lists whose order and repetition nothing depends on are sets.             *)
(***************************************************************************)
EXTENDS Capabilities

CONSTANTS JsonNull, Misshapen, \* JSON null; a value of the wrong shape that a check refuses
          Unhashable,          \* a list or an object where a set is asked for a string
          MaxSnapshotSize  \* limit on size, nodes and depth, here on the number of records

Confidence == {"low", "medium", "high"}

ASSUME SnapshotsAssumption ==
    MaxSnapshotSize \in Nat /\ Unhashable \notin Confidence \cup ScopeKind

Field == {"capabilities", "records", "tools", "scopes", "graph", "risk", "severity",
          "fingerprint", "findings", "policy"}

\* ScanResult.max_severity.
MaxSeverity(findings) ==
    IF findings = {} THEN "INFO"
    ELSE (CHOOSE f \in findings : \A g \in findings : Rank(g.severity) <= Rank(f.severity)).severity

\* snapshot_payload.  The fingerprint of a set of capabilities stands for its hash.
Payload(r) ==
    LET ids == {c.id : c \in r.caps}
    IN  [capabilities |-> ids, records |-> r.caps, tools |-> {t.name : t \in r.tools},
         scopes |-> ScopeRecords(r.caps), graph |-> r.graph, risk |-> RiskScore(r.caps),
         severity |-> MaxSeverity(r.findings), fingerprint |-> ids, findings |-> r.findings,
         policy |-> r.policy]

----------------------------------------------------------------------------
(* load_snapshot *)

Has(s, f) == f \in DOMAIN s
Given(s, f) == Has(s, f) /\ s[f] # JsonNull   \* neither absent nor null
Stored(s, f, default) == IF Has(s, f) THEN s[f] ELSE default

WellShaped(s) == \A f \in DOMAIN s : s[f] # Misshapen

\* _validate_snapshot: lists of names may be left out, the rest may also be null, and so
\* may allow_by_tool, scope_constraints, trust_boundaries and suppressions of a policy.
WellFormed(s) ==
    /\ WellShaped(s)
    /\ \A f \in {"capabilities", "tools"} : Has(s, f) => s[f] # JsonNull
    /\ Given(s, "fingerprint") => s["fingerprint"] = Stored(s, "capabilities", {})

\* The confidence and the kind of scope of a record are looked up in a set before anything else
\* is known of them.
Hashable(s) ==
    Given(s, "records") => \A c \in s["records"] : Unhashable \notin {c.confidence, c.scope.kind}

OneScopePerTool(S) == \A x, y \in S : x.capability = y.capability /\ x.tool = y.tool => x = y

\* References from evidence to the lists of names, where those are present.
Known(s, caps, names) ==
    /\ Has(s, "capabilities") => caps \subseteq s["capabilities"]
    /\ Has(s, "tools") => names \subseteq s["tools"]

RecordsAgree(s) ==
    Given(s, "records") =>
        LET records == s["records"]
        IN  /\ \A c, d \in records : c.id = d.id /\ c.tool = d.tool /\ c.source = d.source => c = d
            /\ Has(s, "capabilities") => s["capabilities"] = {c.id : c \in records}
            /\ Has(s, "tools") => {c.tool : c \in records} \subseteq s["tools"]
            /\ Has(s, "risk") => s["risk"] = RiskScore(records)

ScopesKnown(s) ==
    Given(s, "scopes") =>
        /\ Known(s, {x.capability : x \in s["scopes"]}, {x.tool : x \in s["scopes"]})
        /\ OneScopePerTool(s["scopes"])
ScopesAgree(s) ==
    /\ ScopesKnown(s)
    /\ Given(s, "scopes") /\ Given(s, "records") => s["scopes"] = ScopeRecords(s["records"])

GraphAgrees(s) ==
    Given(s, "graph") =>
        LET g == s["graph"]
        IN  /\ \A p, q \in g.paths : p.id = q.id => p = q
            /\ Known(s, {n.capability : n \in g.nodes}, UNION {n.tools : n \in g.nodes})
            /\ Known(s, UNION {ToSet(e) : e \in g.edges}, {})
            /\ Known(s, UNION {ToSet(p.capabilities) : p \in g.paths}, UNION {p.tools : p \in g.paths})
            /\ Given(s, "records") => g = Graph(s["records"])

FindingsAgree(s) ==
    Given(s, "findings") =>
        /\ Known(s, {f.cap : f \in s["findings"]} \ {None}, {f.tool : f \in s["findings"]} \ {None})
        /\ Has(s, "severity") => s["severity"] = MaxSeverity(s["findings"])

\* validate_snapshot_semantics.
Consistent(s) == RecordsAgree(s) /\ ScopesAgree(s) /\ GraphAgrees(s) /\ FindingsAgree(s)

Size(s) == IF Given(s, "records") /\ s["records"] # Misshapen THEN Cardinality(s["records"]) ELSE 0

\* A snapshot file is a regular file with a text, a symbolic link, missing or not text.
Opens(file) ==
    file.kind = "text" /\ Size(file.snapshot) <= MaxSnapshotSize /\ WellFormed(file.snapshot)

\* load_snapshot returns the snapshot, or ends with a TypeError that nobody handles.
Accepts(file) == Opens(file) /\ Hashable(file.snapshot) /\ Consistent(file.snapshot)
Chokes(file) == Opens(file) /\ ~Hashable(file.snapshot)

----------------------------------------------------------------------------
(* compare_snapshots *)

\* What compare_snapshots uses as it is: what is no list or number there is a TypeError.  The
\* suppressions are read if both snapshots have a policy.
UsedUnchecked(a, b) ==
    LET odd(s, f) == Has(s, f) /\ s[f] \in {JsonNull, Misshapen}
    IN  \/ \E s \in {a, b} : \E f \in {"capabilities", "tools", "scopes", "risk"} : odd(s, f)
        \/ odd(b, "findings")
        \/ Given(a, "policy") /\ Given(b, "policy") /\ JsonNull \in {a["policy"].suppressions, b["policy"].suppressions}

Unestablished == ScopeOf("unknown", {}, "")

ScopeMap(s, key) ==
    LET own == {x \in Stored(s, "scopes", {}) : <<x.capability, x.tool>> = key}
    IN  IF own = {} THEN Unestablished ELSE (CHOOSE x \in own : TRUE).scope

ScopeKeys(s) == {<<x.capability, x.tool>> : x \in Stored(s, "scopes", {})}

ScopeChanges(a, b) ==
    {[key |-> k, before |-> ScopeMap(a, k), after |-> ScopeMap(b, k)] :
        k \in {j \in ScopeKeys(a) \cup ScopeKeys(b) : ScopeMap(a, j) # ScopeMap(b, j)}}

PathsOf(s) == IF Given(s, "graph") THEN s["graph"].paths ELSE {}

ConfidenceRank(c) == CASE c = "low" -> 0 [] c = "medium" -> 1 [] c = "high" -> 2

Reasons(p, q) ==
    {r \in {"severity_increased", "confidence_decreased", "capabilities_changed", "tools_expanded"} :
        \/ r = "severity_increased" /\ Rank(q.severity) > Rank(p.severity)
        \/ r = "confidence_decreased" /\ ConfidenceRank(q.confidence) < ConfidenceRank(p.confidence)
        \/ r = "capabilities_changed" /\ q.capabilities # p.capabilities
        \/ r = "tools_expanded" /\ ~(q.tools \subseteq p.tools)}

\* _path_change_records, of the paths in both snapshots.
PathChanges(a, b) ==
    {[id |-> pq[1].id, before |-> pq[1], after |-> pq[2], reasons |-> Reasons(pq[1], pq[2])] :
        pq \in {x \in PathsOf(a) \X PathsOf(b) : x[1].id = x[2].id /\ x[1] # x[2]}}

\* _record_mapping: a null is read as an empty mapping.
OrEmpty(mapping, empty) == IF mapping = JsonNull THEN empty ELSE mapping
AsRead(p) == [p EXCEPT !.allow = OrEmpty(p.allow, <<>>), !.constraints = OrEmpty(p.constraints, <<>>),
                       !.trust = OrEmpty(p.trust, {})]

PolicyPart(a, b) ==
    IF ~Given(a, "policy") \/ ~Given(b, "policy") THEN [changed |-> FALSE, warnings |-> {}]
    ELSE [changed |-> a["policy"] # b["policy"], warnings |-> Warnings(AsRead(a["policy"]), AsRead(b["policy"]))]

Fingerprint(s) == IF Given(s, "fingerprint") THEN s["fingerprint"] ELSE Stored(s, "capabilities", {})

\* The part of the report that is about what the tools can do.
CapabilityPart(a, b) ==
    LET caps(s) == Stored(s, "capabilities", {})
        ids(s) == {p.id : p \in PathsOf(s)}
        changes == ScopeChanges(a, b)
    IN  [added |-> caps(b) \ caps(a), removed |-> caps(a) \ caps(b),
         scopeChanges |-> changes,
         expansions |-> {c \in changes : ScopeIsExpansion(c.before, c.after)},
         pathsAdded |-> {p \in PathsOf(b) : p.id \notin ids(a)},
         pathsRemoved |-> {p \in PathsOf(a) : p.id \notin ids(b)},
         pathChanges |-> PathChanges(a, b),
         escalations |-> {c \in PathChanges(a, b) : c.reasons # {}},
         headPaths |-> PathsOf(b),
         risks |-> <<Stored(a, "risk", 0), Stored(b, "risk", 0)>>,
         fingerprintChanged |-> Fingerprint(a) # Fingerprint(b)]

Report(a, b) ==
    [capability |-> CapabilityPart(a, b), policy |-> PolicyPart(a, b),
     toolsAdded |-> Stored(b, "tools", {}) \ Stored(a, "tools", {}),
     toolsRemoved |-> Stored(a, "tools", {}) \ Stored(b, "tools", {}),
     headSeverity |-> Stored(b, "severity", "INFO"), headFindings |-> Stored(b, "findings", {})]
=============================================================================
