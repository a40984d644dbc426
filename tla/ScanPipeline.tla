---------------------------- MODULE ScanPipeline ----------------------------
(***************************************************************************)
(* One scan as a library call and what becomes of it: scan of scanner.py      *)
(* discovers the tools, infers what they can do, loads the policy, evaluates   *)
(* it and seals the result; the caller may change the result; it is written    *)
(* as a snapshot; the file may be edited; and it is compared with the          *)
(* snapshot of another scan.                                                  *)
(***************************************************************************)
EXTENDS Discovery, PolicyLoad, Snapshots

CONSTANTS Scans,     \* the situations considered: see ScanType
          Target,    \* single places a scope can admit, to compare scopes by
          Fresh      \* a name that no scope value has

Part == {"tools", "caps", "graph", "policy", "findings"}
Editing == ({"drop", "nullify", "spoil", "splice"} \X Field)
           \cup ({"blank"} \X {"allow", "constraints", "trust", "suppressions"})
           \cup ({"mar"} \X {"confidence", "kind"})

\* A file of a policy folder.
IsPolicyFile(f) ==
    f = Absent \/ (/\ DOMAIN f = {"link", "inside", "text", "size", "refs", "fields"}
                   /\ {f.link, f.inside} \subseteq BOOLEAN /\ f.text \in Text /\ f.size \in Nat
                   /\ f.refs = Bad \/ f.refs \in Seq(Ref)
                   /\ AreFields(f.fields))

\* A member of Policy, by its fields.
IsPolicy(p) ==
    /\ DOMAIN p = {"deny", "review", "maxRisk", "allow", "constraints", "unknown", "trust", "suppressions"}
    /\ {p.deny, p.review} \subseteq SUBSET CapId /\ p.maxRisk \in 0..100
    /\ DOMAIN p.allow \subseteq Identity /\ \A i \in DOMAIN p.allow : p.allow[i] \subseteq CapId
    /\ DOMAIN p.constraints \subseteq CapId
    /\ \A i \in DOMAIN p.constraints : p.constraints[i] \in Constraint
    /\ p.unknown \in {"deny", "review", "ignore"} /\ p.trust \subseteq Identity
    /\ p.suppressions \subseteq Suppression

\* A capability as the rules of a policy see it, without its provenance.
ForPolicy(caps) == {[id |-> c.id, tool |-> c.tool, kind |-> c.scope.kind, values |-> c.scope.values] : c \in caps}

\* A scope that inference or reconciliation makes.
IsScope(s) ==
    /\ s.kind \in ScopeKind /\ s.values \subseteq Value
    /\ s.kind = "restricted" => s.values # {} /\ s.values \cap Everything = {}

\* A ScanResult.
IsResult(r) ==
    /\ DOMAIN r = Part /\ r.tools \subseteq ToolRecord /\ ForPolicy(r.caps) \subseteq Capability
    /\ IsPolicy(r.policy) /\ r.findings \subseteq Finding

\* A tree and a policy folder to scan, the snapshot that another scan wrote to compare with, and
\* what may be done to this one's result (parts become those of others) and to its file.
ScanType(s) ==
    /\ DOMAIN s = {"tree", "folder", "base", "others", "tampers", "edits"}
    /\ IsTree(s.tree)
    /\ DOMAIN s.folder = PolicyFile /\ \A f \in PolicyFile : IsPolicyFile(s.folder[f])
    /\ DOMAIN s.base = Field /\ WellFormed(s.base) /\ Hashable(s.base) /\ Consistent(s.base)
    /\ IsPolicy(s.base["policy"])
    /\ IsFiniteSet(s.base["records"]) /\ \A x \in s.base["scopes"] : IsScope(x.scope)
    /\ IsResult(s.others)
    /\ s.tampers \subseteq Part /\ s.edits \subseteq Editing

Replacement == {"missing", "link", "not text"}

ASSUME PipelineAssumption == \A s \in Scans : ScanType(s)
\* A single place that v admits, and no value that does not cover v.
PlaceOf(v) ==
    IF Deep(v) THEN [root |-> v.root, segs |-> Append(Front(v.segs), Fresh)]
    ELSE IF v.root = "*." THEN [root |-> "host", segs |-> Append(v.segs, Fresh)] ELSE v

ASSUME TargetAssumption ==
    /\ Target \subseteq [root : STRING \ {"*."}, segs : Seq(STRING)] /\ \A x \in Target : ~Deep(x)
    /\ Fresh \in STRING \ {"**"} /\ \A v \in Value : Fresh \notin ToSet(v.segs)
    /\ \A v \in Value \ Everything : PlaceOf(v) \in Target
ASSUME EditingAssumption == None \notin Editing \cup ({"replace"} \X Replacement)

VARIABLES input,    \* the situation
          scan,     \* the step reached
          result,   \* the ScanResult
          seal,     \* its fingerprint, None before
          file,     \* the snapshot file of this scan
          edit,     \* history: what was done to the file
          report    \* what compare_snapshots returned, None before

pipelineVars == <<input, scan, result, seal, file, edit, report>>
vars == <<discoveryVars, loadVars, pipelineVars>>

Ended == {"rejected", "unwritten", "refused", "crashed", "compared"}
NoResult == [tools |-> {}, caps |-> {}, graph |-> Graph({}), policy |-> DefaultPolicy, findings |-> {}]
NoFile == [kind |-> "missing", snapshot |-> <<>>]

Init ==
    /\ input \in Scans
    /\ DiscoveryInit(input.tree) /\ LoadInit(input.folder)
    /\ scan = "discovering" /\ result = NoResult /\ seal = None
    /\ file = NoFile /\ edit = None /\ report = None

----------------------------------------------------------------------------
(* scan of scanner.py *)

Discovering ==
    /\ scan = "discovering" /\ Discover
    /\ UNCHANGED <<loadVars, pipelineVars>>

\* A DiscoveryLimitError ends the scan; else its tools are what there is to judge.
Infer ==
    /\ scan = "discovering" /\ discovery \in {"found", "failed"}
    /\ IF discovery = "failed" THEN scan' = "rejected" /\ UNCHANGED result
       ELSE /\ scan' = "reconciling"
            /\ result' = [result EXCEPT !.tools = tools, !.caps = InferCapabilities(tools)]
    /\ UNCHANGED <<discoveryVars, loadVars, input, seal, file, edit, report>>

Reconcile ==
    /\ scan = "reconciling" /\ scan' = "drawing"
    /\ result' = [result EXCEPT !.caps = Reconciled(result.caps)]
    /\ UNCHANGED <<discoveryVars, loadVars, input, seal, file, edit, report>>

DrawGraph ==
    /\ scan = "drawing" /\ scan' = "loading"
    /\ result' = [result EXCEPT !.graph = Graph(result.caps)]
    /\ UNCHANGED <<discoveryVars, loadVars, input, seal, file, edit, report>>

Loading ==
    /\ scan = "loading" /\ LoadPolicy
    /\ UNCHANGED <<discoveryVars, pipelineVars>>

\* evaluate_policy, of which only the order among tools of one identity is left open.
FindingsOf(caps, p) ==
    LET seen == ForPolicy(caps)
    IN  Outcome(p, seen, CHOOSE judged \in Representatives(seen) : TRUE, RiskScore(caps))

Evaluate ==
    /\ scan = "loading" /\ loading \in {"loaded", "failed"}
    /\ IF loading = "failed" THEN scan' = "rejected" /\ UNCHANGED result
       ELSE /\ scan' = "sealing"
            /\ result' = [result EXCEPT !.policy = policy, !.findings = FindingsOf(result.caps, policy)]
    /\ UNCHANGED <<discoveryVars, loadVars, input, seal, file, edit, report>>

----------------------------------------------------------------------------
(* result_semantics.py *)

\* _validate_json_compatible: data that JSON can hold, without cycles.
JsonCompatible[v \in Visits] ==
    LET n == v[1]
        active == v[2]
    IN  n = None \/ (n \notin active /\ Schema[n].json
                     /\ \A b \in Below(n) : JsonCompatible[<<b, active \cup {n}>>])
IsJson(n) == JsonCompatible[<<n, {}>>]

\* _validate_result_projection.
IsProjection(r) ==
    /\ {c.tool : c \in r.caps} \subseteq {t.name : t \in r.tools}
    /\ \A t \in r.tools : \A n \in ToSet(t.schema) : IsJson(n)
    /\ \A inferred \in {InferCapabilities(r.tools)} : r.caps = Reconciled(inferred)
    /\ r.graph = Graph(r.caps)
    /\ \A s \in {Payload(r)} : Consistent(s)

\* seal_scan_result, for a result scan has just built.
Seal ==
    /\ scan = "sealing"
    /\ IF IsProjection(result) THEN scan' = "sealed" /\ seal' = result
       ELSE scan' = "rejected" /\ UNCHANGED seal
    /\ UNCHANGED <<discoveryVars, loadVars, input, result, file, edit, report>>

\* The caller changes a part of the result: to what it is in another one.
Tamper(part) ==
    /\ scan = "sealed" /\ part \in input.tampers /\ result = seal
    /\ result' = [result EXCEPT ![part] = input.others[part]]
    /\ UNCHANGED <<discoveryVars, loadVars, input, scan, seal, file, edit, report>>

WriteIf(accepted) ==
    /\ scan = "sealed"
    /\ IF accepted THEN scan' = "written" /\ file' = [kind |-> "text", snapshot |-> Payload(result)]
       ELSE scan' = "unwritten" /\ UNCHANGED file
    /\ UNCHANGED <<discoveryVars, loadVars, input, result, seal, edit, report>>

WriteUnfingerprinted == WriteIf(IsProjection(result))

\* write_snapshot: assert_consistent, then the file.
WriteSnapshot == WriteIf(IsProjection(result) /\ result = seal)

----------------------------------------------------------------------------
(* The artifact *)

Marred(c, part) ==
    IF part = "kind" THEN [c EXCEPT !.scope.kind = Unhashable] ELSE [c EXCEPT !.confidence = Unhashable]

\* A snapshot with one thing changed: a field removed, set to null, to something of
\* another type, or to what it is in the base snapshot; a part of the policy set to null;
\* the confidence or the kind of scope of a record set to a list.
Edited(e, old) ==
    CASE e[1] = "drop" -> {[f \in DOMAIN old \ {e[2]} |-> old[f]]}
      [] e[1] = "nullify" -> {[old EXCEPT ![e[2]] = JsonNull]}
      [] e[1] = "spoil" -> {[old EXCEPT ![e[2]] = Misshapen]}
      [] e[1] = "splice" -> {[old EXCEPT ![e[2]] = input.base[e[2]]]}
      [] e[1] = "blank" -> {[old EXCEPT !["policy"] = [old["policy"] EXCEPT ![e[2]] = JsonNull]]}
      [] e[1] = "mar" -> {[old EXCEPT !["records"] = (old["records"] \ {c}) \cup {Marred(c, e[2])}]
                             : c \in old["records"]}

\* Somebody edits the file.
EditFile(e) ==
    /\ scan = "written" /\ edit = None /\ e \in input.edits
    /\ edit' = e
    /\ \E s \in Edited(e, file.snapshot) : file' = [file EXCEPT !.snapshot = s]
    /\ UNCHANGED <<discoveryVars, loadVars, input, scan, result, seal, report>>

ReplaceFile(kind) ==
    /\ scan = "written" /\ edit = None /\ <<"drop", "records">> \in input.edits
    /\ edit' = <<"replace", kind>> /\ file' = [file EXCEPT !.kind = kind]
    /\ UNCHANGED <<discoveryVars, loadVars, input, scan, result, seal, report>>

BaseFile == [kind |-> "text", snapshot |-> input.base]

\* main for diff: whatever is refused is exit code 3, a TypeError is a traceback.
Compare ==
    /\ scan = "written"
    /\ IF Chokes(BaseFile) \/ (Accepts(BaseFile) /\ Chokes(file))
       THEN scan' = "crashed" /\ UNCHANGED report
       ELSE IF ~Accepts(BaseFile) \/ ~Accepts(file) THEN scan' = "refused" /\ UNCHANGED report
       ELSE IF UsedUnchecked(BaseFile.snapshot, file.snapshot)
       THEN scan' = "crashed" /\ UNCHANGED report
       ELSE scan' = "compared" /\ report' = Report(BaseFile.snapshot, file.snapshot)
    /\ UNCHANGED <<discoveryVars, loadVars, input, result, seal, file, edit>>

Program ==
    \/ Discovering \/ Infer \/ Reconcile \/ DrawGraph \/ Loading \/ Evaluate \/ Seal
    \/ WriteSnapshot \/ Compare

Environment ==
    \/ /\ \E p \in DOMAIN tree.later : ChangeText(p)
       /\ scan = "discovering" /\ UNCHANGED <<loadVars, pipelineVars>>
    \/ \E part \in Part : Tamper(part)
    \/ \E e \in Editing : EditFile(e)
    \/ \E kind \in Replacement : ReplaceFile(kind)

Next == Program \/ Environment

\* The process is scheduled; nobody has to touch its files.
Spec == Init /\ [][Next]_vars /\ WF_vars(Program)

----------------------------------------------------------------------------
(* Properties *)

LoadTypeOK ==
    /\ loading \in {"start", "enter", "read", "loop", "check", "loaded", "failed"}
    /\ target \in PolicyFile /\ filesRead \in Nat /\ bytesRead \in Nat
    /\ \A k \in DOMAIN frames :
          /\ frames[k].path \in PolicyFile /\ frames[k].refs \in Seq(Ref)
          /\ frames[k].sources \in Seq(PolicyFile)
    /\ sources \in Seq(PolicyFile) /\ IsPolicy(policy)

DiscoveryTypeOK ==
    /\ discovery \in {"start", "list", "stat", "read", "walk", "found", "failed"}
    /\ pending \subseteq DOMAIN tree.entries /\ DOMAIN texts = DOMAIN tree.texts
    /\ {entries, documents, total, size} \subseteq Nat /\ current \in Source \cup {None}
    /\ tools \subseteq ToolRecord /\ \A k \in DOMAIN found : found[k] \in ToolRecord

TypeOK ==
    /\ DiscoveryTypeOK /\ LoadTypeOK
    /\ scan \in Ended \cup {"discovering", "reconciling", "drawing", "loading", "sealing", "sealed", "written"}
    /\ IsResult(result)
    /\ DOMAIN file.snapshot \subseteq Field

\* What stands under other keywords and is about some value.
Applied(k) == {p \in ToSet(k.other) : p[1] # None}

\* JSON Schema's own meaning, for a string at a scoped property, or for an element of the
\* list that stands there: n admits l.
Admits[v \in Literal \X Visits] ==
    LET l == v[1]
        n == v[2][1]
        active == v[2][2]
        k == Schema[n]
        of(b) == Admits[<<l, <<b, active \cup {n}>>>>]
    IN  n = None \/ n \in active \/
        /\ k.literals # {} => l \in k.literals
        /\ \A b \in ToSet(k.allOf) : of(b)
        /\ k.anyOf # <<>> => \E b \in ToSet(k.anyOf) : of(b)
        /\ k.oneOf # <<>> => \E j \in DOMAIN k.oneOf : \A i \in DOMAIN k.oneOf : of(k.oneOf[i]) <=> i = j
        /\ k.list => \E b \in {k.items} \cup {p[2] : p \in Applied(k)} : of(b)
        /\ k.conditional => of(IF of(k.if) THEN k.then ELSE k.else)
        /\ k.not # None => ~of(k.not)

\* An input valid for n may set a property of these names to l, wherever it applies.
Settable[v \in ({PathNames, NetNames} \X Literal) \X Visits] ==
    LET names == v[1][1]
        l == v[1][2]
        n == v[2][1]
        active == v[2][2]
        k == Schema[n]
        of(b) == Settable[<<v[1], <<b, active \cup {n}>>>>]
    IN  n # None /\ n \notin active /\
        \/ \E p \in ToSet(k.properties) \cup Applied(k) :
              IF p[1] \in names THEN Admits[<<l, <<p[2], {}>>>>] ELSE of(p[2])
        \/ \E b \in ToSet(k.allOf) \cup ToSet(k.anyOf) \cup ToSet(k.oneOf) \cup {k.items}
                    \cup (IF k.conditional THEN {k.then, k.else} ELSE {}) : of(b)

\* The caller of the tool that d defines may choose l.
Choosable(names, l, d) == \E n \in ToSet(d.schema) : Settable[<<<<names, l>>, <<n, {}>>>>]

NamesFor(id) == IF id = "network.external" THEN NetNames ELSE PathNames
Normal(id, l) == IF id = "network.external" THEN Net[l] ELSE Path[l]

\* What the code does not read in schemas: a scoped property under a keyword that it passes
\* over, or, at or below a scoped property, items beside such a keyword or where a string may
\* stand instead of the list.
Overlooked(names, nodes) ==
    \E n \in AllBelow[nodes \ {None}] :
        \/ \E p \in Applied(Schema[n]) : p[1] \in names \/ Mentions({p[2]}, names)
        \/ \E p \in ToSet(Schema[n].properties) :
              p[1] \in names /\ \E m \in AllBelow[{p[2]} \ {None}] :
                  Schema[m].items # None /\ (~Schema[m].list \/ Applied(Schema[m]) # {})

\* A scope the sealed result calls restricted is a bound: whatever path or host a schema given
\* for a scoped property lets the caller choose, in a definition of a document in which the
\* tool was found to have the capability, is one of the values, however the definitions were
\* found, joined, inferred and reconciled.  Not so for a definition in which a keyword is
\* overlooked (there the code may say restricted of a path that is open), nor for properties
\* that no schema names.
BoundIsSound ==
    seal # None /\ ~Changed =>
        \A c \in seal.caps : c.id \in Scoped /\ c.scope.kind = "restricted" =>
            \A e \in {x \in seal.caps : x.id = c.id /\ x.tool = c.tool} :
                \A d \in {x \in Definitions(e.source) :
                           x.name = c.tool /\ ~Overlooked(NamesFor(c.id), ToSet(x.schema))} :
                    \A l \in Literal :
                        Choosable(NamesFor(c.id), l, d) => Normal(c.id, l) \in c.scope.values

\* What scan builds itself is sealed unless a schema is not JSON data, however many
\* definitions it joined; a sealed result that was changed is never written, and one that was
\* not always is, as a snapshot that is accepted unless it is over the limits.
SealHolds ==
    /\ scan = "rejected" /\ loading = "loaded" =>
          \E t \in result.tools : \E n \in ToSet(t.schema) : ~IsJson(n)
    /\ scan = "unwritten" => result # seal
    /\ scan \in {"written", "refused", "crashed", "compared"} => result = seal
    /\ scan = "refused" /\ edit = None =>
          \E s \in {Payload(seal), input.base} : Size(s) > MaxSnapshotSize

\* Evidence that contradicts the rest of a snapshot is refused: a field taken from another
\* snapshot is either rejected or leaves the reported change of capabilities as it was.
ContradictionIsRefused ==
    scan = "compared" /\ edit # None /\ edit[1] = "splice" =>
        report.capability = CapabilityPart(input.base, Payload(seal))

\* The places a scope admits: a value stands for itself, a pattern for what is below it.
Lies(x, v) ==
    \/ x = v
    \/ Deep(v) /\ v.root = x.root /\ IsPrefix(Front(v.segs), x.segs)
    \/ v.root = "*." /\ x.root \in {"host", "url"} /\ IsStrictPrefix(v.segs, x.segs)
Reach(s) == {x \in Target : s.kind = "broad" \/ \E v \in s.values : Lies(x, v)}

\* A scope is reported as expanded exactly if, of two proven scopes, the second admits
\* more and nothing less; the same places in other words may be reported too.
ExpansionMeansGrowth ==
    scan = "compared" =>
        \A c \in report.capability.scopeChanges :
            /\ c \in report.capability.expansions => Reach(c.before) \subseteq Reach(c.after)
            /\ /\ c.before.kind = "restricted" /\ c.after.kind \in {"restricted", "broad"}
               /\ Reach(c.before) # Reach(c.after) /\ Reach(c.before) \subseteq Reach(c.after)
               => c \in report.capability.expansions

\* docs/capability-graph.md: a path that both scans have and that got more dangerous does
\* not escape review: a scope it depends on lost its bound, or another tool takes part.
WorsePathIsEscalated ==
    scan = "compared" /\ edit = None =>
        \A rule \in PathRules :
            LET before == input.base["records"]
                after == seal.caps
                needed == ToSet(rule.required)
                tooled(caps) == {c.tool : c \in With(caps, needed)}
                bounded(caps) == Kinds(caps, rule.sensitive) \subseteq {"restricted"}
            IN  /\ needed \subseteq {c.id : c \in before} /\ needed \subseteq {c.id : c \in after}
                /\ (bounded(before) /\ ~bounded(after)) \/ ~(tooled(after) \subseteq tooled(before))
                => \E e \in report.capability.escalations : e.id = rule.id

\* Of all these edits, only a null in one of three places that the comparison reads
\* without a check, and a list where a confidence or a kind of scope belongs, end it with a
\* traceback: every other one is refused or compared.
CrashesOnlyWhereUnchecked ==
    scan = "crashed" =>
        edit \in {<<"nullify", "scopes">>, <<"nullify", "findings">>, <<"blank", "suppressions">>,
                  <<"mar", "confidence">>, <<"mar", "kind">>}

\* docs/audit-2026-08-28-snapshot-diff-artifacts.md: "malformed artifacts fail closed
\* instead of being string-coerced or crashing later".
MalformedIsRefused == scan # "crashed"

\* Whatever the documents and policies hold, shared and cyclic ones included, and
\* whatever happens to the files, the command comes to an end.
ScanEnds == <>(scan \in Ended)
=============================================================================
