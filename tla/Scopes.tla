------------------------------- MODULE Scopes -------------------------------
(***************************************************************************)
(* src/agentcapdiff/scopes.py: which paths and hosts a tool's schema and     *)
(* description prove it is limited to, and how two scopes compare; with the   *)
(* walk of capabilities.py over the same schemas.                            *)
(***************************************************************************)
EXTENDS PolicyRules, SequencesExt

CONSTANTS SchemaNode, \* the objects of the schemas; YAML anchors let them be shared or cyclic
          Schema,     \* Schema[n]: what the keywords of the object n hold
          Literal     \* strings found where a path or a host is expected

\* A literal as written.  root says how it starts: "/", "./" or "" for a path, "*." for
\* a wildcard host, "host" and "url" for a host without and with a scheme, "*" for
\* every host.  segs are its parts, those of a host from the right.
LiteralType == [dynamic : BOOLEAN, root : STRING, segs : Seq(STRING)]

Branch == SchemaNode \cup {None}   \* None: a subschema that is not an object

\* literals and words are the strings of const and enum, as scope values and as names of
\* actions; says what title and description match; json: no value or key is foreign to
\* JSON; list: the object admits arrays only.  other holds what stands under keywords that the
\* code has no rule for: patternProperties, additionalProperties, prefixItems, a list of items,
\* contains, $defs.  A pair p of it says which property p[2] is about, if the caller chooses the
\* name (one pair for each name), "" for an element of a list, None for no value at all ($defs).
SchemaType ==
    [literals : SUBSET Literal, words : SUBSET STRING, says : SUBSET CapId,
     json : BOOLEAN, ref : BOOLEAN, list : BOOLEAN, properties : Seq(STRING \X Branch), items : Branch,
     allOf : Seq(Branch), anyOf : Seq(Branch), oneOf : Seq(Branch),
     conditional : BOOLEAN, if : Branch, then : Branch, else : Branch,
     not : Branch, dependent : Seq(Branch), other : Seq((STRING \cup {None}) \X Branch)]

ASSUME SchemaAssumption ==
    /\ None \notin SchemaNode /\ None \notin Literal /\ IsFiniteSet(SchemaNode)
    /\ Literal \subseteq LiteralType
    /\ Schema \in [SchemaNode -> SchemaType]

PathNames == {"path", "paths", "file", "filepath", "file_path", "directory", "dir", "root",
              "allowed_path", "allowed_paths", "base_path", "destination_path", "input_path",
              "output_path", "read_path", "source_path", "target_path", "write_path"}
NetNames == {"url", "urls", "uri", "endpoint", "endpoints", "domain", "domains", "host", "hosts",
             "base_url", "allowed_domains", "allowed_hosts", "destination_url", "remote_url",
             "request_url", "target_url", "webhook_url"}

----------------------------------------------------------------------------
(* What schemas prove *)

Evidence == [values : SUBSET Literal, mentioned : BOOLEAN, ambiguous : BOOLEAN]
Nothing == [values |-> {}, mentioned |-> FALSE, ambiguous |-> FALSE]
Unproven == [values |-> {}, mentioned |-> TRUE, ambiguous |-> TRUE]
Proven(values) == [values |-> values, mentioned |-> TRUE, ambiguous |-> FALSE]

ValuesOf(E) == UNION {e.values : e \in E}

\* Alternatives prove a bound only if each of them proves one.
AnyAlternative(E) ==
    IF \A e \in E : ~e.mentioned THEN Nothing
    ELSE IF ValuesOf(E) # {} THEN Proven(ValuesOf(E)) ELSE Unproven
AlternativesOf(E) ==
    IF \A e \in E : ~e.mentioned THEN Nothing
    ELSE IF \A e \in E : e.values # {} /\ ~e.ambiguous THEN Proven(ValuesOf(E))
    ELSE Unproven

MergedEvidence(E) ==
    [values |-> ValuesOf(E), mentioned |-> \E e \in E : e.mentioned,
     ambiguous |-> \E e \in E : e.ambiguous]

\* The keyword that decides for a value: the first of anyOf, oneOf and if.
DecidingBranches(k) ==
    IF k.anyOf # <<>> THEN ToSet(k.anyOf)
    ELSE IF k.oneOf # <<>> THEN ToSet(k.oneOf)
    ELSE IF k.conditional THEN {k.then, k.else} ELSE {None}

\* The walks over schemas go from an object to one below it; active are the objects entered
\* on the way.
Visits == Branch \X SUBSET SchemaNode

\* _value_constraints: the values a scoped property may take.
ValueEvidence[v \in Visits] ==
    LET n == v[1]
        active == v[2]
        k == Schema[n]
        of(b) == ValueEvidence[<<b, active \cup {n}>>]
        hard == k.literals \cup (UNION {of(b).values : b \in ToSet(k.allOf)})
                           \cup (IF k.items = None THEN {} ELSE of(k.items).values)
    IN  IF n = None \/ n \in active THEN Unproven
        ELSE IF hard # {} THEN Proven(hard) ELSE AlternativesOf({of(b) : b \in DecidingBranches(k)})

\* _mentions_scope: a scoped property of properties anywhere below an object, by whatever
\* keyword it stands there, those in other included.
Below(n) ==
    LET k == Schema[n]
    IN  ({p[2] : p \in ToSet(k.properties) \cup ToSet(k.other)}
         \cup {k.items, k.if, k.then, k.else, k.not}
         \cup ToSet(k.allOf) \cup ToSet(k.anyOf) \cup ToSet(k.oneOf) \cup ToSet(k.dependent)) \ {None}
AllBelow[S \in SUBSET SchemaNode] ==
    LET T == S \cup UNION {Below(n) : n \in S} IN IF T = S THEN S ELSE AllBelow[T]
Mentions(S, names) ==
    \E n \in AllBelow[S \ {None}] : \E p \in ToSet(Schema[n].properties) : p[1] \in names

\* _schema_constraints: the scoped properties an object may set, as far as the keywords say
\* that it follows; what stands in other is passed over.
SchemaEvidence[v \in {PathNames, NetNames} \X Visits] ==
    LET names == v[1]
        n == v[2][1]
        active == v[2][2]
        k == Schema[n]
        of(b) == SchemaEvidence[<<names, <<b, active \cup {n}>>>>]
        alternatives(B) == IF B = <<>> THEN {} ELSE {AlternativesOf({of(b) : b \in ToSet(B)})}
        choice == AlternativesOf({of(k.then), of(k.else)})
    IN  IF n = None THEN Nothing
        ELSE IF n \in active THEN Unproven
        ELSE MergedEvidence(
                 {of(b) : b \in ToSet(k.allOf) \cup {k.items}}
                 \cup {IF p[1] \in names THEN ValueEvidence[<<p[2], active \cup {n}>>] ELSE of(p[2])
                          : p \in ToSet(k.properties)}
                 \cup alternatives(k.anyOf) \cup alternatives(k.oneOf)
                 \cup (IF ~k.conditional THEN {}
                       ELSE IF ~choice.mentioned /\ Mentions({k.if}, names) THEN {Unproven}
                       ELSE {choice})
                 \cup (IF k.ref \/ Mentions({k.not} \cup ToSet(k.dependent), names)
                       THEN {Unproven} ELSE {}))

\* A tool's schemas: none, one, or several joined by allOf.
AllSchemas(names, nodes) ==
    MergedEvidence({SchemaEvidence[<<names, <<n, {}>>>>] : n \in ToSet(nodes)})

----------------------------------------------------------------------------
(* Literals *)

EveryPath == [root |-> "/", segs |-> <<"**">>]
EveryHost == [root |-> "*", segs |-> <<>>]
Everything == {EveryPath, EveryHost}

\* _path; None when the literal is dynamic or goes up.
Path[l \in Literal] ==
    IF l.dynamic \/ ".." \in ToSet(l.segs) THEN None
    ELSE IF \/ l.root # "./" /\ l.segs \in {<<"*">>, <<"**">>}
            \/ l.root = "/" /\ l.segs = <<>> THEN EveryPath
    ELSE [root |-> l.root, segs |-> SelectSeq(l.segs, LAMBDA s : s # ".")]

\* _net.
Net[l \in Literal] == IF l.dynamic THEN None ELSE [root |-> l.root, segs |-> l.segs]

ASSUME ValueAssumption ==
    /\ Value \subseteq [root : STRING, segs : Seq(STRING)] /\ Everything \subseteq Value
    /\ ({Path[l] : l \in Literal} \cup {Net[l] : l \in Literal}) \ {None} \subseteq Value

----------------------------------------------------------------------------
(* The scope of a tool *)

ScopeOf(kind, values, reason) == [kind |-> kind, values |-> values, reason |-> reason]

\* says: patterns of capabilities it matches; any: "any path", "any host"; paths and
\* hosts: what it says the tool is restricted to.
Description == [says : SUBSET CapId, any : SUBSET {"path", "host"},
                paths : SUBSET Literal, hosts : SUBSET Literal]

\* What both infer functions do with the evidence and with the literals described.
ScopeFrom(evidence, described, normal) ==
    LET raw == evidence.values \cup described
        values == {normal[l] : l \in raw}
    IN  IF evidence.mentioned /\ evidence.ambiguous THEN ScopeOf("unknown", {}, "ambiguous")
        ELSE IF raw = {} THEN ScopeOf("unknown", {}, "nothing")
        ELSE IF None \in values THEN ScopeOf("unknown", {}, "unsafe")
        ELSE IF values \cap Everything # {} THEN ScopeOf("broad", values, "wide")
        ELSE ScopeOf("restricted", values, "finite")

FilesystemScope(text, nodes) ==
    IF "path" \in text.any THEN ScopeOf("broad", {EveryPath}, "described")
    ELSE ScopeFrom(AllSchemas(PathNames, nodes), text.paths, Path)

NetworkScope(text, nodes) ==
    IF "host" \in text.any THEN ScopeOf("broad", {EveryHost}, "described")
    ELSE ScopeFrom(AllSchemas(NetNames, nodes), text.hosts, Net)

Scoped == {"filesystem.read", "filesystem.write", "network.external"}

ScopeForCapability(id, text, nodes) ==
    IF id \in {"filesystem.read", "filesystem.write"} THEN FilesystemScope(text, nodes)
    ELSE IF id = "network.external" THEN NetworkScope(text, nodes)
    ELSE ScopeOf("unknown", {}, "nothing")

----------------------------------------------------------------------------
(* Comparing scopes *)

Deep(v) == v.root \in {"/", "./", ""} /\ v.segs # <<>> /\ Last(v.segs) = "**"

\* _covers: all of b lies in h.  A literal of a host has neither port nor path, so that a URL
\* ending in /** is not among the patterns.
Covers(h, b) ==
    \/ h = b
    \/ Deep(h) /\ b.root = h.root /\ IsPrefix(Front(h.segs), b.segs)
    \/ /\ h.root = "*." /\ b.root \in {"*.", "host", "url"}
       /\ IsPrefix(h.segs, b.segs)
       /\ b.root # "*." => b.segs # h.segs

SomeCovered(base, head) ==
    /\ base.kind = "restricted" /\ head.kind \in {"restricted", "broad"}
    /\ head.kind = "restricted" =>
          /\ base.values # {} /\ head.values # {} /\ base.values # head.values
          /\ \/ base.values \subseteq head.values
             \/ \E b \in base.values : \E h \in head.values : Covers(h, b)

ScopeIsExpansion(base, head) ==
    /\ base.kind = "restricted" /\ head.kind \in {"restricted", "broad"}
    /\ head.kind = "restricted" =>
          /\ base.values # {} /\ head.values # {} /\ base.values # head.values
          /\ \/ base.values \subseteq head.values
             \/ \A b \in base.values : \E h \in head.values : Covers(h, b)
=============================================================================
