---------------------------- MODULE Capabilities ----------------------------
(***************************************************************************)
(* src/agentcapdiff/capabilities.py, scope_reconcile.py and graph.py: what   *)
(* the tools found can do, with which scope, and the risky combinations.      *)
(***************************************************************************)
EXTENDS Tools

CONSTANT NameSays   \* NameSays[t]: capabilities whose patterns the name t matches

RuleRisk == [i \in {"shell.execute", "filesystem.write", "filesystem.read", "network.external",
                    "secrets.access", "email.send", "github.write"} |->
                CASE i \in {"shell.execute", "secrets.access"} -> 35
                  [] i \in {"filesystem.write", "email.send"} -> 25
                  [] i = "github.write" -> 20
                  [] i = "network.external" -> 15
                  [] i = "filesystem.read" -> 10]

ASSUME CapabilitiesAssumption ==
    /\ CapId = DOMAIN RuleRisk
    /\ NameSays \in [Tool -> SUBSET CapId]

----------------------------------------------------------------------------
(* The walk over the schemas of a tool *)

ActionProperties == {"action", "operation", "mode", "method"}
\* The objects right below n, by every keyword, each with the property it is met under.
Pushed(n, context) ==
    LET k == Schema[n]
        within(B) == [j \in DOMAIN B |-> <<B[j], context>>]
    IN  [j \in DOMAIN k.properties |-> <<k.properties[j][2], k.properties[j][1]>>]
        \o within(k.allOf) \o within(k.anyOf) \o within(k.oneOf)
        \o within(<<k.items, k.if, k.then, k.else, k.not>>) \o within(k.dependent)
        \o within([j \in DOMAIN k.other |-> k.other[j][2]])

\* _schema_signals: every object is met once, under the property it was first taken
\* from the stack with.
Met[v \in Seq(Branch \X (STRING \cup {None})) \X SUBSET SchemaNode] ==
    LET stack == v[1]
        seen == v[2]
        n == Last(stack)[1]
    IN  IF stack = <<>> THEN {}
        ELSE IF n \in seen \cup {None} THEN Met[<<Front(stack), seen>>]
        ELSE {Last(stack)} \cup Met[<<Front(stack) \o Pushed(n, Last(stack)[2]), seen \cup {n}>>]

SchemaSignals(nodes) ==
    LET met == Met[<<[k \in DOMAIN nodes |-> <<nodes[k], None>>], {}>>]
    IN  [labels |-> UNION {{p[1] : p \in ToSet(Schema[m[1]].properties)} : m \in met},
         words |-> UNION {Schema[m[1]].words : m \in {x \in met : x[2] \in ActionProperties}},
         says |-> UNION {Schema[m[1]].says : m \in met}]

----------------------------------------------------------------------------
(* Which properties stand for which capability *)

ShellProperties == {"argv", "cmd", "command", "script", "shell", "shell_command"}
PathProperties == {"base_path", "dir", "directory", "file", "file_path", "filepath", "path",
                   "paths", "root", "source_path"}
WritePayload == {"body", "bytes", "content", "contents", "data", "payload", "text"}
ExplicitWrite == {"destination_path", "output_file", "output_path", "target_path", "write_path"}
ExplicitRead == {"input_file", "input_path", "read_path", "source_file"}
NetworkProperties == {"base_url", "endpoint", "endpoints", "remote_url", "request_url", "webhook_url"}
MailDestination == {"recipient", "recipients", "to"}
MailBody == {"body", "html", "message", "subject", "text"}
Repository == {"repo", "repository", "repository_name", "repository_url"}
Secret == {"secret", "credential", "api_key", "token", "password"}   \* and names made of one
FilesystemMutations == {"create", "delete", "remove", "save", "update", "write"}
GithubMutations == {"create", "delete", "merge", "push", "update"}

Meet(S, T) == S \cap T # {}

WriteLike(s) ==
    \/ Meet(s.labels, ExplicitWrite)
    \/ Meet(s.labels, PathProperties) /\ (Meet(s.labels, WritePayload) \/ Meet(s.words, FilesystemMutations))

\* _schema_property_matches.
PropertyMatches(s) ==
    {i \in CapId :
        \/ i = "shell.execute" /\ Meet(s.labels, ShellProperties)
        \/ i = "secrets.access" /\ Meet(s.labels, Secret)
        \/ i = "filesystem.write" /\ WriteLike(s)
        \/ i = "filesystem.read" /\ (\/ Meet(s.labels, ExplicitRead)
                                     \/ Meet(s.labels, PathProperties) /\ ~WriteLike(s))
        \/ i = "network.external" /\ Meet(s.labels, NetworkProperties)
        \/ i = "email.send" /\ Meet(s.labels, MailDestination)
                            /\ (Meet(s.labels, MailBody) \/ "send" \in s.words)
        \/ i = "github.write" /\ Meet(s.labels, Repository) /\ Meet(s.words, GithubMutations)}

\* infer_capabilities for a tool with the signals s.  by tells what the evidence names:
\* name or description, texts in the schema, properties.
Inferred(t, s) ==
    LET told == NameSays[t.name] \cup t.text.says
        matched == PropertyMatches(s)
    IN  {[id |-> i, tool |-> t.name, source |-> t.source, risk |-> RuleRisk[i],
          scope |-> ScopeForCapability(i, t.text, t.schema),
          adapter |-> t.adapter, by |-> <<i \in told, i \in s.says, i \in matched>>,
          confidence |-> IF i \in told /\ t.adapter # "generic" THEN "medium" ELSE "low"]
             : i \in told \cup s.says \cup matched}

InferCapabilities(tools) ==
    UNION {UNION {Inferred(t, s) : s \in {SchemaSignals(t.schema)}} : t \in tools}

----------------------------------------------------------------------------
(* One scope for all definitions of a tool *)

\* _merged_scope, for the scopes of a capability of a tool in several files.
MergedScope(scopes) ==
    LET values == UNION {s.values : s \in scopes}
        broad == {s \in scopes : s.kind = "broad"}
    IN  IF broad # {} THEN ScopeOf("broad", UNION {s.values : s \in broad}, "one is broad")
        ELSE IF values = {} \/ \E s \in scopes : s.kind = "unknown"
        THEN ScopeOf("unknown", {}, "inconsistent")
        ELSE ScopeOf("restricted", values, "union")

\* reconcile_capability_scopes.
Reconciled(caps) ==
    LET group(c) == {d \in caps : d.id = c.id /\ d.tool = c.tool}
    IN  {IF c.id \in Scoped /\ group(c) # {c}
         THEN [c EXCEPT !.scope = MergedScope({d.scope : d \in group(c)})] ELSE c : c \in caps}

CapabilitiesOf(tools) == Reconciled(InferCapabilities(tools))

\* ScanResult.risk_score: each capability counts once, with its highest risk.
RiskScore(caps) ==
    LET risk(i) == Max({c.risk : c \in {d \in caps : d.id = i}})
        sum == MapThenSumSet(risk, {c.id : c \in caps})
    IN  IF sum > 100 THEN 100 ELSE sum

\* scope_records.
ScopeRecords(caps) ==
    {[capability |-> c.id, tool |-> c.tool, scope |-> c.scope] : c \in {d \in caps : d.id \in Scoped}}

----------------------------------------------------------------------------
(* Paths of capabilities *)

PathRules == {
    [id |-> "secrets_network", required |-> <<"secrets.access", "network.external">>,
     severity |-> "MEDIUM", sensitive |-> {"network.external"}],
    [id |-> "filesystem_email", required |-> <<"filesystem.read", "email.send">>,
     severity |-> "MEDIUM", sensitive |-> {"filesystem.read"}],
    [id |-> "secrets_email", required |-> <<"secrets.access", "email.send">>,
     severity |-> "HIGH", sensitive |-> {}],
    [id |-> "github_shell", required |-> <<"github.write", "shell.execute">>,
     severity |-> "HIGH", sensitive |-> {}]}

With(caps, ids) == {c \in caps : c.id \in ids}
Kinds(caps, ids) == {c.scope.kind : c \in With(caps, ids)}

OnlyBroadIsSevere(rule, caps) ==
    IF "broad" \in Kinds(caps, rule.sensitive) THEN "HIGH" ELSE rule.severity

\* _severity_for_rule: a scope that is not proven restricted counts as broad.
PathSeverity(rule, caps) ==
    IF Kinds(caps, rule.sensitive) \subseteq {"restricted"} THEN rule.severity ELSE "HIGH"

PathConfidence(rule, caps) ==
    IF \/ "unknown" \in Kinds(caps, rule.sensitive)
       \/ \E c \in With(caps, ToSet(rule.required)) : c.confidence = "low" THEN "low"
    ELSE IF \E c \in With(caps, ToSet(rule.required)) : c.confidence = "medium" THEN "medium" ELSE "high"

\* One path of build_capability_graph; evidence is what _path_evidence prints.
PathOf(rule, caps) ==
    LET used == With(caps, ToSet(rule.required))
    IN  [id |-> rule.id, severity |-> PathSeverity(rule, caps), confidence |-> PathConfidence(rule, caps),
         capabilities |-> rule.required, tools |-> {c.tool : c \in used},
         evidence |-> {[capability |-> c.id, tool |-> c.tool, kind |-> c.scope.kind,
                        values |-> c.scope.values, confidence |-> c.confidence] : c \in used}]

Graph(caps) ==
    LET ids == {c.id : c \in caps}
        applied == {rule \in PathRules : ToSet(rule.required) \subseteq ids}
    IN  [nodes |-> {[capability |-> i, tools |-> {c.tool : c \in With(caps, {i})},
                     risk |-> Max({c.risk : c \in With(caps, {i})})] : i \in ids},
         edges |-> {rule.required : rule \in applied},
         paths |-> {PathOf(rule, caps) : rule \in applied}]
=============================================================================
