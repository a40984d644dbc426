------------------------------- MODULE Tools -------------------------------
(***************************************************************************)
(* src/agentcapdiff/discovery.py: which objects of a document are tools, of   *)
(* which framework, and how the definitions of one tool in one file are       *)
(* joined.                                                                   *)
(***************************************************************************)
EXTENDS Scopes

CONSTANT Source   \* the paths of documents

Adapter == {"openai", "openai-agents", "mcp", "claude", "crewai", "langgraph", "langchain", "generic"}

\* A tool found in source; schema is its input_schema: nothing, one object, or several
\* below an allOf.
ToolRecord == [name : Tool, text : Description, source : Source, schema : Seq(SchemaNode),
               adapter : Adapter]

\* An object of a document, as far as discovery looks at it: nested tells that name, text and
\* parameters are those of its "function"; schemas are its keys that hold an object;
\* marks its other keys; hints the frameworks its framework and id strings name.
SchemaKey == {"params_json_schema", "parameters", "inputSchema", "input_schema",
              "args_schema", "tool_call_schema"}
Item == [nested : BOOLEAN, name : Tool \cup {None}, text : Description,
         schemas : [SchemaKey -> SchemaNode \cup {None}],
         type : {"function", "tool", "other"},
         marks : SUBSET {"result_as_answer", "return_direct", "response_format"},
         hints : SUBSET {"crewai", "langchain", "langgraph"}]

LangChain(i) == IF "langgraph" \in i.hints THEN "langgraph" ELSE "langchain"

\* The shapes _tool_from_mapping looks for, in its order: whether the object has
\* it, the key that then holds the schema, and the adapter.
Shapes(i) ==
    LET has(key) == i.schemas[key] # None
    IN  << <<i.nested, "parameters", "openai">>,
           <<has("params_json_schema"), "params_json_schema", "openai-agents">>,
           <<has("parameters") /\ i.type = "function", "parameters", "openai">>,
           <<has("inputSchema"), "inputSchema", "mcp">>,
           <<has("input_schema"), "input_schema", "claude">>,
           <<has("args_schema") /\ ("crewai" \in i.hints \/ "result_as_answer" \in i.marks),
             "args_schema", "crewai">>,
           <<has("tool_call_schema"), "tool_call_schema", LangChain(i)>>,
           <<has("args_schema") /\ (\/ i.hints \cap {"langchain", "langgraph"} # {}
                                    \/ i.marks \cap {"return_direct", "response_format"} # {}),
             "args_schema", LangChain(i)>>,
           <<has("args_schema"), "args_schema", "generic">>,
           <<i.type = "tool", "none", "generic">> >>

Recognised(i) == i # None /\ i.name # None /\ \E k \in DOMAIN Shapes(i) : Shapes(i)[k][1]

\* _tool_from_mapping.
ToolFrom(i, source) ==
    LET shape == Shapes(i)[CHOOSE k \in DOMAIN Shapes(i) :
                     Shapes(i)[k][1] /\ \A j \in 1..(k - 1) : ~Shapes(i)[j][1]]
    IN  [name |-> i.name, text |-> i.text, source |-> source, adapter |-> shape[3],
         schema |-> IF shape[2] = "none" \/ i.schemas[shape[2]] = None THEN <<>> ELSE <<i.schemas[shape[2]]>>]

\* What descriptions joined by " | " match: what one of them does.
JoinedText(T) ==
    [says |-> UNION {t.says : t \in T}, any |-> UNION {t.any : t \in T},
     paths |-> UNION {t.paths : t \in T}, hosts |-> UNION {t.hosts : t \in T}]

\* Definitions of one tool are told by their places in found, the list of what was found.
First(K) == CHOOSE k \in K : \A j \in K : k <= j

\* The schemas of the definitions at the places K, in their order, each object once.
SchemasOf(found, K) ==
    LET upTo[k \in 0..Len(found)] ==
            IF k = 0 THEN <<>>
            ELSE IF k \in K /\ ~(ToSet(found[k].schema) \subseteq ToSet(upTo[k - 1]))
            THEN upTo[k - 1] \o found[k].schema ELSE upTo[k - 1]
    IN  upTo[Len(found)]

JoinFirst(found, K) == found[First(K)]

\* _merge_tool_records: definitions of one name in one file, in the order found.
Merged(found, K) ==
    LET first == found[First(K)]
    IN  [name |-> first.name, source |-> first.source, schema |-> SchemasOf(found, K),
         text |-> JoinedText({found[k].text : k \in K}),
         adapter |-> IF \A k \in K : found[k].adapter = first.adapter THEN first.adapter ELSE "generic"]

\* The end of discover_tools.  The final order is left out: nothing looks at it.
SameTool(found, j) == {k \in DOMAIN found : found[k].name = found[j].name /\ found[k].source = found[j].source}
Grouped(found) == {Merged(found, SameTool(found, j)) : j \in DOMAIN found}
=============================================================================
