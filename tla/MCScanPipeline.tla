--------------------------- MODULE MCScanPipeline ---------------------------
(***************************************************************************)
(* Situations of ScanPipeline for TLC, in families, each about one part of    *)
(* the system: trees, schemas, policy folders, and pairs of snapshots.        *)
(***************************************************************************)
EXTENDS ScanPipeline

----------------------------------------------------------------------------
(* Names and literals *)

Tools == {"read", "READ", "fetch", "vault", "mail"}
Fold == [t \in Tools |-> IF t = "READ" THEN "read" ELSE t]
NoNames == {}
Says == "read" :> {"filesystem.read"} @@ "READ" :> {"filesystem.read"} @@ "fetch" :> {"network.external"}
        @@ "vault" :> {"secrets.access"} @@ "mail" :> {"email.send"}

Lit(root, segs) == [dynamic |-> FALSE, root |-> root, segs |-> segs]
A == Lit("/", <<"a">>)           \* /a
AB == Lit("/", <<"a", "b">>)     \* /a/b
AllA == Lit("/", <<"a", "**">>)  \* /a/**
RelA == Lit("", <<"a">>)         \* a
AnyPath == Lit("", <<"**">>)         \* **
Up == Lit("/", <<"..", "a">>)    \* /../a
Dynamic == [A EXCEPT !.dynamic = TRUE]
X == Lit("host", <<"com", "x">>)
SubX == Lit("host", <<"com", "x", "s">>)
WildX == Lit("*.", <<"com", "x">>)
Hosts == {X, SubX, WildX}
Literals == {A, AB, AllA, RelA, AnyPath, Up, Dynamic} \cup Hosts

Values == ({Path[l] : l \in Literals} \cup {Net[l] : l \in Literals} \cup Everything) \ {None}
Places == {[root |-> "/", segs |-> s] : s \in {<<"a">>, <<"a", "b">>, <<"a", "c">>, <<"b">>}}
          \cup {[root |-> "host", segs |-> s] : s \in {<<"com", "x">>, <<"com", "x", "s">>, <<"com", "y">>}}
          \cup {PlaceOf(v) : v \in Values \ Everything}

----------------------------------------------------------------------------
(* Schemas, named by what they say *)

\* A value: its literals, and what joins two other values.
Leaves == {<<"leaf", S>> : S \in {{}, {A}, {AB}, {A, AB}}}
ValuesOver(leaves, leafA, hosts) ==
    leaves \cup {<<k, x, y>> : k \in {"any", "one", "all", "any+", "not", "tuple", "tuple+"}, x \in leaves, y \in leaves}
    \cup {<<"if", leafA, y, z>> : y \in leaves, z \in leaves \cup {None}}
    \cup {<<k, x>> : k \in {"items", "loose"}, x \in leaves}
    \cup {<<"all", <<"any", leafA, <<"leaf", {}>>>>, x>> : x \in leaves}
    \cup {<<"leaf", S>> : S \in {{AnyPath}, {Up}, {Dynamic}, {A, Dynamic}, {AllA}, {RelA}} \cup SUBSET hosts}
    \cup {<<"value loop">>, <<"word", "delete">>, <<"foreign">>}
ValueNodes == ValuesOver(Leaves, <<"leaf", {A}>>, Hosts)

\* An object: a property, and what joins objects.
Sides == {<<"obj", "path", <<"leaf", {A}>>>>, <<"obj", "path", <<"leaf", {}>>>>,
          <<"obj", "mode", <<"leaf", {}>>>>}
Elsewhere == <<"obj", "allowed_path", <<"leaf", {}>>>>   \* no property of filesystem.read
SideKinds == {"any", "one", "all", "not", "dependent", "pattern", "extra", "element", "$defs"}
ObjectsOver(values, leaves, sides, hosts) ==
    sides \cup {<<"obj", "path", x>> : x \in values} \cup {<<k, x, y>> : k \in SideKinds, x \in sides, y \in sides}
    \cup {<<"if", x, y, z>> : x \in sides, y \in sides, z \in sides \cup {None}}
    \cup {<<k, x>> : k \in {"items", "ref"}, x \in sides} \cup {<<"nest", <<"obj", "path", x>>>> : x \in leaves}
    \cup {<<"loop">>, <<"shared">>, <<"write">>, <<"acts">>, Elsewhere}
    \cup {<<"obj", "url", <<"leaf", S>>>> : S \in SUBSET hosts}
ObjectNodes == ObjectsOver(ValueNodes, Leaves, Sides, Hosts)
NodesFrom(values, leaves, sides, hosts) == values \cup ObjectsOver(values, leaves, sides, hosts)
Nodes == NodesFrom(ValueNodes, Leaves, Sides, Hosts)

Empty == [literals |-> {}, words |-> {}, says |-> {}, json |-> TRUE, ref |-> FALSE, list |-> FALSE,
          properties |-> <<>>, items |-> None, allOf |-> <<>>, anyOf |-> <<>>, oneOf |-> <<>>,
          conditional |-> FALSE, if |-> None, then |-> None, else |-> None, not |-> None,
          dependent |-> <<>>, other |-> <<>>]

Keywords(n, empty, leafA) ==
    CASE n[1] = "leaf" -> [empty EXCEPT !.literals = n[2]]
      [] n[1] = "any" -> [empty EXCEPT !.anyOf = <<n[2], n[3]>>]
      [] n[1] = "one" -> [empty EXCEPT !.oneOf = <<n[2], n[3]>>]
      [] n[1] = "all" -> [empty EXCEPT !.allOf = <<n[2], n[3]>>]
      [] n[1] = "any+" -> [empty EXCEPT !.anyOf = <<n[2]>>, !.oneOf = <<n[3]>>]
      [] n[1] = "if" -> [empty EXCEPT !.conditional = TRUE, !.if = n[2], !.then = n[3], !.else = n[4]]
      [] n[1] = "items" -> [empty EXCEPT !.list = TRUE, !.items = n[2]]
      [] n[1] = "loose" -> [empty EXCEPT !.items = n[2]]
      [] n[1] = "tuple" -> [empty EXCEPT !.list = TRUE, !.other = << <<"", n[2]>>, <<"", n[3]>> >>]
      [] n[1] = "tuple+" -> [empty EXCEPT !.list = TRUE, !.items = n[2], !.other = << <<"", n[3]>> >>]
      [] n[1] = "pattern" -> [empty EXCEPT !.allOf = <<n[2]>>, !.other = << <<"path", n[3]>> >>]
      [] n[1] = "extra" -> [empty EXCEPT !.allOf = <<n[2]>>, !.other = << <<"zone", n[3]>> >>]
      [] n[1] = "element" -> [empty EXCEPT !.allOf = <<n[2]>>, !.other = << <<"", n[3]>> >>]
      [] n[1] = "$defs" -> [empty EXCEPT !.allOf = <<n[2]>>, !.other = << <<None, n[3]>> >>]
      [] n[1] = "not" -> [empty EXCEPT !.allOf = <<n[2]>>, !.not = n[3]]
      [] n[1] = "dependent" -> [empty EXCEPT !.allOf = <<n[2]>>, !.dependent = <<n[3]>>]
      [] n[1] = "ref" -> [empty EXCEPT !.allOf = <<n[2]>>, !.ref = TRUE]
      [] n[1] = "obj" -> [empty EXCEPT !.properties = <<<<n[2], n[3]>>>>]
      [] n[1] = "nest" -> [empty EXCEPT !.properties = <<<<"options", n[2]>>>>]
      [] n[1] = "word" -> [empty EXCEPT !.words = {n[2]}]
      [] n[1] = "foreign" -> [empty EXCEPT !.json = FALSE]
      [] n[1] = "loop" -> [empty EXCEPT !.properties = <<<<"path", leafA>>>>, !.allOf = <<n>>]
      [] n[1] = "value loop" -> [empty EXCEPT !.anyOf = <<n, leafA>>]
      [] n[1] = "shared" -> [empty EXCEPT !.properties = << <<"path", leafA>>, <<"target", leafA>> >>]
      [] n[1] = "write" -> [empty EXCEPT !.properties = << <<"path", <<"leaf", {AllA}>>>>, <<"contents", <<"leaf", {}>>>> >>]
      [] n[1] = "acts" -> [empty EXCEPT !.properties = << <<"path", <<"leaf", {AB}>>>>, <<"mode", <<"word", "delete">>>> >>]
Schemas == [n \in Nodes |-> Keywords(n, Empty, <<"leaf", {A}>>)]

----------------------------------------------------------------------------
(* Documents and trees *)

Silent == [says |-> {}, any |-> {}, paths |-> {}, hosts |-> {}]
Plain == [nested |-> FALSE, name |-> "read", text |-> Silent, schemas |-> [k \in SchemaKey |-> None], type |-> "other",
          marks |-> {}, hints |-> {}]
Mcp(name, n) == [Plain EXCEPT !.name = name, !.schemas["inputSchema"] = n]

NoChildren == [o \in Object |-> <<>>]
NoItems == [o \in Object |-> None]

\* A list of tools.
Listing(items) ==
    [root |-> "list", children |-> [NoChildren EXCEPT !["list"] = [k \in DOMAIN items |-> <<"a", "b", "c">>[k]]],
     item |-> [o \in Object |-> CASE o = "a" /\ Len(items) >= 1 -> items[1]
                                  [] o = "b" /\ Len(items) >= 2 -> items[2]
                                  [] o = "c" /\ Len(items) >= 3 -> items[3] [] OTHER -> None]]

Contents(outcome, n, doc) == [parse |-> outcome, size |-> n, doc |-> doc]
Good(doc) == Contents("ok", 1, doc)
Regular == [file |-> TRUE, link |-> FALSE, supported |-> TRUE, ignored |-> FALSE, inside |-> TRUE]

Tree(root, t) == [root |-> root, entries |-> [p \in DOMAIN t |-> Regular], texts |-> t, later |-> <<>>]

Nobody == [tools |-> {}, caps |-> {}, graph |-> Graph({}), policy |-> DefaultPolicy, findings |-> {}]
NoFolder == [f \in PolicyFile |-> Absent]
Alone(t) == [tree |-> t, folder |-> NoFolder, base |-> Payload(Nobody), others |-> Nobody, tampers |-> {}, edits |-> {}]

Tool1 == Mcp("read", <<"obj", "path", <<"leaf", {A}>>>>)
Tool2 == [Plain EXCEPT !.nested = TRUE, !.schemas["parameters"] = <<"obj", "path", <<"leaf", {AB}>>>>]
Tool3 == [Plain EXCEPT !.schemas["args_schema"] = <<"shared">>, !.marks = {"return_direct"},
                       !.text = [Silent EXCEPT !.says = {"email.send"}]]
Tool4 == [Plain EXCEPT !.type = "tool", !.name = "fetch", !.text = [Silent EXCEPT !.hosts = {X}]]
Items == {Tool1, Tool2, Tool3, Tool4, [Tool4 EXCEPT !.name = None], None}

\* Lists of tools, a chain, two parents of one child, and a cycle.
Documents ==
    {Listing(<<i, j>>) : i \in Items, j \in Items}
    \cup {[Listing(<<Tool1, Tool2, Tool3>>) EXCEPT !.children = c] :
            c \in {[NoChildren EXCEPT !["list"] = <<"a">>, !["a"] = <<"b">>, !["b"] = <<"c">>],
                   [NoChildren EXCEPT !["list"] = <<"a", "b">>, !["a"] = <<"b">>],
                   [NoChildren EXCEPT !["list"] = <<"b", "a">>, !["a"] = <<"b">>, !["b"] = <<"a", "list">>],
                   [NoChildren EXCEPT !["list"] = <<"a", "b", "c">>]}}
    \cup {[root |-> None, children |-> NoChildren, item |-> NoItems]}

Small == Good(Listing(<<Tool1>>))
Broken == {[Small EXCEPT !.parse = p] : p \in Parse}
Sized == {[Small EXCEPT !.size = n] : n \in 0..3}
TextsFor == Broken \cup Sized \cup {Gone}
Entries == {Regular, [Regular EXCEPT !.file = FALSE], [Regular EXCEPT !.link = TRUE],
            [Regular EXCEPT !.supported = FALSE], [Regular EXCEPT !.ignored = TRUE],
            [Regular EXCEPT !.inside = FALSE], [Regular EXCEPT !.inside = FALSE, !.ignored = TRUE]}

Trees ==
    {Tree("directory", "p" :> Good(d)) : d \in Documents}
    \cup {Tree("directory", "p" :> x @@ "q" :> y) : x \in TextsFor, y \in TextsFor}
    \cup {[Tree("directory", "p" :> Small @@ "q" :> x) EXCEPT !.entries["q"] = e] : x \in {Small, Gone}, e \in Entries}
    \cup {[Tree("directory", "p" :> Small @@ "q" :> Small @@ "r" :> Small) EXCEPT !.entries["q"] = e] : e \in Entries}
    \cup {Tree("directory", "p" :> Small @@ "q" :> Small @@ "r" :> Small @@ "s" :> Gone)}
    \cup {Tree("document", "p" :> x) : x \in TextsFor}
    \cup {[Tree("document", "p" :> Small) EXCEPT !.entries["p"] = e] : e \in {f \in Entries : f.file /\ f.supported}}
    \cup {Tree(r, <<>>) : r \in Root \ {"document"}}
    \cup {[Tree("directory", "p" :> x @@ "q" :> Small) EXCEPT !.later = "p" :> y] :
            x \in Sized \cup {Good(Listing(<<Tool1, Tool3>>))}, y \in Sized \cup {Gone}}

OfTrees == {Alone(t) : t \in Trees}

----------------------------------------------------------------------------
(* Schemas of one tool, in one definition, in two of a document, and in two documents *)

Pairs == Sides \cup {<<"obj", "path", <<"leaf", {AB}>>>>, <<"shared">>, <<"obj", "path", <<"leaf", {Dynamic}>>>>}
Texts == {[Silent EXCEPT !.paths = {A}], [Silent EXCEPT !.any = {"path"}], [Silent EXCEPT !.hosts = {X}],
          [Silent EXCEPT !.says = {"network.external"}]}

OfSchemas ==
    {Alone(Tree("document", "p" :> Good(Listing(<<Mcp("read", n)>>)))) : n \in ObjectNodes}
    \cup {Alone(Tree("document", "p" :> Good(Listing(<<Mcp("fetch", n)>>)))) :
            n \in {<<"obj", "url", <<"leaf", S>>>> : S \in SUBSET Hosts}}
    \cup {Alone(Tree("document", "p" :> Good(Listing(<<Mcp("read", x), Mcp("read", y)>>)))) : x \in Pairs, y \in Pairs}
    \cup {Alone(Tree("directory", "p" :> Good(Listing(<<Mcp("read", x)>>)) @@ "q" :> Good(Listing(<<Mcp("read", y)>>)))) :
            x \in Pairs, y \in Pairs}
    \cup {Alone(Tree("directory", "p" :> Good(Listing(<<Mcp("mail", Elsewhere)>>)) @@ "q" :> Good(Listing(<<Mcp("mail", y)>>)))) :
            y \in Pairs}
    \cup {Alone(Tree("document", "p" :> Good(Listing(<<[Mcp("read", n) EXCEPT !.text = x]>>)))) : n \in Pairs, x \in Texts}

----------------------------------------------------------------------------
(* Policy folders *)

NoTools == Tree("directory", <<>>)
File(refs, fields) == [link |-> FALSE, inside |-> TRUE, text |-> "ok", size |-> 1, refs |-> refs, fields |-> fields]
To(f) == [absolute |-> FALSE, to |-> f]
Reads == {"filesystem.read"}

Spelled == {"fs", "FS", "net", "odd"}
Unspelled == "fs" :> "filesystem.read" @@ "FS" :> "filesystem.read" @@ "net" :> "network.external" @@ "odd" :> None

Fields == {<<>>, "allow_by_tool" :> ("read" :> {"fs"}), "allow_by_tool" :> ("READ" :> {"net"}),
           "allow_by_tool" :> Null,
           "allow_by_tool" :> ("read" :> {}) @@ "deny" :> {"net"} @@ "max_risk_score" :> 10,
           "deny" :> {"fs"} @@ "allow_by_tool" :> ("fetch" :> Null)}

With3(a, b, c) == "base" :> Absent @@ "main" :> a @@ "left" :> b @@ "right" :> c

\* Chains, a diamond, cycles, and every order of what three files set.
Folders ==
    {With3(File(r1, m), File(r2, l), File(r3, n)) :
        r1 \in {<<To("left"), To("right")>>, <<To("left")>>}, r2 \in {<<>>, <<To("right")>>},
        r3 \in {<<>>}, m \in Fields, l \in Fields, n \in Fields \ {<<>>}}
    \cup {With3(File(r1, <<>>), File(r2, "deny" :> {"fs"}), File(r3, <<>>)) :
            r1 \in {<<To("main")>>, <<To("right"), To("left")>>, <<To("left"), To("left")>>, Bad,
                    <<[absolute |-> TRUE, to |-> "left"]>>, <<To("base")>>},
            r2 \in {<<To("right")>>, <<To("main")>>}, r3 \in {<<>>, <<To("left")>>}}
    \cup {With3(File(r, m), File(<<>>, "allow_by_tool" :> ("read" :> {"fs"})), File(<<>>, "allow_by_tool" :> Bad)) :
            r \in {<<To("left"), To("right")>>, <<To("right"), To("left")>>},
            m \in {<<>>, "allow_by_tool" :> ("fetch" :> {"net"})}}

Chain(d) ==
    "main" :> File(<<To("left")>>, <<>>) @@ "left" :> File(<<To("right")>>, <<>>)
    @@ "right" :> File(<<To("base")>>, <<>>) @@ "base" :> d
Wide(d) == [Chain(d) EXCEPT !["main"].refs = <<To("left"), To("base")>>, !["right"].refs = <<>>]
Odd == {Absent} \cup {File(<<>>, <<>>)} \cup {[File(<<>>, <<>>) EXCEPT !.link = TRUE], [File(<<>>, <<>>) EXCEPT !.inside = FALSE]}
    \cup {[File(<<>>, <<>>) EXCEPT !.text = x] : x \in Text} \cup {[File(<<>>, <<>>) EXCEPT !.size = n] : n \in 0..5}

Except(rule, cap, tool, last) == [rule |-> rule, cap |-> cap, tool |-> tool, expires |-> last]
Alternatives == {
    "deny" :> Bad, "deny" :> Null, "deny" :> {"odd"}, "deny" :> {"fs", "FS"},
    "require_review" :> {"net"}, "require_review" :> Bad,
    "max_risk_score" :> 0, "max_risk_score" :> 100, "max_risk_score" :> 101,
    "unknown_scope" :> "deny", "unknown_scope" :> Bad,
    "scope_constraints" :> ("fs" :> [kinds |-> {"restricted"}, values |-> {}]),
    "scope_constraints" :> ("fs" :> [kinds |-> {"restricted"}, values |-> {}] @@ "FS" :> [kinds |-> {"broad"}, values |-> {}]),
    "scope_constraints" :> ("fs" :> Bad), "scope_constraints" :> ("fs" :> Null),
    "trust_boundaries" :> ("read" :> Null), "trust_boundaries" :> ("read" :> "note"),
    "trust_boundaries" :> ("read" :> "note" @@ "READ" :> "note"), "trust_boundaries" :> Null,
    "allow_by_tool" :> Bad, "allow_by_tool" :> ("read" :> Bad),
    "suppressions" :> <<Except("capability.denied", None, None, 1)>>,
    "suppressions" :> <<Except("capability.denied", None, None, 0)>>,
    "suppressions" :> <<Except("capability.denied", "fs", "read", 1), Except("capability.denied", "FS", "READ", 2)>>,
    "suppressions" :> <<Except("capability.denied", "odd", None, 1)>>, "suppressions" :> <<Bad>>,
    "suppressions" :> Bad, "suppressions" :> Null}

OfFolders ==
    {[Alone(NoTools) EXCEPT !.folder = d] :
        d \in Folders \cup {Chain(x) : x \in Odd} \cup {Wide(x) : x \in Odd}
             \cup {With3(File(<<>>, a), Absent, Absent) : a \in Alternatives}
             \cup {With3(File(<<To("left")>>, <<>>), File(<<>>, a), Absent) : a \in Alternatives}
             \cup {With3(File(<<To("left")>>, a), File(<<>>, "scope_constraints" :> ("net" :> [kinds |-> {"broad"}, values |-> {}])), Absent)
                     : a \in Alternatives}
             \cup {With3([File(<<>>, <<>>) EXCEPT !.text = x], Absent, Absent) : x \in Text}}

----------------------------------------------------------------------------
(* Pairs of scans, and what is done to the second one's result and file *)

Reader(S) == Mcp("read", <<"obj", "path", <<"leaf", S>>>>)
Fetcher(S) == Mcp("fetch", <<"obj", "url", <<"leaf", S>>>>)
Vault == [Plain EXCEPT !.name = "vault", !.type = "tool"]
Mail == [Plain EXCEPT !.name = "mail", !.type = "tool"]
SecretFetcher(S) == [Fetcher(S) EXCEPT !.text = [Silent EXCEPT !.says = {"secrets.access"}]]

Inventories == {
    <<Reader({A, AB})>>, <<Reader({AllA})>>, <<Reader({AnyPath})>>,
    <<Reader({A}), Mail>>, <<Reader({}), Mail>>, <<Vault, Fetcher({WildX})>>,
    <<Vault, Fetcher({SubX, X})>>, <<Vault, Fetcher({})>>, <<SecretFetcher({X})>>,
    <<Vault, SecretFetcher({X}), Mail>>, <<Mcp("read", <<"write">>), Mcp("READ", <<"acts">>)>>}

DenyReads == With3(File(<<>>, "deny" :> {"fs"}), Absent, Absent)
TreeOf(items) == Tree("document", "p" :> Good(Listing(items)))

\* The one result of scanning a document with these tools, without a policy.
Results(items) ==
    UNION {{[tools |-> t, caps |-> c, graph |-> Graph(c), policy |-> DefaultPolicy,
             findings |-> FindingsOf(c, DefaultPolicy)] : c \in {CapabilitiesOf(t)}}
              : t \in {Grouped([k \in DOMAIN items |-> ToolFrom(items[k], "p")])}}

Compared(S, p, parts, how) ==
    {[Alone(TreeOf(items)) EXCEPT !.folder = p, !.base = Payload(r), !.others = r,
                                  !.tampers = parts, !.edits = how]
        : items \in S, r \in UNION {Results(a) : a \in S}}
Forged == {<<>>, <<Reader({A})>>, <<Reader({AllA})>>, <<Vault, Fetcher({X})>>, <<Vault, Fetcher({})>>}
OfPairs == Compared(Inventories, NoFolder, {}, {}) \cup Compared(Forged, DenyReads, Part, Editing)

\* A result whose findings are set to null in the file, and a directory with one document that
\* is no tool definition.
OfNull == Compared({<<Reader({A})>>}, NoFolder, {}, {<<"nullify", "findings">>})
OfMalformed == {Alone(Tree("directory", "p" :> Small @@ "q" :> [Small EXCEPT !.parse = p])) : p \in Parse}

Situations == OfTrees \cup OfSchemas \cup OfFolders \cup OfPairs
=============================================================================
