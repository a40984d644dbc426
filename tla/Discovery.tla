----------------------------- MODULE Discovery -----------------------------
(***************************************************************************)
(* discover_tools of src/agentcapdiff/discovery.py: the traversal of a tree, *)
(* one action per file system call and per object visited, with its limits    *)
(* and with documents that change under it.                                  *)
(***************************************************************************)
EXTENDS Capabilities

CONSTANTS Object,   \* the dicts and lists of documents
          Gone,     \* there is no such file any more
          MaxEntries, MaxDocuments, MaxFileBytes, MaxTotalBytes, MaxDepth, MaxNodes

\* A parsed document: its dicts and lists, the children of each in order, and what the
\* dicts say of tools.  YAML anchors let a child be shared, or be an ancestor.
Document ==
    [root : Object \cup {None}, children : [Object -> Seq(Object)], item : [Object -> Item \cup {None}]]

\* parse is what becomes of the text: a document, duplicate keys, not UTF-8, JSON or YAML, too
\* deep for the parser, or another ValueError (a number of too many digits).
Parse == {"ok", "duplicate", "malformed", "recursion", "valueError"}

\* A directory entry: link to something, a supported suffix, below an ignored
\* directory, inside the root once resolved.
Entry == [file : BOOLEAN, link : BOOLEAN, supported : BOOLEAN, ignored : BOOLEAN, inside : BOOLEAN]

Root == {"missing", "directory", "linked directory", "document", "other file", "special"}

\* texts are the files a traversal may open, later what some of them become meanwhile.
IsText(t) ==
    t = Gone \/ (t.size \in Nat /\ t.parse \in Parse /\ t.doc \in Document)
IsTree(t) ==
    /\ DOMAIN t = {"root", "entries", "texts", "later"} /\ t.root \in Root
    /\ DOMAIN t.entries = DOMAIN t.texts /\ DOMAIN t.later \subseteq DOMAIN t.texts
    /\ DOMAIN t.entries \subseteq Source /\ IsFiniteSet(DOMAIN t.entries)
    /\ \A p \in DOMAIN t.entries : t.entries[p] \in Entry
    /\ \A p \in DOMAIN t.texts : IsText(t.texts[p])
    /\ \A p \in DOMAIN t.later : IsText(t.later[p])

ASSUME DiscoveryAssumption ==
    /\ None \notin Object /\ IsFiniteSet(Object)
    /\ \A m \in {MaxEntries, MaxDocuments, MaxFileBytes, MaxTotalBytes, MaxDepth, MaxNodes} : m \in Nat

VARIABLES tree,       \* what is scanned: root, entries, texts, and texts that may come later
          texts,      \* texts[p]: what the file p holds now, or Gone
          discovery,  \* where discover_tools is
          pending,    \* entries the traversal has not yielded
          entries, documents, total, \* its counters
          current,    \* the document in hand
          size,       \* its size when it was looked up
          stack, visited, \* _walk: objects to visit with their depth, and those met
          found,      \* tools found, in order
          read,       \* history: documents parsed and walked, with their sizes then
          tools       \* the result

discoveryVars ==
    <<tree, texts, discovery, pending, entries, documents, total, current, size, stack, visited,
      found, read, tools>>

Explicit == tree.root = "document"

DiscoveryInit(t) ==
    /\ tree = t /\ texts = t.texts /\ discovery = "start"
    /\ pending = {} /\ entries = 0 /\ documents = 0 /\ total = 0
    /\ current = None /\ size = 0 /\ stack = <<>> /\ visited = {} /\ found = <<>>
    /\ read = {} /\ tools = {}

GoOn(where) ==
    /\ discovery' = where
    /\ UNCHANGED <<tree, texts, pending, entries, documents, total, current, size, stack, visited,
                   found, read, tools>>
GiveUp(from) == discovery = from /\ GoOn("failed")

\* The checks of the root, and of an explicit file's suffix.
StartDiscovery ==
    \/ tree.root \in {"missing", "linked directory", "other file", "special"} /\ GiveUp("start")
    \/ /\ discovery = "start" /\ tree.root \in {"directory", "document"}
       /\ discovery' = "list" /\ pending' = DOMAIN tree.entries
       /\ UNCHANGED <<tree, texts, entries, documents, total, current, size, stack, visited,
                      found, read, tools>>

Skipped(e) == ~e.file \/ ~e.supported \/ (e.inside /\ e.ignored)

\* The next entry the traversal yields, in the order of the file system: any.
Yield(p) ==
    LET e == tree.entries[p]
    IN  /\ discovery = "list" /\ p \in pending
        /\ pending' = pending \ {p} /\ entries' = entries + 1
        /\ documents' = IF Skipped(e) \/ ~e.inside THEN documents ELSE documents + 1
        /\ discovery' = IF \/ ~Explicit /\ entries' > MaxEntries
                           \/ ~Skipped(e) /\ (~e.inside \/ documents' > MaxDocuments)
                        THEN "failed"
                        ELSE IF Skipped(e) THEN "list" ELSE "stat"
        /\ current' = p
        /\ UNCHANGED <<tree, texts, total, size, stack, visited, found, read, tools>>

SkipAnyDocument == GoOn("list")
RetryDocument == GoOn(discovery)

\* A document that is gone or unreadable is skipped, unless it was named explicitly.
SkipDocument == GoOn(IF Explicit THEN "failed" ELSE "list")

\* _read, up to the size of the file.
Stat ==
    /\ discovery = "stat"
    /\ IF ~tree.entries[current].link /\ texts[current] = Gone THEN SkipDocument
       ELSE /\ discovery' = IF tree.entries[current].link \/ texts[current].size > MaxFileBytes
                            THEN "failed" ELSE "read"
            /\ size' = IF tree.entries[current].link THEN size ELSE texts[current].size
            /\ UNCHANGED <<tree, texts, pending, entries, documents, total, current, stack,
                           visited, found, read, tools>>

OverBefore == total > MaxTotalBytes
OverTotal == total + size > MaxTotalBytes

\* The rest of _read and the total: what is read may differ from what was measured.
Read ==
    LET text == texts[current]
    IN  /\ discovery = "read"
        /\ IF text = Gone THEN SkipDocument
           ELSE IF text.parse = "malformed" THEN SkipDocument
           ELSE IF text.parse # "ok" THEN GiveUp("read")
           ELSE /\ total' = total + size
                /\ discovery' = IF OverTotal THEN "failed" ELSE "walk"
                /\ stack' = IF text.doc.root = None THEN <<>> ELSE <<<<text.doc.root, 0>>>>
                /\ visited' = {}
                /\ read' = IF OverTotal THEN read
                           ELSE read \cup {[path |-> current, text |-> text, measured |-> size]}
                /\ UNCHANGED <<tree, texts, pending, entries, documents, current, size, found, tools>>

Parsed == CHOOSE r \in read : r.path = current

\* One round of the loop of _walk.
Visit ==
    LET object == Last(stack)[1]
        depth == Last(stack)[2]
        doc == Parsed.text.doc
        children == doc.children[object]
    IN  /\ discovery = "walk" /\ stack # <<>>
        /\ IF depth > MaxDepth \/ (object \notin visited /\ Cardinality(visited) = MaxNodes)
           THEN GiveUp("walk")
           ELSE /\ IF object \in visited
                   THEN stack' = Front(stack) /\ UNCHANGED <<visited, found>>
                   ELSE /\ visited' = visited \cup {object}
                        /\ stack' = Front(stack) \o [k \in DOMAIN children |-> <<children[k], depth + 1>>]
                        /\ found' = IF Recognised(doc.item[object])
                                    THEN Append(found, ToolFrom(doc.item[object], current)) ELSE found
                /\ UNCHANGED <<tree, texts, discovery, pending, entries, documents, total, current,
                               size, read, tools>>

EndOfDocument == discovery = "walk" /\ stack = <<>> /\ GoOn("list")

FinishDiscovery ==
    /\ discovery = "list" /\ pending = {} /\ discovery' = "found"
    /\ tools' = Grouped(found)
    /\ UNCHANGED <<tree, texts, pending, entries, documents, total, current, size, stack, visited,
                   found, read>>

\* Somebody rewrites or removes a document meanwhile.
ChangeText(p) ==
    /\ discovery \in {"list", "stat", "read", "walk"} /\ texts[p] # tree.later[p]
    /\ texts' = [texts EXCEPT ![p] = tree.later[p]]
    /\ UNCHANGED <<tree, discovery, pending, entries, documents, total, current, size, stack,
                   visited, found, read, tools>>

Discover ==
    \/ StartDiscovery \/ Stat \/ Read \/ Visit \/ EndOfDocument \/ FinishDiscovery
    \/ \E p \in pending : Yield(p)

----------------------------------------------------------------------------
(* Properties *)

Changed == texts # tree.texts

\* The files whose text the traversal looks at.
Candidates == {p \in DOMAIN tree.entries : ~Skipped(tree.entries[p])}

\* The objects of a document: those in every set that holds the root and the children of
\* its members.
Reachable(doc) ==
    {o \in Object : \A S \in SUBSET Object :
        ({doc.root} \ {None}) \cup UNION {ToSet(doc.children[p]) : p \in S} \subseteq S => o \in S}

\* The tools a document defines, one by one.
Definitions(p) ==
    LET doc == tree.texts[p].doc
    IN  {ToolFrom(i, p) : i \in {j \in {doc.item[o] : o \in Reachable(doc)} : Recognised(j)}}

ParsesWell(p) == tree.texts[p] # Gone /\ tree.texts[p].parse = "ok"

\* t says what all the definitions of one tool say.
Joins(t, defined) ==
    /\ ToSet(t.schema) = UNION {ToSet(d.schema) : d \in defined}
    /\ t.text = JoinedText({d.text : d \in defined})
    /\ \E d \in defined :
          t.adapter = IF {e.adapter : e \in defined} = {d.adapter} THEN d.adapter ELSE "generic"

\* discover_tools finds what the documents define: each name once per file, with
\* every schema and text given for it there, whatever the order of the traversal, the
\* sharing inside a document, or the number of files that are not documents.
FindsWhatIsThere ==
    discovery = "found" /\ ~Changed =>
        /\ \A p \in Candidates : ParsesWell(p) =>
              \A n \in Tool :
                  LET defined == {d \in Definitions(p) : d.name = n}
                      result == {t \in tools : t.name = n /\ t.source = p}
                  IN  IF defined = {} THEN result = {} ELSE \E t \in result : result = {t} /\ Joins(t, defined)
        /\ \A t \in tools : t.source \in Candidates /\ ParsesWell(t.source)

\* A way of k steps from the root that passes no object twice on the way.
HasWay(doc, k) ==
    \E way \in [0..k -> Object] :
        /\ way[0] = doc.root
        /\ \A j \in 0..(k - 1) : way[j + 1] \in ToSet(doc.children[way[j]])
        /\ \A i, j \in 0..(k - 1) : way[i] = way[j] => i = j

\* The bytes of the files P, and of documents read.
BytesOf(P) == UNION {{p} \X (1..tree.texts[p].size) : p \in P}
BytesRead(R) == UNION {{r} \X (1..r.text.size) : r \in R}

\* Reasons to refuse the tree, none of which depends on the order of the traversal.
Refusable ==
    \/ tree.root \notin {"directory", "document"}
    \/ ~Explicit /\ Cardinality(DOMAIN tree.entries) > MaxEntries
    \/ Cardinality(Candidates) > MaxDocuments
    \/ \E p \in Candidates :
          LET e == tree.entries[p]
              text == tree.texts[p]
          IN  \/ ~e.inside \/ e.link
              \/ text = Gone /\ Explicit
              \/ /\ text # Gone
                 /\ \/ text.size > MaxFileBytes
                    \/ text.parse \in {"duplicate", "recursion"}
                    \/ text.parse \in {"malformed", "valueError"} /\ Explicit
                    \/ text.parse = "ok" /\ Cardinality(Reachable(text.doc)) > MaxNodes
    \/ Cardinality(BytesOf({p \in Candidates : ParsesWell(p)})) > MaxTotalBytes

\* The nesting of objects that are shared may count along any of the ways to them.
MayBeTooDeep == \E p \in Candidates : ParsesWell(p) /\ HasWay(tree.texts[p].doc, MaxDepth + 1)

\* The comment at discovery.py:284: malformed documents inside a directory are tolerated "so
\* unrelated repository data cannot make an otherwise valid directory scan unusable".
MalformedIsTolerated == discovery = "failed" /\ ~Changed => Refusable \/ MayBeTooDeep

\* Where that fails: the parser of a document in a directory raises a ValueError that is no
\* decoding error.
Untolerated == \E p \in Candidates : tree.texts[p] # Gone /\ tree.texts[p].parse = "valueError"

\* A scan is refused for a reason that lies in the tree, and a reason is never
\* missed, in whatever order the files come; the one exception, which is no reason, is
\* Untolerated.
StopsForCause ==
    ~Changed =>
        /\ discovery = "found" => ~Refusable
        /\ discovery = "failed" => Refusable \/ MayBeTooDeep \/ Untolerated

\* The limits bound the work on a tree that changes too: of documents that kept their size
\* while they were read no more bytes are walked than the limits say, and no walk
\* reports more tools than it may visit objects.
ParsesWithinBudget ==
    LET steady == {r \in read : r.text.size = r.measured}
    IN  /\ \A r \in steady : r.text.size <= MaxFileBytes
        /\ Cardinality(BytesRead(steady)) <= MaxTotalBytes
        /\ Cardinality(read) <= MaxDocuments
        /\ Len(found) <= MaxNodes * Cardinality(read)
=============================================================================
