----------------------------- MODULE PolicyLoad -----------------------------
(***************************************************************************)
(* load_policy of src/agentcapdiff/policy.py: a policy file and the files it *)
(* extends, read depth first with budgets, merged, and checked at the end.    *)
(* The recursion of _load_raw_policy is a stack of frames.                    *)
(***************************************************************************)
EXTENDS PolicyRules, SequencesExt, TLC

CONSTANTS PolicyFile, RootPolicy, \* policy files, and the one that is loaded
          CapSpelling, CapOf,     \* spellings of capabilities; CapOf[c]: what c folds to, or None
          Absent,                 \* there is no such file
          Null, Bad,              \* YAML null; a value of the wrong type or out of range
          Today,
          MaxPolicyFiles, MaxPolicyFileBytes, MaxPolicyTotalBytes, MaxInheritance

ASSUME PolicyLoadAssumption ==
    /\ RootPolicy \in PolicyFile /\ IsFiniteSet(PolicyFile)
    /\ CapOf \in [CapSpelling -> CapId \cup {None}]
    /\ \A m \in {MaxPolicyFiles, MaxPolicyFileBytes, MaxPolicyTotalBytes, MaxInheritance, Today} :
          m \in Nat

MappingFields == {"allow_by_tool", "scope_constraints", "trust_boundaries"}
FieldName == {"deny", "require_review", "max_risk_score", "unknown_scope", "suppressions"} \cup MappingFields

Selector == Tool \cup CapSpelling

\* What a file may set a field to, besides Null and Bad; a mapping is from names as spelled.
CapList == SUBSET CapSpelling
IsMappingTo(S, names, v) == \E D \in SUBSET names : v \in [D -> S \cup {Null, Bad}]
RawSuppression == [rule : Rule, cap : CapSpelling \cup {None}, tool : Tool \cup {None}, expires : Nat]
IsSetting(k, v) ==
    CASE k \in {"deny", "require_review"} -> v \in CapList
      [] k = "max_risk_score" -> v \in Nat
      [] k = "unknown_scope" -> v \in {"deny", "review", "ignore"}
      [] k = "suppressions" -> v \in Seq(RawSuppression \cup {Bad})
      [] k = "allow_by_tool" -> IsMappingTo(CapList, Tool, v)
      [] k = "scope_constraints" -> IsMappingTo(Constraint, CapSpelling, v)
      [] k = "trust_boundaries" -> IsMappingTo({"note"}, Tool, v)

ASSUME MappingAssumption ==
    None \notin PolicyFile /\ \A k \in MappingFields : \A v \in {Null, Bad} : ~IsSetting(k, v)

\* What a policy file holds: fields is a function on the fields it sets.
AreFields(fields) ==
    DOMAIN fields \subseteq FieldName /\ \A k \in DOMAIN fields : fields[k] \in {Null, Bad} \/ IsSetting(k, fields[k])
Ref == [absolute : BOOLEAN, to : PolicyFile]
Text == {"ok", "unreadable", "malformed"}

DefaultPolicy == [deny |-> {}, review |-> {}, maxRisk |-> 60, allow |-> <<>>, constraints |-> <<>>,
                  unknown |-> "review", trust |-> {}, suppressions |-> {}]

VARIABLES folder,    \* folder[f]: the file f, or Absent
          loading,   \* where load_policy is
          target,    \* the file to enter next
          frames,    \* active calls of _load_raw_policy
          filesRead, bytesRead, \* _PolicyBudget
          raw,       \* the merged mapping
          sources,   \* the files merged, in order
          policy     \* the result

loadVars == <<folder, loading, target, frames, filesRead, bytesRead, raw, sources, policy>>

LoadInit(d) ==
    /\ folder = d /\ loading = "start" /\ target = RootPolicy /\ frames = <<>>
    /\ filesRead = 0 /\ bytesRead = 0 /\ raw = <<>> /\ sources = <<>> /\ policy = DefaultPolicy

----------------------------------------------------------------------------
(* Merging and checking *)

IsMapping(v) == v \notin {Null, Bad}

\* dict.update.
Update(base, override) ==
    [x \in DOMAIN base \cup DOMAIN override |-> IF x \in DOMAIN override THEN override[x] ELSE base[x]]
ReplaceWhole(base, override) == Update(base, override)

\* _merge_raw_policy: mappings are joined key by key, all else is replaced.
MergeRaw(base, override) ==
    [k \in DOMAIN base \cup DOMAIN override |->
        IF k \notin DOMAIN override THEN base[k]
        ELSE IF /\ k \in MappingFields \cap DOMAIN base
                /\ IsMapping(base[k]) /\ IsMapping(override[k])
        THEN Update(base[k], override[k]) ELSE override[k]]

Get(fields, k, default) == IF k \in DOMAIN fields THEN fields[k] ELSE default

\* Selectors fold to different identities, each to one.
Distinct(S, fold) ==
    \A s \in S : fold[s] # None /\ \A t \in S : fold[s] = fold[t] => s = t
Selectable(S, fold) == \A s \in S : fold[s] # None

GoodCaps(v) == v = Null \/ (v # Bad /\ \A c \in v : CapOf[c] # None)
CapSetAsSpelled(v) == IF v = Null THEN {} ELSE v
CapSet(v) == IF v = Null THEN {} ELSE {CapOf[c] : c \in v}

\* A mapping from spelled selectors, by the identities they fold to.
Folded(v, fold, value(_)) ==
    IF v = Null THEN <<>>
    ELSE [i \in {fold[s] : s \in DOMAIN v} |-> value(v[CHOOSE s \in DOMAIN v : fold[s] = i])]

FoldOptional(s, fold) == IF s = None THEN None ELSE fold[s]
Canonical(s) == [rule |-> s.rule, cap |-> FoldOptional(s.cap, CapOf),
                 tool |-> FoldOptional(s.tool, IdentityOf), expires |-> s.expires]

GoodSuppressions(v) ==
    v = Null \/
    /\ v # Bad
    /\ \A k \in DOMAIN v :
          /\ v[k] # Bad /\ v[k].expires >= Today
          /\ v[k].cap # None => CapOf[v[k].cap] # None
          /\ v[k].tool # None => IdentityOf[v[k].tool] # None
    /\ \A j, k \in DOMAIN v : SelectorOf(Canonical(v[j])) = SelectorOf(Canonical(v[k])) => j = k

\* load_policy accepts the merged mapping; any other outcome is a ValueError.
ValidWith(fields, separate(_, _)) ==
    LET mapping(k, fold, good(_)) ==
            LET v == Get(fields, k, Null)
            IN  v = Null \/ (v # Bad /\ separate(DOMAIN v, fold) /\ \A s \in DOMAIN v : good(v[s]))
    IN  /\ Get(fields, "unknown_scope", "review") \in {"deny", "review", "ignore"}
        /\ GoodCaps(Get(fields, "deny", {})) /\ GoodCaps(Get(fields, "require_review", {}))
        /\ Get(fields, "max_risk_score", 60) \in 0..100
        /\ mapping("allow_by_tool", IdentityOf, GoodCaps)
        /\ mapping("scope_constraints", CapOf, LAMBDA v : v \notin {Null, Bad})
        /\ mapping("trust_boundaries", IdentityOf, LAMBDA v : v \notin {Null, Bad})
        /\ GoodSuppressions(Get(fields, "suppressions", Null))
ValidAnySpelling(fields) == ValidWith(fields, Selectable)
Valid(fields) == ValidWith(fields, Distinct)

PolicyOf(fields) ==
    [deny |-> CapSet(Get(fields, "deny", {})), review |-> CapSet(Get(fields, "require_review", {})),
     maxRisk |-> Get(fields, "max_risk_score", 60),
     unknown |-> Get(fields, "unknown_scope", "review"),
     allow |-> Folded(Get(fields, "allow_by_tool", Null), IdentityOf, CapSet),
     constraints |-> Folded(Get(fields, "scope_constraints", Null), CapOf, LAMBDA v : v),
     trust |-> DOMAIN Folded(Get(fields, "trust_boundaries", Null), IdentityOf, LAMBDA v : v),
     suppressions |-> LET v == Get(fields, "suppressions", Null)
                      IN  IF v = Null THEN {} ELSE {Canonical(v[k]) : k \in DOMAIN v}]

----------------------------------------------------------------------------
(* Steps *)

RejectPolicy ==
    /\ loading' = "failed"
    /\ UNCHANGED <<folder, target, frames, filesRead, bytesRead, raw, sources, policy>>

\* A file that does not exist stands for the built-in defaults.
BeginLoad ==
    /\ loading = "start"
    /\ loading' = IF folder[RootPolicy] = Absent THEN "loaded" ELSE "enter"
    /\ UNCHANGED <<folder, target, frames, filesRead, bytesRead, raw, sources, policy>>

InProgress == {frames[k].path : k \in DOMAIN frames}

\* _load_raw_policy, up to its reading of the file.
Enter ==
    /\ loading = "enter"
    /\ IF \/ folder[target] = Absent \/ folder[target].link \/ ~folder[target].inside
          \/ target \in InProgress \/ Len(frames) >= MaxInheritance
       THEN RejectPolicy
       ELSE /\ loading' = "read"
            /\ UNCHANGED <<folder, target, frames, filesRead, bytesRead, raw, sources, policy>>

FreshFrame(f) == [path |-> f, refs |-> folder[f].refs, merged |-> <<>>, sources |-> <<>>]

\* _read_policy_mapping, given that the total stays within its limit, and the type of extends.
ReadWithin(withinTotal) ==
    LET file == folder[target]
    IN  /\ loading = "read"
        /\ IF \/ filesRead = MaxPolicyFiles \/ file.text # "ok" \/ file.size > MaxPolicyFileBytes
              \/ ~withinTotal \/ file.refs = Bad
           THEN RejectPolicy
           ELSE /\ loading' = "loop"
                /\ filesRead' = filesRead + 1 /\ bytesRead' = bytesRead + file.size
                /\ frames' = Append(frames, FreshFrame(target))
                /\ UNCHANGED <<folder, target, raw, sources, policy>>
ReadBeforeAdding == ReadWithin(bytesRead <= MaxPolicyTotalBytes)
ReadPolicy == ReadWithin(bytesRead + folder[target].size <= MaxPolicyTotalBytes)

Top == Last(frames)

\* The loop over extends: the next file to inherit from.
Inherit ==
    /\ loading = "loop" /\ Top.refs # <<>>
    /\ IF Head(Top.refs).absolute THEN RejectPolicy
       ELSE /\ loading' = "enter" /\ target' = Head(Top.refs).to
            /\ frames' = [frames EXCEPT ![Len(frames)].refs = Tail(@)]
            /\ UNCHANGED <<folder, filesRead, bytesRead, raw, sources, policy>>

\* Sources that are not listed yet are appended.
AddSources(s, more) ==
    LET upTo[k \in 0..Len(more)] ==
            IF k = 0 THEN s
            ELSE IF more[k] \in ToSet(upTo[k - 1]) THEN upTo[k - 1] ELSE Append(upTo[k - 1], more[k])
    IN  upTo[Len(more)]

\* The end of the loop: the file's own fields come last; its caller merges the result.
ReturnPolicy ==
    /\ loading = "loop" /\ Top.refs = <<>>
    /\ LET merged == MergeRaw(Top.merged, folder[Top.path].fields)
           listed == AddSources(Top.sources, <<Top.path>>)
           rest == Front(frames)
       IN  IF rest = <<>>
           THEN frames' = rest /\ loading' = "check" /\ raw' = merged /\ sources' = listed
           ELSE /\ frames' = [rest EXCEPT ![Len(rest)].merged = MergeRaw(@, merged),
                                          ![Len(rest)].sources = AddSources(@, listed)]
                /\ UNCHANGED <<loading, raw, sources>>
    /\ UNCHANGED <<folder, target, filesRead, bytesRead, policy>>

\* The rest of load_policy.
CheckPolicy ==
    /\ loading = "check"
    /\ IF ~Valid(raw) THEN RejectPolicy
       ELSE /\ loading' = "loaded" /\ policy' = PolicyOf(raw)
            /\ UNCHANGED <<folder, target, frames, filesRead, bytesRead, raw, sources>>

LoadPolicy == BeginLoad \/ Enter \/ ReadPolicy \/ Inherit \/ ReturnPolicy \/ CheckPolicy

----------------------------------------------------------------------------
(* Properties *)

Parents(f) ==
    IF folder[f] = Absent \/ folder[f].refs = Bad THEN <<>>
    ELSE [k \in DOMAIN folder[f].refs |-> folder[f].refs[k].to]

\* The files that the policy is to come from.
Closure[S \in SUBSET PolicyFile] ==
    LET T == S \cup UNION {ToSet(Parents(f)) : f \in S} IN IF T = S THEN S ELSE Closure[T]
Inherited == Closure[{RootPolicy}]

\* docs/policy-v0.5.md, "Deterministic policy inheritance", read from the child up:
\* the file that decides a field, which is f itself or the choice of its last parent that has one.
Decider[v \in Inherited \X FieldName] ==
    LET f == v[1]
        k == v[2]
        P == Parents(f)
        of(j) == Decider[<<P[j], k>>]
        having == {j \in DOMAIN P : of(j) # None}
    IN  IF k \in DOMAIN folder[f].fields THEN f ELSE IF having = {} THEN None ELSE of(Max(having))

ValueOf(f, k) == folder[Decider[<<f, k>>]].fields[k]
Maps(f, k) == Decider[<<f, k>>] # None /\ k \in MappingFields /\ IsMapping(ValueOf(f, k))

\* The file that decides a key of a mapping: f itself, or the choice of its last parent that has
\* the key or hides what comes before it by a field that is not a mapping.
KeyDecider[v \in Inherited \X (MappingFields \X Selector)] ==
    LET f == v[1]
        k == v[2][1]
        P == Parents(f)
        of(j) == KeyDecider[<<P[j], v[2]>>]
        deciding == {j \in DOMAIN P : of(j) # None \/ (Decider[<<P[j], k>>] # None /\ ~Maps(P[j], k))}
    IN  IF ~Maps(f, k) THEN None
        ELSE IF k \in DOMAIN folder[f].fields /\ v[2][2] \in DOMAIN folder[f].fields[k] THEN f
        ELSE IF deciding = {} THEN None ELSE of(Max(deciding))

\* The fields of a file and what it inherits.
Effective(f) ==
    [k \in {j \in FieldName : Decider[<<f, j>>] # None} |->
        IF Maps(f, k)
        THEN [s \in {t \in Selector : KeyDecider[<<f, <<k, t>>>>] # None} |->
                 folder[KeyDecider[<<f, <<k, s>>>>]].fields[k][s]]
        ELSE ValueOf(f, k)]

Loaded == loading = "loaded" /\ folder[RootPolicy] # Absent

\* The policy loaded is what inheritance promises, over any shape of the files, and
\* its sources are the files it comes from, each once and after those it extends.
LoadsTheInheritance ==
    Loaded =>
        /\ policy = PolicyOf(Effective(RootPolicy))
        /\ ToSet(sources) = Inherited /\ Len(sources) = Cardinality(Inherited)
        /\ \A j, k \in DOMAIN sources : sources[j] \in ToSet(Parents(sources[k])) => j < k

\* "Policy loading fails closed rather than treating spelling tricks as a legitimate
\* override": in a loaded policy an allowlist of any file still applies to its tool,
\* unless a file after it gives one for exactly that name, or clears them all (by null or, where
\* a later mapping replaces it before it is checked, by a value that is none).
SpellingFailsClosed ==
    Loaded =>
        \A f \in Inherited :
            LET lists == Get(folder[f].fields, "allow_by_tool", Null)
                cleared == \E g \in Inherited : ~IsMapping(Get(folder[g].fields, "allow_by_tool", <<>>))
            IN  IsMapping(lists) /\ ~cleared =>
                    \A t \in DOMAIN lists :
                        \E g \in Inherited :
                            /\ t \in DOMAIN Get(folder[g].fields, "allow_by_tool", <<>>)
                            /\ IdentityOf[t] \in DOMAIN policy.allow
                            /\ policy.allow[IdentityOf[t]] = CapSet(folder[g].fields["allow_by_tool"][t])

\* Whatever the files extend, loading opens no more files, reads no more bytes and goes
\* no deeper than the budget, never follows a cycle, a link or a way out of the folder.
PolicyReadsWithinBudget ==
    /\ filesRead <= MaxPolicyFiles /\ bytesRead <= MaxPolicyTotalBytes
    /\ Len(frames) <= MaxInheritance
    /\ \A j, k \in DOMAIN frames : frames[j].path = frames[k].path => j = k
    /\ \A f \in InProgress : folder[f] # Absent /\ folder[f].inside /\ ~folder[f].link
=============================================================================
