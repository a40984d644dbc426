-------------------------- MODULE Discovery_proofs --------------------------
(* Machine-checked facts about the modules that find tools and infer what they can do, *)
(* for every value of their constants: functions defined by recursion on a well-founded *)
(* relation, and the invariants of the traversal.                                       *)
EXTENDS Discovery, FiniteSetTheorems, SequenceTheorems, WellFoundedInduction, TLAPS

----------------------------------------------------------------------------
(* Recursion on a well-founded relation *)

\* The value of step at x depends on what its argument is below x only.
Local(step, R, D, V) ==
    \A g, h \in [D -> V] : \A x \in D :
        (\A y \in D : <<y, x>> \in R => g[y] = h[y]) => step[<<g, x>>] = step[<<h, x>>]

\* g is what step defines on T, which holds whatever is below a member.
Attempt(step, R, D, T, g) ==
    /\ \A x \in T : \A y \in D : <<y, x>> \in R => y \in T
    /\ \A x \in T : g[x] = step[<<g, x>>]

\* Two attempts agree where both are defined.
LEMMA AttemptsAgree ==
    ASSUME NEW D, NEW V, NEW R, IsWellFoundedOn(R, D), NEW step, Local(step, R, D, V),
           NEW S \in SUBSET D, NEW T \in SUBSET D, NEW g \in [D -> V], NEW h \in [D -> V],
           Attempt(step, R, D, S, g), Attempt(step, R, D, T, h)
    PROVE  \A x \in S \cap T : g[x] = h[x]
<1> DEFINE U == {x \in S \cap T : g[x] # h[x]}
<1>1. SUFFICES ASSUME U # {} PROVE FALSE
  OBVIOUS
<1>2. U \subseteq D
  OBVIOUS
<1>3. PICK x \in U : \A y \in U : ~(<<y, x>> \in R)
  BY <1>1, <1>2, WFMin
<1>4. \A y \in D : <<y, x>> \in R => g[y] = h[y]
  BY <1>3 DEF Attempt
<1>5. step[<<g, x>>] = step[<<h, x>>]
  BY <1>2, <1>4 DEF Local
<1>6. g[x] = step[<<g, x>>] /\ h[x] = step[<<h, x>>]
  BY DEF Attempt
<1> QED BY <1>5, <1>6

\* A step that looks only below its argument defines a function.
Recursion(step, R, D, V) ==
    V # {} /\ IsWellFoundedOn(R, D) /\ step \in [[D -> V] \X D -> V] /\ Local(step, R, D, V)

\* A recursive definition whose step is local to what lies below defines a function.
LEMMA RecursionIsDefined ==
    ASSUME NEW step, NEW R, NEW D, NEW V, Recursion(step, R, D, V)
    PROVE  \E g \in [D -> V] : \A x \in D : g[x] = step[<<g, x>>]
<1>0. V # {} /\ IsWellFoundedOn(R, D) /\ step \in [[D -> V] \X D -> V] /\ Local(step, R, D, V)
  BY DEF Recursion
<1> DEFINE At(x, T, g) == x \in T /\ Attempt(step, R, D, T, g)
           U == {x \in D : \E T \in SUBSET D : \E g \in [D -> V] : At(x, T, g)}
           Of(x) == CHOOSE g \in [D -> V] : \E T \in SUBSET D : At(x, T, g)
           u == [x \in D |-> IF x \in U THEN Of(x)[x] ELSE CHOOSE v \in V : TRUE]
<1>1. \A x \in U : Of(x) \in [D -> V] /\ \E T \in SUBSET D : At(x, T, Of(x))
  OBVIOUS
<1>2. u \in [D -> V]
  <2>1. \A x \in U : Of(x)[x] \in V
    BY <1>1
  <2>2. (CHOOSE v \in V : TRUE) \in V
    BY <1>0
  <2> HIDE DEF U, Of
  <2> QED BY <2>1, <2>2
<1>3. ASSUME NEW T \in SUBSET D, NEW g \in [D -> V], Attempt(step, R, D, T, g), NEW x \in T
      PROVE  x \in U /\ u[x] = g[x]
  <2>1. x \in U
    BY <1>3
  <2>2. u[x] = Of(x)[x]
    <3> HIDE DEF U, Of
    <3> QED BY <2>1
  <2>3. PICK S \in SUBSET D : x \in S /\ Attempt(step, R, D, S, Of(x))
    BY <1>1, <2>1
  <2>4. Of(x) \in [D -> V]
    BY <1>1, <2>1
  <2> HIDE DEF Of
  <2>5. Of(x)[x] = g[x]
    BY <1>0, <1>3, <2>3, <2>4, AttemptsAgree
  <2> QED BY <2>1, <2>2, <2>5
<1>4. \A x \in U : \E T \in SUBSET D, g \in [D -> V] : x \in T /\ Attempt(step, R, D, T, g)
  OBVIOUS
<1>5. U \subseteq D
  OBVIOUS
<1> HIDE DEF u, U, Of, At
<1>6. Attempt(step, R, D, U, u)
  <2> SUFFICES ASSUME NEW x \in U
               PROVE  (\A y \in D : <<y, x>> \in R => y \in U) /\ u[x] = step[<<u, x>>]
    BY DEF Attempt
  <2>1. PICK T \in SUBSET D, g \in [D -> V] : x \in T /\ Attempt(step, R, D, T, g)
    BY <1>4
  <2>2. \A y \in T : y \in U /\ u[y] = g[y]
    BY <1>3, <2>1
  <2>3. \A y \in D : <<y, x>> \in R => y \in T
    BY <2>1 DEF Attempt
  <2>4. step[<<u, x>>] = step[<<g, x>>]
    <3>1. \A y \in D : <<y, x>> \in R => u[y] = g[y]
      BY <2>2, <2>3
    <3> QED BY <1>0, <1>2, <1>5, <3>1 DEF Local
  <2>5. g[x] = step[<<g, x>>]
    BY <2>1 DEF Attempt
  <2> QED BY <2>1, <2>2, <2>3, <2>4, <2>5
<1>7. U = D
  <2>1. SUFFICES ASSUME D \ U # {} PROVE FALSE
    BY <1>5
  <2>2. PICK x \in D \ U : \A y \in D \ U : ~(<<y, x>> \in R)
    <3>1. D \ U \subseteq D
      OBVIOUS
    <3> QED BY <1>0, <2>1, <3>1, WFMin
  <2>3. PICK w : w = [u EXCEPT ![x] = step[<<u, x>>]]
    OBVIOUS
  <2>4. step[<<u, x>>] \in V
    <3>1. <<u, x>> \in [D -> V] \X D
      BY <1>2
    <3> QED BY <1>0, <3>1
  <2>5. w \in [D -> V] /\ w[x] = step[<<u, x>>] /\ \A y \in D : y # x => w[y] = u[y]
    BY <1>2, <2>3, <2>4
  <2>6. \A y \in D : <<y, x>> \in R => y \in U
    BY <2>2
  <2>7. \A z \in U : \A y \in D : <<y, z>> \in R => y \in U
    BY <1>6 DEF Attempt
  <2>8. \A z \in U \cup {x} : \A y \in D : <<y, z>> \in R => y \in U /\ w[y] = u[y]
    BY <2>2, <2>5, <2>6, <2>7
  <2>9. \A z \in U \cup {x} : step[<<w, z>>] = step[<<u, z>>]
    <3> TAKE z \in U \cup {x}
    <3>1. z \in D /\ \A y \in D : <<y, z>> \in R => w[y] = u[y]
      BY <1>5, <2>2, <2>8
    <3> QED BY <1>0, <1>2, <2>5, <3>1 DEF Local
  <2>10. \A z \in U : u[z] = step[<<u, z>>] /\ w[z] = u[z]
    BY <1>5, <1>6, <2>2, <2>5 DEF Attempt
  <2>11. Attempt(step, R, D, U \cup {x}, w)
    <3>1. \A z \in U \cup {x} : w[z] = step[<<w, z>>]
      BY <2>5, <2>9, <2>10
    <3> QED BY <2>8, <3>1 DEF Attempt
  <2>12. x \in U
    BY <1>3, <1>5, <2>2, <2>5, <2>11
  <2> QED BY <2>2, <2>12
<1> QED BY <1>2, <1>6, <1>7 DEF Attempt

----------------------------------------------------------------------------
(* The traversal: where it is and what it has in hand *)

\* A step of discover_tools or of somebody who changes a document meanwhile, or none.
DiscoveryNext == Discover \/ (\E p \in DOMAIN tree.later : ChangeText(p)) \/ UNCHANGED discoveryVars

\* The entries the traversal has yielded, and those among them it counts as documents.
Done == IF discovery = "start" THEN {} ELSE DOMAIN tree.entries \ pending
Countable(P) == {p \in P : ~Skipped(tree.entries[p]) /\ tree.entries[p].inside}

\* A document as it was read.
IsReading(r) ==
    /\ r = [path |-> r.path, text |-> r.text, measured |-> r.measured]
    /\ r.path \in Countable(Done) /\ r.measured \in 0..MaxFileBytes
    /\ IsText(r.text) /\ r.text # Gone /\ r.text.parse = "ok"

PlaceInv ==
    /\ IsTree(tree)
    /\ DOMAIN texts = DOMAIN tree.texts /\ \A p \in DOMAIN texts : IsText(texts[p])
    /\ discovery \in {"start", "list", "stat", "read", "walk", "found", "failed"}
    /\ pending \subseteq DOMAIN tree.entries
    /\ entries \in Nat /\ documents \in Nat /\ total \in Nat /\ size \in Nat
    /\ current \in DOMAIN tree.entries \cup {None}
    /\ discovery \in {"stat", "read", "walk"} => current \in Countable(Done)
    /\ discovery = "read" => size <= MaxFileBytes
    /\ discovery \in {"list", "stat", "read", "walk", "found"} => tree.root \in {"directory", "document"}

ReadInv ==
    /\ IsFiniteSet(read) /\ \A r \in read : IsReading(r)
    /\ \A q, r \in read : q.path = r.path => q = r
    /\ discovery \in {"stat", "read"} => \A r \in read : r.path # current
    /\ discovery = "walk" => \E r \in read : r.path = current
    /\ discovery = "start" => read = {}

\* What the steps that only move the place leave alone.
LEMMA PlaceInductive == ASSUME PlaceInv, DiscoveryNext PROVE PlaceInv'
<1> USE DiscoveryAssumption
<1>1. CASE StartDiscovery
  BY <1>1 DEF StartDiscovery, GiveUp, GoOn, PlaceInv, Done, Countable, Skipped
<1>2. ASSUME NEW p \in pending, Yield(p) PROVE PlaceInv'
  <2>1. /\ UNCHANGED <<tree, texts, total, size>> /\ pending' = pending \ {p} /\ current' = p
        /\ entries' = entries + 1 /\ documents' \in {documents, documents + 1}
        /\ discovery' \in {"failed", "list", "stat"} /\ discovery = "list"
    BY <1>2 DEF Yield
  <2>2. p \in DOMAIN tree.entries
    BY DEF PlaceInv
  <2>3. discovery' = "stat" => ~Skipped(tree.entries[p]) /\ tree.entries[p].inside
    BY <1>2 DEF Yield
  <2>4. discovery' = "stat" => p \in Countable(Done)'
    BY <2>1, <2>2, <2>3 DEF Done, Countable, Skipped
  <2> QED BY <2>1, <2>2, <2>4 DEF PlaceInv
<1>3. CASE Stat
  <2>1. UNCHANGED <<tree, texts, pending, entries, documents, total, current>> /\ discovery = "stat"
    BY <1>3 DEF Stat, SkipDocument, GoOn
  <2>2. \/ discovery' \in {"failed", "list"} /\ size' = size
        \/ discovery' \in {"failed", "read"} /\ size' = texts[current].size /\ texts[current] # Gone
           /\ (discovery' = "read" => size' <= MaxFileBytes)
        \/ discovery' = "failed" /\ size' = size
    <3>1. IsText(texts[current])
      BY <2>1 DEF PlaceInv, Countable, Done, IsTree
    <3>2. texts[current] # Gone => texts[current].size \in Nat
                                  /\ (~(texts[current].size > MaxFileBytes) => texts[current].size <= MaxFileBytes)
      BY <3>1 DEF IsText
    <3> QED BY <1>3, <2>1, <3>2 DEF Stat, SkipDocument, GoOn
  <2>3. size' \in Nat
    <3>1. IsText(texts[current])
      BY <2>1 DEF PlaceInv, Countable, Done, IsTree
    <3> QED BY <2>2, <3>1 DEF PlaceInv, IsText
  <2>4. current \in Countable(Done) /\ discovery' # "start" => current \in Countable(Done)'
    BY <2>1, <2>2 DEF Countable, Done, Skipped
  <2> QED BY <2>1, <2>2, <2>3, <2>4 DEF PlaceInv
<1>4. CASE Read
  <2>1. /\ UNCHANGED <<tree, texts, pending, entries, documents, current, size>> /\ discovery = "read"
        /\ total' \in {total, total + size} /\ discovery' \in {"failed", "list", "walk"}
    BY <1>4 DEF Read, SkipDocument, GoOn, GiveUp
  <2>2. current \in Countable(Done) => current \in Countable(Done)'
    BY <2>1 DEF Countable, Done, Skipped
  <2> QED BY <2>1, <2>2 DEF PlaceInv
<1>5. CASE Visit \/ EndOfDocument \/ FinishDiscovery
  <2>1. /\ UNCHANGED <<tree, texts, pending, entries, documents, total, current, size>>
        /\ \/ discovery = "walk" /\ discovery' \in {"failed", "list", "walk"}
           \/ discovery = "list" /\ discovery' = "found"
    BY <1>5 DEF Visit, EndOfDocument, FinishDiscovery, GiveUp, GoOn
  <2>2. discovery = "walk" /\ current \in Countable(Done) => current \in Countable(Done)'
    BY <2>1 DEF Countable, Done, Skipped
  <2> QED BY <2>1, <2>2 DEF PlaceInv
<1>6. ASSUME NEW p \in DOMAIN tree.later, ChangeText(p) PROVE PlaceInv'
  <2>1. /\ UNCHANGED <<tree, discovery, pending, entries, documents, total, current, size>>
        /\ texts' = [texts EXCEPT ![p] = tree.later[p]]
    BY <1>6 DEF ChangeText
  <2>2. IsText(tree.later[p])
    BY DEF PlaceInv, IsTree
  <2>3. DOMAIN texts' = DOMAIN texts /\ \A q \in DOMAIN texts : IsText(texts'[q])
    BY <2>1, <2>2 DEF PlaceInv
  <2>4. Countable(Done)' = Countable(Done)
    BY <2>1 DEF Countable, Done, Skipped
  <2> QED BY <2>1, <2>3, <2>4 DEF PlaceInv
<1>7. CASE UNCHANGED discoveryVars
  BY <1>7 DEF discoveryVars, PlaceInv, Countable, Done, Skipped
<1> QED BY <1>1, <1>2, <1>3, <1>4, <1>5, <1>6, <1>7 DEF DiscoveryNext, Discover

\* Nothing that was yielded is yielded again.
LEMMA DoneGrows ==
    ASSUME DiscoveryNext, PlaceInv, discovery # "start"
    PROVE  /\ tree' = tree /\ Done \subseteq Done' /\ discovery' # "start"
           /\ \A p \in Countable(Done) : p \in Countable(Done)'
<1>1. tree' = tree /\ pending' \subseteq pending /\ discovery' # "start"
  BY DEF DiscoveryNext, Discover, StartDiscovery, Yield, Stat, Read, Visit, EndOfDocument, FinishDiscovery,
         ChangeText, SkipDocument, GiveUp, GoOn, discoveryVars, PlaceInv
<1>2. Done \subseteq Done'
  BY <1>1 DEF Done
<1> QED BY <1>1, <1>2 DEF Countable, Skipped

\* Each step reads at most one document, which was not read before.
LEMMA ReadInductive == ASSUME PlaceInv, ReadInv, DiscoveryNext PROVE ReadInv'
<1>1. CASE StartDiscovery
  BY <1>1 DEF StartDiscovery, GiveUp, GoOn, ReadInv
<1>2. ASSUME discovery # "start" PROVE ReadInv'
  <2>1. tree' = tree /\ \A r : IsReading(r) => IsReading(r)'
    BY <1>2, DoneGrows DEF IsReading, IsText
  <2>2. ASSUME read' = read, current' = current,
               discovery' \in {"list", "failed", "found"}
                 \/ (discovery' = "read" /\ discovery = "stat") \/ discovery' = discovery
        PROVE  ReadInv'
    BY <1>2, <2>1, <2>2 DEF ReadInv
  <2>3. ASSUME NEW p \in pending, Yield(p) PROVE ReadInv'
    <3>1. UNCHANGED <<tree, read>> /\ pending' = pending \ {p} /\ current' = p /\ discovery' # "start"
          /\ discovery' # "walk" /\ discovery' # "read" /\ discovery = "list"
      BY <2>3 DEF Yield
    <3>2. \A r \in read : r.path # p
      BY <1>2 DEF ReadInv, IsReading, Countable, Done
    <3> QED BY <2>1, <3>1, <3>2 DEF ReadInv
  <2>4. CASE Stat
    <3>1. read' = read /\ current' = current /\ discovery' \in {"list", "failed", "read"} /\ discovery = "stat"
      BY <2>4 DEF Stat, SkipDocument, GoOn
    <3> QED BY <2>2, <3>1
  <2>5. CASE Read
    <3>1. CASE read' = read /\ discovery' \in {"list", "failed"} /\ current' = current
      BY <2>2, <3>1
    <3> DEFINE r == [path |-> current, text |-> texts[current], measured |-> size]
    <3>2. CASE /\ discovery = "read" /\ discovery' = "walk" /\ read' = read \cup {r} /\ current' = current
               /\ texts[current] # Gone /\ texts[current].parse = "ok"
      <4>1. IsReading(r)
        <5>1. current \in Countable(Done) /\ size \in 0..MaxFileBytes
          BY <3>2 DEF PlaceInv
        <5>2. IsText(texts[current])
          BY <5>1 DEF PlaceInv, Countable, Done, IsTree
        <5> QED BY <3>2, <5>1, <5>2 DEF IsReading
      <4>2. \A q \in read : q.path # r.path
        BY <3>2 DEF ReadInv
      <4>3. IsFiniteSet(read')
        BY <3>2, FS_AddElement DEF ReadInv
      <4>4. r.path = current /\ r \in read'
        BY <3>2
      <4> HIDE DEF r
      <4>5. \A q \in read' : IsReading(q)
        BY <3>2, <4>1 DEF ReadInv
      <4>6. \A q \in read' : IsReading(q)'
        BY <2>1, <4>5
      <4>7. \A p, q \in read' : p.path = q.path => p = q
        BY <3>2, <4>2 DEF ReadInv
      <4> QED BY <3>2, <4>3, <4>4, <4>6, <4>7 DEF ReadInv
    <3>3. OverTotal \/ ~OverTotal
      OBVIOUS
    <3> QED BY <2>5, <3>1, <3>2, <3>3 DEF Read, SkipDocument, GoOn, GiveUp
  <2>6. CASE Visit \/ EndOfDocument \/ FinishDiscovery
    <3>1. read' = read /\ current' = current /\ (discovery' \in {"list", "failed", "found"} \/ discovery' = discovery)
      BY <2>6 DEF Visit, EndOfDocument, FinishDiscovery, GiveUp, GoOn
    <3> QED BY <2>2, <3>1
  <2>7. CASE (\E p \in DOMAIN tree.later : ChangeText(p)) \/ UNCHANGED discoveryVars
    <3>1. read' = read /\ current' = current /\ discovery' = discovery
      BY <2>7 DEF ChangeText, discoveryVars
    <3> QED BY <2>2, <3>1
  <2>8. CASE StartDiscovery
    BY <1>2, <2>8 DEF StartDiscovery, GiveUp, GoOn
  <2> QED BY <2>3, <2>4, <2>5, <2>6, <2>7, <2>8 DEF DiscoveryNext, Discover
<1>3. discovery = "start" => StartDiscovery \/ UNCHANGED discoveryVars
  BY DEF DiscoveryNext, Discover, Yield, Stat, Read, Visit, EndOfDocument, FinishDiscovery, ChangeText, PlaceInv
<1>4. CASE discovery = "start" /\ UNCHANGED discoveryVars
  BY <1>4 DEF discoveryVars, ReadInv
<1> QED BY <1>1, <1>2, <1>3, <1>4

----------------------------------------------------------------------------
(* Counting *)

\* Marks 1 to n of one thing are n.
LEMMA CountMarks ==
    ASSUME NEW x, NEW n \in Nat
    PROVE  IsFiniteSet({x} \X (1..n)) /\ Cardinality({x} \X (1..n)) = n
<1> DEFINE S == {x} \X (1..n)
           f == [i \in 1..n |-> <<x, i>>]
<1>1. f \in [1..n -> S]
  OBVIOUS
<1>2. \A i, j \in 1..n : f[i] = f[j] => i = j
  OBVIOUS
<1>3. \A t \in S : \E i \in 1..n : f[i] = t
  <2> TAKE t \in S
  <2>1. t = <<x, t[2]>> /\ t[2] \in 1..n
    OBVIOUS
  <2> QED BY <2>1
<1>4. f \in Bijection(1..n, S)
  <2>1. DOMAIN f = 1..n
    OBVIOUS
  <2> HIDE DEF f, S
  <2> QED BY <1>1, <1>2, <1>3, <2>1 DEF Bijection, Injection, Surjection, IsInjective
<1>5. ExistsBijection(1..n, S)
  BY <1>4 DEF ExistsBijection
<1>6. IsFiniteSet(S)
  BY <1>5, FS_NatBijection
<1>7. Cardinality(S) = n
  BY <1>5, FS_CountingElements
<1> QED BY <1>6, <1>7

\* Disjoint sets are counted one after the other.
LEMMA CountDisjoint ==
    ASSUME NEW S, NEW T, IsFiniteSet(S), IsFiniteSet(T), S \cap T = {}
    PROVE  /\ IsFiniteSet(S \cup T) /\ Cardinality(S \cup T) = Cardinality(S) + Cardinality(T)
           /\ Cardinality(S) \in Nat /\ Cardinality(T) \in Nat
BY FS_Union, FS_EmptySet, FS_CardinalityType

\* Things told apart by a property are no more than its values.
LEMMA CountByName ==
    ASSUME NEW S, NEW T, IsFiniteSet(T), \A x \in S : x.path \in T,
           \A x, y \in S : x.path = y.path => x = y
    PROVE  IsFiniteSet(S) /\ Cardinality(S) <= Cardinality(T)
<1> DEFINE f == [x \in S |-> x.path]
<1>1. f \in Injection(S, T)
  BY DEF Injection, IsInjective
<1> QED BY <1>1, FS_Injection

\* The bytes of what was read, as measured before.
Measured(R) == UNION {{r} \X (1..r.measured) : r \in R}

\* Reading one more text adds its bytes to what was measured.
LEMMA MeasureOneMore ==
    ASSUME NEW R, NEW r, r \notin R, r.measured \in Nat, IsFiniteSet(Measured(R))
    PROVE  /\ IsFiniteSet(Measured(R \cup {r})) /\ Cardinality(Measured(R)) \in Nat
           /\ Cardinality(Measured(R \cup {r})) = Cardinality(Measured(R)) + r.measured
<1> DEFINE S == {r} \X (1..r.measured)
<1>1. Measured(R \cup {r}) = Measured(R) \cup S
  <2>1. \A z : z \in Measured(R \cup {r}) <=> \E q \in R \cup {r} : z \in {q} \X (1..q.measured)
    BY DEF Measured
  <2>2. \A z : z \in Measured(R) <=> \E q \in R : z \in {q} \X (1..q.measured)
    BY DEF Measured
  <2>3. \A z : z \in S <=> z \in {r} \X (1..r.measured)
    OBVIOUS
  <2>4. \A q \in R \cup {r} : q \in R \/ q = r
    OBVIOUS
  <2> HIDE DEF S
  <2> QED BY <2>1, <2>2, <2>3, <2>4, Zenon
<1>2. Measured(R) \cap S = {}
  BY DEF Measured
<1>3. IsFiniteSet(S) /\ Cardinality(S) = r.measured
  BY CountMarks
<1> HIDE DEF S
<1> QED BY <1>1, <1>2, <1>3, CountDisjoint

\* The counters of the traversal count what they say, until it gives up.
CountInv ==
    /\ IsFiniteSet(Measured(read)) /\ Cardinality(Measured(read)) <= MaxTotalBytes
    /\ Cardinality(read) <= MaxDocuments
    /\ discovery # "failed" =>
          /\ entries = Cardinality(Done) /\ (discovery # "start" /\ ~Explicit => entries <= MaxEntries)
          /\ documents = Cardinality(Countable(Done)) /\ documents <= MaxDocuments
          /\ total = Cardinality(Measured(read))

\* Every step keeps the counters of entries, documents and bytes true to what was done.
LEMMA CountInductive == ASSUME PlaceInv, ReadInv, CountInv, DiscoveryNext PROVE CountInv'
<1> USE DiscoveryAssumption
<1>0. IsFiniteSet(Done) /\ IsFiniteSet(Countable(Done)) /\ Cardinality(Countable(Done)) \in Nat
      /\ Cardinality(Done) \in Nat /\ Cardinality(Measured(read)) \in Nat
  <2>1. IsFiniteSet(DOMAIN tree.entries)
    BY DEF PlaceInv, IsTree
  <2>2. Done \subseteq DOMAIN tree.entries /\ Countable(Done) \subseteq Done
    BY DEF Done, Countable
  <2>3. IsFiniteSet(Done)
    BY <2>1, <2>2, FS_Subset
  <2>4. IsFiniteSet(Countable(Done))
    BY <2>2, <2>3, FS_Subset
  <2> QED BY <2>3, <2>4, FS_CardinalityType DEF CountInv
<1>1. CASE StartDiscovery
  <2>1. CASE discovery' = "failed"
    BY <1>1, <2>1 DEF StartDiscovery, GiveUp, GoOn, CountInv
  <2>2. CASE discovery' # "failed"
    <3>1. /\ UNCHANGED <<tree, entries, documents, total, read>> /\ discovery = "start"
          /\ discovery' = "list" /\ pending' = DOMAIN tree.entries
      BY <1>1, <2>2 DEF StartDiscovery, GiveUp, GoOn
    <3>2. Done = {} /\ Done' = {} /\ Countable(Done) = {} /\ Countable(Done)' = {}
      BY <3>1 DEF Done, Countable
    <3>3. Cardinality({}) = 0
      BY FS_EmptySet
    <3>4. entries = 0
      BY <3>1, <3>2, <3>3 DEF CountInv
    <3> QED BY <3>1, <3>2, <3>4 DEF CountInv, Explicit
  <2> QED BY <2>1, <2>2
<1>2. ASSUME NEW p \in pending, Yield(p) PROVE CountInv'
  <2>1. /\ UNCHANGED <<tree, total, read>> /\ pending' = pending \ {p} /\ discovery = "list"
        /\ entries' = entries + 1 /\ discovery' \in {"failed", "list", "stat"}
        /\ documents' = IF p \in Countable({p}) THEN documents + 1 ELSE documents
        /\ discovery' # "failed" => (Explicit \/ ~(entries' > MaxEntries))
        /\ discovery' # "failed" /\ p \in Countable({p}) => ~(documents' > MaxDocuments)
    BY <1>2 DEF Yield, Countable
  <2>2. p \in DOMAIN tree.entries /\ p \notin Done /\ Done' = Done \cup {p}
    BY <2>1 DEF PlaceInv, Done
  <2>3. Countable(Done)' = IF p \in Countable({p}) THEN Countable(Done) \cup {p} ELSE Countable(Done)
    BY <2>1, <2>2 DEF Countable, Skipped
  <2>4. Cardinality(Done)' = Cardinality(Done) + 1
    BY <1>0, <2>2, FS_AddElement
  <2>5. p \notin Countable(Done)
    BY <2>2 DEF Countable
  <2>6. Cardinality(Countable(Done))' = IF p \in Countable({p}) THEN Cardinality(Countable(Done)) + 1
                                        ELSE Cardinality(Countable(Done))
    BY <1>0, <2>3, <2>5, FS_AddElement
  <2>7. entries \in Nat /\ documents \in Nat
    BY DEF PlaceInv
  <2> HIDE DEF Countable
  <2> QED BY <2>1, <2>4, <2>6, <2>7 DEF CountInv, Explicit, Measured
<1>3. ASSUME UNCHANGED <<tree, pending, entries, documents, total, read>>, discovery # "start",
             discovery' # "failed" => discovery # "failed", discovery' # "start"
      PROVE  CountInv'
  <2>1. Done' = Done /\ Countable(Done)' = Countable(Done) /\ Explicit' = Explicit
    BY <1>3 DEF Done, Countable, Skipped, Explicit
  <2> QED BY <1>3, <2>1 DEF CountInv
<1>4. CASE Read
  <2>1. CASE discovery' # "walk"
    <3>1. CASE total' = total
      <4>1. UNCHANGED <<tree, pending, entries, documents, total, read>> /\ discovery = "read"
            /\ discovery' \in {"failed", "list"}
        BY <1>4, <2>1, <3>1 DEF Read, SkipDocument, GoOn, GiveUp
      <4> QED BY <1>3, <4>1
    <3>2. CASE total' # total
      <4>1. discovery' = "failed" /\ read' = read
        BY <1>4, <2>1, <3>2 DEF Read, SkipDocument, GoOn, GiveUp
      <4> QED BY <4>1 DEF CountInv
    <3> QED BY <3>1, <3>2
  <2>2. CASE discovery' = "walk"
    <3> DEFINE r == [path |-> current, text |-> texts[current], measured |-> size]
    <3>1. /\ UNCHANGED <<tree, pending, entries, documents>> /\ discovery = "read" /\ ~OverTotal
          /\ total' = total + size /\ read' = read \cup {r}
      BY <1>4, <2>2 DEF Read, SkipDocument, GoOn, GiveUp
    <3>2. r.path = current /\ r.measured = size /\ r \notin read
      BY <3>1 DEF ReadInv
    <3> HIDE DEF r
    <3>3. size \in Nat /\ total \in Nat
      BY DEF PlaceInv
    <3>4. /\ IsFiniteSet(Measured(read'))
          /\ Cardinality(Measured(read')) = Cardinality(Measured(read)) + size
      BY <3>1, <3>2, <3>3, MeasureOneMore DEF CountInv
    <3>5. total' = Cardinality(Measured(read')) /\ total' <= MaxTotalBytes
      BY <3>1, <3>3, <3>4 DEF CountInv, OverTotal
    <3>6. Done' = Done /\ Countable(Done)' = Countable(Done) /\ Explicit' = Explicit
      BY <2>2, <3>1 DEF Done, Countable, Skipped, Explicit
    <3>7. ReadInv'
      BY ReadInductive
    <3>8. \A q \in read' : q.path \in Countable(Done)
      BY <3>6, <3>7 DEF ReadInv, IsReading
    <3>9. \A p, q \in read' : p.path = q.path => p = q
      BY <3>7 DEF ReadInv
    <3>10. Cardinality(read') <= Cardinality(Countable(Done)) /\ IsFiniteSet(read')
      BY <1>0, <3>8, <3>9, CountByName
    <3>11. Cardinality(read') \in Nat
      BY <3>10, FS_CardinalityType
    <3>12. Cardinality(read') <= MaxDocuments
      BY <1>0, <3>1, <3>10, <3>11 DEF CountInv
    <3> QED BY <2>2, <3>1, <3>4, <3>5, <3>6, <3>12 DEF CountInv
  <2> QED BY <2>1, <2>2
<1>5. CASE Stat
  <2>1. UNCHANGED <<tree, pending, entries, documents, total, read>> /\ discovery = "stat"
        /\ discovery' \in {"failed", "list", "read"}
    BY <1>5 DEF Stat, SkipDocument, GoOn
  <2> QED BY <1>3, <2>1
<1>6. CASE Visit \/ EndOfDocument \/ FinishDiscovery
  <2>1. UNCHANGED <<tree, pending, entries, documents, total, read>>
        /\ discovery \in {"walk", "list"} /\ discovery' \in {"failed", "list", "walk", "found"}
    BY <1>6 DEF Visit, EndOfDocument, FinishDiscovery, GiveUp, GoOn
  <2> QED BY <1>3, <2>1
<1>7. CASE (\E p \in DOMAIN tree.later : ChangeText(p)) \/ UNCHANGED discoveryVars
  <2>1. UNCHANGED <<tree, pending, entries, documents, total, read, discovery>>
    BY <1>7 DEF ChangeText, discoveryVars
  <2>2. Done' = Done /\ Countable(Done)' = Countable(Done) /\ Explicit' = Explicit
    BY <2>1 DEF Done, Countable, Skipped, Explicit
  <2> QED BY <2>1, <2>2 DEF CountInv
<1> QED BY <1>1, <1>2, <1>4, <1>5, <1>6, <1>7 DEF DiscoveryNext, Discover

----------------------------------------------------------------------------
(* Lists and numbers *)

\* A set of naturals has a smallest member.
LEMMA SmallestOf ==
    ASSUME NEW T, T \subseteq Nat, T # {}
    PROVE  \E k \in T : \A j \in T : k <= j
<1>1. PICK k \in T : \A j \in T : ~(<<j, k>> \in OpToRel(<, Nat))
  BY NatLessThanWellFounded, WFMin
<1>2. \A j \in T : ~(j < k)
  BY <1>1 DEF OpToRel
<1> QED BY <1>2

\* Last and Front of a list that is not empty.
LEMMA LastAndFront ==
    ASSUME NEW S, NEW s \in Seq(S), s # <<>>
    PROVE  /\ Last(s) \in S /\ Last(s) = s[Len(s)] /\ Len(s) \in Nat \ {0}
           /\ Front(s) \in Seq(S) /\ Len(Front(s)) = Len(s) - 1
           /\ \A k \in 1..(Len(s) - 1) : Front(s)[k] = s[k]
<1>1. Len(s) \in Nat /\ Len(s) # 0
  BY EmptySeq, LenProperties
<1>2. PICK n \in Int : n = Len(s) - 1
  BY <1>1
<1>3. \A i \in 1..n : s[i] \in S
  BY <1>1, <1>2, ElementOfSeq
<1>4. PICK f : f = SubSeq(s, 1, n)
  OBVIOUS
<1>5. /\ f \in Seq(S) /\ Len(f) = (IF 1 <= n THEN n - 1 + 1 ELSE 0)
      /\ \A i \in 1..(n - 1 + 1) : f[i] = s[1 + i - 1]
  BY <1>3, <1>4, SubSeqProperties
<1>6. \A k \in 1..n : f[k] = s[k]
  <2>1. \A k \in 1..n : k \in 1..(n - 1 + 1) /\ 1 + k - 1 = k
    BY <1>2
  <2> QED BY <1>5, <2>1
<1>7. Len(f) = n
  BY <1>1, <1>2, <1>5
<1>8. s[Len(s)] \in S
  BY <1>1, ElementOfSeq
<1>9. Last(s) = s[Len(s)] /\ Front(s) = f
  BY <1>2, <1>4 DEF Last, Front
<1> QED BY <1>1, <1>2, <1>5, <1>6, <1>7, <1>8, <1>9

\* The members of a list, and of two lists joined.
LEMMA MembersOf ==
    ASSUME NEW S, NEW s \in Seq(S)
    PROVE  ToSet(s) = {s[k] : k \in 1..Len(s)} /\ ToSet(s) \subseteq S
<1>1. DOMAIN s = 1..Len(s) /\ \A k \in 1..Len(s) : s[k] \in S
  BY LenProperties, ElementOfSeq
<1> QED BY <1>1 DEF ToSet

\* The members of two lists, one after the other.
LEMMA MembersOfJoined ==
    ASSUME NEW S, NEW s \in Seq(S), NEW t \in Seq(S)
    PROVE  ToSet(s \o t) = ToSet(s) \cup ToSet(t)
<1>1. PICK u : u = s \o t
  OBVIOUS
<1>2. /\ u \in Seq(S) /\ Len(u) = Len(s) + Len(t)
      /\ \A i \in 1..Len(s) + Len(t) : u[i] = IF i <= Len(s) THEN s[i] ELSE t[i - Len(s)]
  BY <1>1, ConcatProperties
<1>3. PICK m \in Nat, n \in Nat : m = Len(s) /\ n = Len(t)
  BY LenProperties
<1>4. /\ ToSet(u) = {u[k] : k \in 1..(m + n)} /\ ToSet(s) = {s[k] : k \in 1..m}
      /\ ToSet(t) = {t[k] : k \in 1..n}
  BY <1>2, <1>3, MembersOf
<1>5. \A k \in 1..m : u[k] = s[k] /\ k \in 1..(m + n)
  BY <1>2, <1>3
<1>6. \A k \in 1..n : u[k + m] = t[k] /\ k + m \in 1..(m + n)
  <2> TAKE k \in 1..n
  <2>1. PICK j \in 1..(m + n) : j = k + m
    OBVIOUS
  <2>2. ~(j <= m) /\ j - m = k
    BY <2>1
  <2>3. j \in 1..Len(s) + Len(t)
    BY <1>3
  <2>4. u[j] = t[j - m]
    BY <1>2, <1>3, <2>2, <2>3
  <2> QED BY <2>1, <2>2, <2>4
<1>7. \A k \in 1..(m + n) : k \in 1..m \/ (k - m \in 1..n /\ k = (k - m) + m)
  OBVIOUS
<1>8. ToSet(u) \subseteq ToSet(s) \cup ToSet(t)
  <2> SUFFICES ASSUME NEW k \in 1..(m + n) PROVE u[k] \in ToSet(s) \cup ToSet(t)
    BY <1>4
  <2>1. CASE k \in 1..m
    BY <1>4, <1>5, <2>1
  <2>2. CASE k - m \in 1..n /\ k = (k - m) + m
    <3>1. u[k] = t[k - m]
      BY <1>6, <2>2
    <3> QED BY <1>4, <2>2, <3>1
  <2> QED BY <1>7, <2>1, <2>2
<1>9. ToSet(s) \subseteq ToSet(u)
  BY <1>4, <1>5
<1>10. ToSet(t) \subseteq ToSet(u)
  <2> SUFFICES ASSUME NEW k \in 1..n PROVE t[k] \in ToSet(u)
    BY <1>4
  <2> QED BY <1>4, <1>6
<1> QED BY <1>1, <1>8, <1>9, <1>10

----------------------------------------------------------------------------
(* What discovery takes for a tool *)

\* The shapes an object is tried for name keys of schemas and adapters, and are ten.
LEMMA ShapesTyped ==
    ASSUME NEW i
    PROVE  /\ DOMAIN Shapes(i) = 1..10
           /\ \A k \in 1..10 : Shapes(i)[k][2] \in SchemaKey \cup {"none"} /\ Shapes(i)[k][3] \in Adapter
<1>1. PICK s : s = Shapes(i)
  OBVIOUS
<1>2. LangChain(i) \in Adapter
  BY DEF LangChain, Adapter
<1>3. DOMAIN s = 1..10
  BY <1>1 DEF Shapes
<1>4. /\ s[1][2] = "parameters" /\ s[2][2] = "params_json_schema" /\ s[3][2] = "parameters"
      /\ s[4][2] = "inputSchema" /\ s[5][2] = "input_schema" /\ s[6][2] = "args_schema"
      /\ s[7][2] = "tool_call_schema" /\ s[8][2] = "args_schema" /\ s[9][2] = "args_schema" /\ s[10][2] = "none"
  BY <1>1 DEF Shapes
<1>5. /\ s[1][3] = "openai" /\ s[2][3] = "openai-agents" /\ s[3][3] = "openai"
      /\ s[4][3] = "mcp" /\ s[5][3] = "claude" /\ s[6][3] = "crewai"
      /\ s[7][3] = LangChain(i) /\ s[8][3] = LangChain(i) /\ s[9][3] = "generic" /\ s[10][3] = "generic"
  BY <1>1 DEF Shapes
<1>6. \A k \in 1..10 : k = 1 \/ k = 2 \/ k = 3 \/ k = 4 \/ k = 5 \/ k = 6 \/ k = 7 \/ k = 8 \/ k = 9 \/ k = 10
  OBVIOUS
<1>7. \A k \in 1..10 : s[k][2] \in SchemaKey \cup {"none"}
  BY <1>4, <1>6 DEF SchemaKey
<1>8. \A k \in 1..10 : s[k][3] \in Adapter
  BY <1>2, <1>5, <1>6 DEF Adapter
<1> QED BY <1>1, <1>3, <1>7, <1>8

\* What is taken for a tool is one.
LEMMA ToolFromTyped ==
    ASSUME NEW i \in Item, i.name # None, Recognised(i), NEW p \in Source
    PROVE  ToolFrom(i, p) \in ToolRecord
<1>1. PICK s : s = Shapes(i)
  OBVIOUS
<1> DEFINE P(k) == k \in DOMAIN s /\ s[k][1] /\ \A j \in 1..(k - 1) : ~s[j][1]
<1>2. \E k : P(k)
  <2> DEFINE T == {k \in 1..10 : s[k][1]}
  <2>1. T # {} /\ T \subseteq Nat
    BY <1>1, ShapesTyped DEF Recognised
  <2>2. PICK k \in T : \A j \in T : k <= j
    BY <2>1, SmallestOf
  <2>3. \A j \in 1..(k - 1) : j \in 1..10 /\ ~(k <= j)
    OBVIOUS
  <2>4. P(k)
    BY <1>1, <2>2, <2>3, ShapesTyped
  <2> QED BY <2>4
<1>3. PICK c : c = CHOOSE k \in DOMAIN s : s[k][1] /\ \A j \in 1..(k - 1) : ~s[j][1]
  OBVIOUS
<1>4. c \in DOMAIN s
  BY <1>2, <1>3
<1>5. s[c][2] \in SchemaKey \cup {"none"} /\ s[c][3] \in Adapter
  BY <1>1, <1>4, ShapesTyped
<1>6. ToolFrom(i, p) =
        [name |-> i.name, text |-> i.text, source |-> p, adapter |-> s[c][3],
         schema |-> IF s[c][2] = "none" \/ i.schemas[s[c][2]] = None THEN <<>> ELSE <<i.schemas[s[c][2]]>>]
  BY <1>1, <1>3 DEF ToolFrom
<1>7. i.name \in Tool /\ i.text \in Description /\ i.schemas \in [SchemaKey -> SchemaNode \cup {None}]
  BY DEF Item
<1>8. (IF s[c][2] = "none" \/ i.schemas[s[c][2]] = None THEN <<>> ELSE <<i.schemas[s[c][2]]>>) \in Seq(SchemaNode)
  <2>1. CASE s[c][2] = "none" \/ i.schemas[s[c][2]] = None
    BY <2>1, EmptySeq
  <2>2. CASE ~(s[c][2] = "none" \/ i.schemas[s[c][2]] = None)
    <3>1. i.schemas[s[c][2]] \in SchemaNode
      BY <1>5, <1>7, <2>2
    <3> QED BY <2>2, <3>1
  <2> QED BY <2>1, <2>2
<1> HIDE DEF P
<1> QED BY <1>5, <1>6, <1>7, <1>8 DEF ToolRecord

----------------------------------------------------------------------------
(* The walk over a document *)

\* The document in hand while it is walked.
LEMMA DocumentInHand ==
    ASSUME PlaceInv, ReadInv, discovery = "walk"
    PROVE  /\ Parsed \in read /\ Parsed.path = current /\ Parsed.text.doc \in Document
           /\ current \in Source
<1>1. \E r \in read : r.path = current
  BY DEF ReadInv
<1>2. Parsed \in read /\ Parsed.path = current
  BY <1>1 DEF Parsed
<1>3. IsText(Parsed.text) /\ Parsed.text # Gone
  BY <1>2 DEF ReadInv, IsReading
<1>4. current \in Source
  BY DEF PlaceInv, Countable, Done, IsTree
<1> QED BY <1>2, <1>3, <1>4 DEF IsText

\* The children of an object, with the depth they are met at.
LEMMA ChildrenTyped ==
    ASSUME NEW c \in Seq(Object), NEW d \in Nat
    PROVE  LET s == [k \in DOMAIN c |-> <<c[k], d>>]
           IN  s \in Seq(Object \X Nat) /\ Len(s) = Len(c) /\ \A k \in 1..Len(c) : s[k] = <<c[k], d>>
<1> DEFINE s == [k \in DOMAIN c |-> <<c[k], d>>]
<1>1. PICK n \in Nat : n = Len(c) /\ DOMAIN c = 1..n /\ \A k \in 1..n : c[k] \in Object
  BY LenProperties, ElementOfSeq
<1>2. s \in [1..n -> Object \X Nat]
  BY <1>1
<1>3. s \in Seq(Object \X Nat)
  BY <1>1, <1>2, SeqDef
<1>4. DOMAIN s = 1..Len(s) /\ Len(s) \in Nat
  BY <1>3, LenProperties
<1>5. Len(s) = n
  BY <1>1, <1>4
<1> QED BY <1>1, <1>3, <1>5

\* One round of the loop: it takes the last object from the stack, and visits it unless it has.
VisitOnce(o, d, doc) ==
    /\ stack # <<>> /\ Last(stack) = <<o, d>> /\ o \in Object /\ d \in Nat
    /\ UNCHANGED <<tree, texts, pending, entries, documents, total, current, size, read, tools>>
    /\ \/ /\ discovery' = "failed" /\ UNCHANGED <<stack, visited, found>>
          /\ d > MaxDepth \/ (o \notin visited /\ Cardinality(visited) = MaxNodes)
       \/ /\ discovery' = "walk" /\ o \in visited /\ stack' = Front(stack)
          /\ UNCHANGED <<visited, found>> /\ ~(d > MaxDepth)
       \/ /\ discovery' = "walk" /\ o \notin visited /\ visited' = visited \cup {o}
          /\ stack' = Front(stack) \o [k \in DOMAIN doc.children[o] |-> <<doc.children[o][k], d + 1>>]
          /\ ~(d > MaxDepth) /\ Cardinality(visited) # MaxNodes
          /\ found' = IF Recognised(doc.item[o]) THEN Append(found, ToolFrom(doc.item[o], current)) ELSE found

WalkInv ==
    /\ found \in Seq(ToolRecord)
    /\ discovery # "walk" => Len(found) <= MaxNodes * Cardinality(read)
    /\ discovery = "walk" =>
          /\ stack \in Seq(Object \X Nat) /\ visited \subseteq Object /\ Cardinality(visited) <= MaxNodes
          /\ Len(found) <= MaxNodes * (Cardinality(read) - 1) + Cardinality(visited)

\* A step of the walk visits the object on top of the stack once.
LEMMA VisitSteps ==
    ASSUME PlaceInv, ReadInv, WalkInv, Visit
    PROVE  discovery = "walk" /\ \E o, d : VisitOnce(o, d, Parsed.text.doc)
<1>1. discovery = "walk" /\ stack # <<>>
  BY DEF Visit
<1>2. Last(stack) \in Object \X Nat
  BY <1>1, LastAndFront DEF WalkInv
<1>3. PICK o \in Object, d \in Nat : Last(stack) = <<o, d>>
  BY <1>2
<1>4. Last(stack)[1] = o /\ Last(stack)[2] = d
  BY <1>3
<1>5. VisitOnce(o, d, Parsed.text.doc)
  <2>1. CASE d > MaxDepth \/ (o \notin visited /\ Cardinality(visited) = MaxNodes)
    BY <1>1, <1>3, <1>4, <2>1 DEF Visit, GiveUp, GoOn, VisitOnce
  <2>2. CASE ~(d > MaxDepth \/ (o \notin visited /\ Cardinality(visited) = MaxNodes))
    BY <1>1, <1>3, <1>4, <2>2 DEF Visit, VisitOnce
  <2> QED BY <2>1, <2>2
<1> QED BY <1>1, <1>5

\* Every step keeps the walk within the objects of the document, and each visited at most once.
LEMMA WalkInductive == ASSUME PlaceInv, ReadInv, WalkInv, DiscoveryNext PROVE WalkInv'
<1> USE DiscoveryAssumption
<1>0. Cardinality(read) \in Nat /\ Len(found) \in Nat
  BY FS_CardinalityType, LenProperties DEF ReadInv, WalkInv
<1>1. CASE UNCHANGED <<found, read>> /\ discovery # "walk" /\ discovery' # "walk"
  BY <1>1 DEF WalkInv
<1>2. CASE UNCHANGED <<found, read, stack, visited, discovery>>
  BY <1>2 DEF WalkInv
<1>3. CASE discovery = "walk" /\ discovery' # "walk" /\ UNCHANGED <<found, read>>
  <2>1. visited \subseteq Object /\ IsFiniteSet(Object)
    BY <1>3 DEF WalkInv
  <2>2. Cardinality(visited) \in Nat
    BY <2>1, FS_Subset, FS_CardinalityType
  <2>3. MaxNodes * (Cardinality(read) - 1) + Cardinality(visited) <= MaxNodes * Cardinality(read)
    BY <1>0, <1>3, <2>2 DEF WalkInv
  <2>4. MaxNodes * (Cardinality(read) - 1) \in Int /\ MaxNodes * Cardinality(read) \in Int
    BY <1>0
  <2> QED BY <1>0, <1>3, <2>2, <2>3, <2>4 DEF WalkInv
<1>4. CASE Visit /\ discovery' = "walk"
  <2>1. PICK o, d : VisitOnce(o, d, Parsed.text.doc)
    BY <1>4, VisitSteps
  <2> DEFINE doc == Parsed.text.doc
  <2>2. doc \in Document /\ current \in Source
    BY <1>4, DocumentInHand, VisitSteps
  <2>3. stack \in Seq(Object \X Nat) /\ visited \subseteq Object /\ Cardinality(visited) <= MaxNodes
        /\ Len(found) <= MaxNodes * (Cardinality(read) - 1) + Cardinality(visited) /\ found \in Seq(ToolRecord)
    BY <1>4, VisitSteps DEF WalkInv
  <2>4. Front(stack) \in Seq(Object \X Nat) /\ o \in Object /\ d \in Nat /\ read' = read
    BY <2>1, <2>3, LastAndFront DEF VisitOnce
  <2>5. CASE o \in visited
    BY <1>4, <2>1, <2>3, <2>4, <2>5 DEF VisitOnce, WalkInv
  <2>6. CASE o \notin visited
    <3>1. /\ visited' = visited \cup {o} /\ Cardinality(visited) # MaxNodes
          /\ stack' = Front(stack) \o [k \in DOMAIN doc.children[o] |-> <<doc.children[o][k], d + 1>>]
          /\ found' = IF Recognised(doc.item[o]) THEN Append(found, ToolFrom(doc.item[o], current)) ELSE found
      BY <1>4, <2>1, <2>6 DEF VisitOnce
    <3>2. doc.children[o] \in Seq(Object) /\ doc.item[o] \in Item \cup {None}
      <4> HIDE DEF doc
      <4> QED BY <2>2, <2>4 DEF Document
    <3> HIDE DEF doc
    <3>3. d + 1 \in Nat
      BY <2>4
    <3>4. [k \in DOMAIN doc.children[o] |-> <<doc.children[o][k], d + 1>>] \in Seq(Object \X Nat)
      BY <3>2, <3>3, ChildrenTyped
    <3>5. stack' \in Seq(Object \X Nat)
      BY <2>4, <3>1, <3>4, ConcatProperties
    <3>6. /\ visited' \subseteq Object /\ Cardinality(visited') = Cardinality(visited) + 1
          /\ Cardinality(visited) \in Nat
      BY <2>3, <2>4, <2>6, <3>1, FS_Subset, FS_AddElement, FS_CardinalityType
    <3>7. found' \in Seq(ToolRecord) /\ Len(found') <= Len(found) + 1
      <4>1. CASE Recognised(doc.item[o])
        <5>1. doc.item[o] \in Item /\ doc.item[o].name # None
          BY <3>2, <4>1 DEF Recognised
        <5>2. ToolFrom(doc.item[o], current) \in ToolRecord
          BY <2>2, <4>1, <5>1, ToolFromTyped
        <5> QED BY <1>0, <2>3, <3>1, <4>1, <5>2, AppendProperties
      <4>2. CASE ~Recognised(doc.item[o])
        BY <1>0, <2>3, <3>1, <4>2
      <4> QED BY <4>1, <4>2
    <3>8. Len(found') \in Nat /\ MaxNodes * (Cardinality(read) - 1) \in Int
      BY <1>0, <3>7, LenProperties
    <3>9. Len(found') <= MaxNodes * (Cardinality(read) - 1) + Cardinality(visited')
      <4>1. PICK m \in Int : m = MaxNodes * (Cardinality(read) - 1)
        BY <3>8
      <4>2. Len(found) <= m + Cardinality(visited)
        BY <2>3, <4>1
      <4>3. Len(found') <= m + Cardinality(visited')
        BY <1>0, <3>6, <3>7, <3>8, <4>2
      <4> QED BY <4>1, <4>3
    <3>10. Cardinality(visited') <= MaxNodes
      BY <2>3, <3>1, <3>6
    <3> QED BY <1>4, <2>4, <3>5, <3>6, <3>7, <3>9, <3>10 DEF WalkInv
  <2> QED BY <2>5, <2>6
<1>5. CASE Read /\ discovery' = "walk"
  <2> DEFINE r == [path |-> current, text |-> texts[current], measured |-> size]
             root == texts[current].doc.root
  <2>1. /\ UNCHANGED found /\ discovery = "read" /\ read' = read \cup {r} /\ visited' = {}
        /\ stack' = IF root = None THEN <<>> ELSE <<<<root, 0>>>>
        /\ texts[current] # Gone
    BY <1>5 DEF Read, SkipDocument, GoOn, GiveUp
  <2>2. IsText(texts[current])
    BY <2>1 DEF PlaceInv, Countable, Done, IsTree
  <2>3. root \in Object \cup {None}
    BY <2>1, <2>2 DEF IsText, Document
  <2>4. r \notin read
    BY <2>1 DEF ReadInv
  <2> HIDE DEF r, root
  <2>5. Cardinality(read') = Cardinality(read) + 1
    BY <2>1, <2>4, FS_AddElement DEF ReadInv
  <2>6. stack' \in Seq(Object \X Nat)
    <3>1. CASE root = None
      BY <2>1, <3>1, EmptySeq
    <3>2. CASE root # None
      BY <2>1, <2>3, <3>2
    <3> QED BY <3>1, <3>2
  <2>7. Cardinality({}) = 0
    BY FS_EmptySet
  <2>8. Len(found) <= MaxNodes * Cardinality(read) /\ found \in Seq(ToolRecord)
    BY <2>1 DEF WalkInv
  <2>9. MaxNodes * (Cardinality(read') - 1) + 0 = MaxNodes * Cardinality(read)
    <3>1. Cardinality(read') - 1 = Cardinality(read)
      BY <1>0, <2>5
    <3>2. MaxNodes * Cardinality(read) \in Int
      BY <1>0
    <3> QED BY <3>1, <3>2
  <2> QED BY <1>5, <2>1, <2>6, <2>7, <2>8, <2>9 DEF WalkInv
<1>6. \/ UNCHANGED <<found, read>> /\ discovery # "walk" /\ discovery' # "walk"
      \/ UNCHANGED <<found, read, stack, visited, discovery>>
      \/ discovery = "walk" /\ discovery' # "walk" /\ UNCHANGED <<found, read>>
      \/ Visit /\ discovery' = "walk"
      \/ Read /\ discovery' = "walk"
      \/ discovery # "walk" /\ discovery' # "walk" /\ found' = found /\ Read
  <2>1. CASE StartDiscovery \/ Stat \/ (\E p \in pending : Yield(p)) \/ FinishDiscovery
    BY <2>1 DEF StartDiscovery, Stat, Yield, FinishDiscovery, GiveUp, GoOn, SkipDocument
  <2>2. CASE Visit
    <3>1. CASE discovery' # "walk"
      <4>1. PICK o, d : VisitOnce(o, d, Parsed.text.doc)
        BY <2>2, VisitSteps
      <4> QED BY <2>2, <3>1, <4>1, VisitSteps DEF VisitOnce
    <3> QED BY <2>2, <3>1
  <2>3. CASE EndOfDocument
    BY <2>3 DEF EndOfDocument, GoOn
  <2>4. CASE (\E p \in DOMAIN tree.later : ChangeText(p)) \/ UNCHANGED discoveryVars
    BY <2>4 DEF ChangeText, discoveryVars
  <2>5. CASE Read
    BY <2>5 DEF Read, SkipDocument, GoOn, GiveUp
  <2> QED BY <2>1, <2>2, <2>3, <2>4, <2>5 DEF DiscoveryNext, Discover
<1>7. CASE discovery # "walk" /\ discovery' # "walk" /\ found' = found /\ Read
  <2>1. read' = read
    BY <1>7 DEF Read, SkipDocument, GoOn, GiveUp
  <2> QED BY <1>1, <1>7, <2>1
<1> QED BY <1>1, <1>2, <1>3, <1>4, <1>5, <1>6, <1>7

\* The budget follows.
LEMMA BudgetIsKept == ASSUME PlaceInv, ReadInv, CountInv, WalkInv PROVE ParsesWithinBudget
<1> USE DiscoveryAssumption
<1> DEFINE steady == {r \in read : r.text.size = r.measured}
<1>1. \A r \in steady : r.text.size <= MaxFileBytes
  BY DEF ReadInv, IsReading
<1>2. BytesRead(steady) \subseteq Measured(read)
  <2> SUFFICES ASSUME NEW z \in BytesRead(steady) PROVE z \in Measured(read)
    OBVIOUS
  <2>1. PICK r \in steady : z \in {r} \X (1..r.text.size)
    BY DEF BytesRead
  <2>2. r \in read /\ z \in {r} \X (1..r.measured)
    BY <2>1
  <2> QED BY <2>2 DEF Measured
<1>3. Cardinality(BytesRead(steady)) <= Cardinality(Measured(read)) /\ Cardinality(Measured(read)) \in Nat
      /\ Cardinality(BytesRead(steady)) \in Nat
  <2> HIDE DEF steady
  <2> QED BY <1>2, FS_Subset, FS_CardinalityType DEF CountInv
<1>4. Cardinality(BytesRead(steady)) <= MaxTotalBytes
  <2> HIDE DEF steady
  <2> QED BY <1>3 DEF CountInv
<1>5. Len(found) <= MaxNodes * Cardinality(read)
  <2>1. CASE discovery # "walk"
    BY <2>1 DEF WalkInv
  <2>2. CASE discovery = "walk"
    <3>1. visited \subseteq Object /\ IsFiniteSet(Object) /\ found \in Seq(ToolRecord)
      BY <2>2 DEF WalkInv
    <3>2. Cardinality(visited) \in Nat /\ Cardinality(read) \in Nat /\ Len(found) \in Nat
      BY <3>1, FS_Subset, FS_CardinalityType, LenProperties DEF ReadInv
    <3>3. MaxNodes * (Cardinality(read) - 1) + Cardinality(visited) <= MaxNodes * Cardinality(read)
      BY <2>2, <3>2 DEF WalkInv
    <3>4. MaxNodes * (Cardinality(read) - 1) \in Int /\ MaxNodes * Cardinality(read) \in Int
      BY <3>2
    <3> QED BY <2>2, <3>2, <3>3, <3>4 DEF WalkInv
  <2> QED BY <2>1, <2>2
<1> HIDE DEF steady
<1>6. Cardinality(read) <= MaxDocuments
  BY DEF CountInv
<1> QED BY <1>1, <1>4, <1>5, <1>6 DEF ParsesWithinBudget, steady

----------------------------------------------------------------------------
(* The objects of a document *)

\* The root can be reached, and so can the children of what can.
LEMMA RootIsReachable ==
    ASSUME NEW doc \in Document, doc.root # None PROVE doc.root \in Reachable(doc)
<1>1. doc.root \in Object
  BY DEF Document
<1>2. ASSUME NEW S \in SUBSET Object,
             ({doc.root} \ {None}) \cup UNION {ToSet(doc.children[p]) : p \in S} \subseteq S
      PROVE  doc.root \in S
  BY <1>2
<1> QED BY <1>1, <1>2 DEF Reachable

\* What is in a reachable object is reachable.
LEMMA ChildIsReachable ==
    ASSUME NEW doc \in Document, NEW o \in Reachable(doc), NEW c \in ToSet(doc.children[o])
    PROVE  c \in Reachable(doc)
<1>1. o \in Object
  BY DEF Reachable
<1>2. doc.children[o] \in Seq(Object)
  BY <1>1 DEF Document
<1>3. c \in Object
  BY <1>2, MembersOf
<1>4. ASSUME NEW S \in SUBSET Object,
             ({doc.root} \ {None}) \cup UNION {ToSet(doc.children[p]) : p \in S} \subseteq S
      PROVE  c \in S
  <2>1. o \in S
    BY <1>4 DEF Reachable
  <2>2. ToSet(doc.children[o]) \subseteq UNION {ToSet(doc.children[p]) : p \in S}
    BY <2>1
  <2> HIDE <1>2
  <2> QED BY <1>4, <2>2
<1> QED BY <1>3, <1>4 DEF Reachable

\* A set that holds the root and the children of its members holds what can be reached.
LEMMA ClosedHoldsReachable ==
    ASSUME NEW doc, NEW S \in SUBSET Object, doc.root # None => doc.root \in S,
           \A o \in S : ToSet(doc.children[o]) \subseteq S
    PROVE  Reachable(doc) \subseteq S
<1>1. ({doc.root} \ {None}) \cup UNION {ToSet(doc.children[p]) : p \in S} \subseteq S
  OBVIOUS
<1> QED BY <1>1 DEF Reachable

\* The objects of a document are finitely many.
LEMMA ReachableIsFinite ==
    ASSUME NEW doc, NEW S \in SUBSET Reachable(doc)
    PROVE  /\ IsFiniteSet(S) /\ IsFiniteSet(Reachable(doc))
           /\ Cardinality(S) \in Nat /\ Cardinality(Reachable(doc)) \in Nat
           /\ Cardinality(S) <= Cardinality(Reachable(doc)) /\ Reachable(doc) \subseteq Object
           /\ Cardinality(S) = Cardinality(Reachable(doc)) => S = Reachable(doc)
<1>1. Reachable(doc) \subseteq Object
  BY DEF Reachable
<1>2. IsFiniteSet(Reachable(doc))
  BY <1>1, DiscoveryAssumption, FS_Subset
<1> QED BY <1>1, <1>2, FS_Subset, FS_CardinalityType

----------------------------------------------------------------------------
(* What the walk knows of its document *)

\* A way of k steps from the root to o, over objects of V and over none of them twice.
ReachedBy(doc, V, o, k) ==
    \E way \in [0..k -> Object] :
        /\ way[0] = doc.root /\ way[k] = o
        /\ \A j \in 0..(k - 1) : way[j + 1] \in ToSet(doc.children[way[j]])
        /\ \A j \in 0..(k - 1) : way[j] \in V
        /\ \A i, j \in 0..(k - 1) : way[i] = way[j] => i = j

\* The root is reached by the way of no steps.
LEMMA ReachedAtRoot ==
    ASSUME NEW doc \in Document, doc.root # None, NEW V PROVE ReachedBy(doc, V, doc.root, 0)
<1> DEFINE way == [j \in 0..0 |-> doc.root]
<1>1. doc.root \in Object
  BY DEF Document
<1>2. way \in [0..0 -> Object] /\ way[0] = doc.root
  BY <1>1
<1>3. 0..(0 - 1) = {}
  OBVIOUS
<1> HIDE DEF way
<1> QED BY <1>2, <1>3 DEF ReachedBy

\* A child of an object not visited before is one step further.
LEMMA ReachedChild ==
    ASSUME NEW doc, NEW V, NEW o \in Object, NEW k \in Nat, ReachedBy(doc, V, o, k), o \notin V,
           NEW c \in ToSet(doc.children[o]), c \in Object
    PROVE  ReachedBy(doc, V \cup {o}, c, k + 1)
<1>1. PICK way \in [0..k -> Object] :
        /\ way[0] = doc.root /\ way[k] = o
        /\ \A j \in 0..(k - 1) : way[j + 1] \in ToSet(doc.children[way[j]])
        /\ \A j \in 0..(k - 1) : way[j] \in V
        /\ \A i, j \in 0..(k - 1) : way[i] = way[j] => i = j
  BY DEF ReachedBy
<1>2. PICK n \in Nat : n = k + 1
  OBVIOUS
<1> DEFINE longer == [j \in 0..n |-> IF j = n THEN c ELSE way[j]]
<1>3. longer \in [0..n -> Object] /\ longer[0] = doc.root /\ longer[n] = c
  BY <1>1, <1>2
<1>4. \A j \in 0..k : longer[j] = way[j]
  BY <1>2
<1> HIDE DEF longer
<1>5. \A j \in 0..(n - 1) : longer[j + 1] \in ToSet(doc.children[longer[j]])
  <2> TAKE j \in 0..(n - 1)
  <2>1. CASE j = k
    BY <1>1, <1>2, <1>3, <1>4, <2>1
  <2>2. CASE j # k
    <3>1. j \in 0..(k - 1) /\ j \in 0..k /\ j + 1 \in 0..k
      BY <1>2, <2>2
    <3> QED BY <1>1, <1>4, <3>1
  <2> QED BY <2>1, <2>2
<1>6. \A j \in 0..(n - 1) : longer[j] \in V \cup {o}
  <2> TAKE j \in 0..(n - 1)
  <2>1. j = k \/ j \in 0..(k - 1)
    BY <1>2
  <2> QED BY <1>1, <1>4, <2>1
<1>7. \A i, j \in 0..(n - 1) : longer[i] = longer[j] => i = j
  <2> TAKE i, j \in 0..(n - 1)
  <2>1. (i = k \/ i \in 0..(k - 1)) /\ (j = k \/ j \in 0..(k - 1)) /\ i \in 0..k /\ j \in 0..k
    BY <1>2
  <2> QED BY <1>1, <1>4, <2>1
<1>8. ReachedBy(doc, V \cup {o}, c, n)
  BY <1>3, <1>5, <1>6, <1>7 DEF ReachedBy
<1> QED BY <1>2, <1>8

\* Ways stay ways as more is visited, and a long one is a reason to stop.
LEMMA ReachedStays ==
    ASSUME NEW doc, NEW V, NEW W, V \subseteq W, NEW o, NEW k, ReachedBy(doc, V, o, k)
    PROVE  ReachedBy(doc, W, o, k)
BY DEF ReachedBy

\* A way over visited objects is a way of the document.
LEMMA ReachedIsWay ==
    ASSUME NEW doc, NEW V, NEW o, NEW k, ReachedBy(doc, V, o, k) PROVE HasWay(doc, k)
BY DEF ReachedBy, HasWay

\* The objects on the stack.
Waiting(s) == {x[1] : x \in ToSet(s)}

\* The walk goes over objects of the document only, keeps the ways to those it has still
\* to visit, and has or will visit the root and the children of what it has visited.
Knows(doc, s, V) ==
    /\ V \subseteq Reachable(doc)
    /\ \A x \in ToSet(s) : /\ x[1] \in Reachable(doc) /\ x[2] \in 0..(MaxDepth + 1)
                           /\ ReachedBy(doc, V, x[1], x[2])
    /\ doc.root # None => doc.root \in V \cup Waiting(s)
    /\ \A o \in V : ToSet(doc.children[o]) \subseteq V \cup Waiting(s)

\* The stack is its last object and the rest.
LEMMA StackSplits ==
    ASSUME NEW S, NEW s \in Seq(S), s # <<>>
    PROVE  ToSet(s) = ToSet(Front(s)) \cup {Last(s)}
<1>1. PICK n \in Nat : Len(s) = n + 1
  <2>1. Len(s) - 1 \in Nat /\ Len(s) = (Len(s) - 1) + 1
    BY LastAndFront
  <2> QED BY <2>1
<1>2. PICK f \in Seq(S) : f = Front(s)
  BY LastAndFront
<1>3. Len(f) = n /\ Last(s) = s[n + 1] /\ \A k \in 1..n : f[k] = s[k]
  BY <1>1, <1>2, LastAndFront
<1>4. ToSet(s) = {s[k] : k \in 1..(n + 1)} /\ ToSet(f) = {f[k] : k \in 1..n}
  BY <1>1, <1>3, MembersOf
<1>5. \A k \in 1..(n + 1) : k \in 1..n \/ k = n + 1
  OBVIOUS
<1>6. \A k \in 1..n : k \in 1..(n + 1)
  OBVIOUS
<1>7. ToSet(s) \subseteq ToSet(f) \cup {Last(s)}
  BY <1>3, <1>4, <1>5
<1>8. ToSet(f) \subseteq ToSet(s)
  BY <1>3, <1>4, <1>6
<1>9. n + 1 \in 1..(n + 1)
  OBVIOUS
<1>10. Last(s) \in ToSet(s)
  BY <1>3, <1>4, <1>9
<1> QED BY <1>2, <1>7, <1>8, <1>10

\* A walk that begins knows the way to the root.
LEMMA KnowsAtRoot ==
    ASSUME NEW doc \in Document
    PROVE  Knows(doc, IF doc.root = None THEN <<>> ELSE <<<<doc.root, 0>>>>, {})
<1> USE DiscoveryAssumption
<1>1. CASE doc.root = None
  <2>1. ToSet(<<>>) = {}
    BY DEF ToSet
  <2> QED BY <1>1, <2>1 DEF Knows
<1>2. CASE doc.root # None
  <2>1. PICK s : s = <<<<doc.root, 0>>>>
    OBVIOUS
  <2>2. ToSet(s) = {<<doc.root, 0>>}
    BY <2>1 DEF ToSet
  <2>3. 0 \in 0..(MaxDepth + 1)
    OBVIOUS
  <2>4. Waiting(s) = {doc.root}
    BY <2>2 DEF Waiting
  <2>5. \A x \in ToSet(s) : x[1] = doc.root /\ x[2] = 0
    BY <2>2
  <2>6. Knows(doc, s, {})
    BY <1>2, <2>3, <2>4, <2>5, RootIsReachable, ReachedAtRoot DEF Knows
  <2> QED BY <1>2, <2>1, <2>6
<1> QED BY <1>1, <1>2

\* Taking an object from the stack that was visited before.
LEMMA KnowsAfterSkip ==
    ASSUME NEW doc, NEW s \in Seq(Object \X Nat), NEW V, Knows(doc, s, V), s # <<>>, Last(s)[1] \in V
    PROVE  Knows(doc, Front(s), V)
<1>1. ToSet(s) = ToSet(Front(s)) \cup {Last(s)}
  BY StackSplits
<1>2. V \cup Waiting(s) = V \cup Waiting(Front(s))
  BY <1>1 DEF Waiting
<1> QED BY <1>1, <1>2 DEF Knows

\* Visiting an object adds its children to the stack.
LEMMA KnowsAfterVisit ==
    ASSUME NEW doc \in Document, NEW s \in Seq(Object \X Nat), NEW V, Knows(doc, s, V), s # <<>>,
           NEW o \in Object, NEW d \in Nat, Last(s) = <<o, d>>, o \notin V, d <= MaxDepth
    PROVE  Knows(doc, Front(s) \o [k \in DOMAIN doc.children[o] |-> <<doc.children[o][k], d + 1>>], V \cup {o})
<1> USE DiscoveryAssumption
<1>1. PICK c \in Seq(Object) : c = doc.children[o]
  BY DEF Document
<1>2. PICK e \in Nat : e = d + 1 /\ e \in 0..(MaxDepth + 1)
  OBVIOUS
<1>3. PICK more : more = [k \in DOMAIN c |-> <<c[k], e>>]
  OBVIOUS
<1>4. more \in Seq(Object \X Nat) /\ Len(more) = Len(c) /\ \A k \in 1..Len(c) : more[k] = <<c[k], e>>
  BY <1>3, ChildrenTyped
<1>5. ToSet(more) = {<<x, e>> : x \in ToSet(c)}
  <2>1. ToSet(more) = {more[k] : k \in 1..Len(c)} /\ ToSet(c) = {c[k] : k \in 1..Len(c)}
    BY <1>4, MembersOf
  <2> QED BY <1>4, <2>1
<1>6. PICK t : t = Front(s) \o more
  OBVIOUS
<1>7. ToSet(t) = ToSet(Front(s)) \cup ToSet(more)
  <2>1. Front(s) \in Seq(Object \X Nat)
    BY LastAndFront
  <2> QED BY <1>4, <1>6, <2>1, MembersOfJoined
<1>8. ToSet(s) = ToSet(Front(s)) \cup {<<o, d>>}
  <2>1. ToSet(s) = ToSet(Front(s)) \cup {Last(s)}
    BY StackSplits
  <2> QED BY <2>1
<1>9. o \in Reachable(doc) /\ ReachedBy(doc, V, o, d)
  <2>1. <<o, d>> \in ToSet(s)
    BY <1>8
  <2>2. <<o, d>>[1] = o /\ <<o, d>>[2] = d
    OBVIOUS
  <2> QED BY <2>1, <2>2 DEF Knows
<1>10. Waiting(t) = Waiting(Front(s)) \cup ToSet(c) /\ Waiting(s) = Waiting(Front(s)) \cup {o}
  <2>1. Waiting(t) = Waiting(Front(s)) \cup Waiting(more)
    BY <1>7 DEF Waiting
  <2>2. Waiting(more) = ToSet(c)
    <3>1. PICK C : C = ToSet(c)
      OBVIOUS
    <3>2. \A z : z \in ToSet(more) <=> \E x \in C : z = <<x, e>>
      BY <1>5, <3>1
    <3>3. \A x : <<x, e>>[1] = x
      OBVIOUS
    <3>4. \A y : y \in Waiting(more) <=> \E z \in ToSet(more) : y = z[1]
      <4> TAKE y
      <4>1. PICK Z : Z = ToSet(more)
        OBVIOUS
      <4>2. Waiting(more) = {x[1] : x \in Z}
        BY <4>1 DEF Waiting
      <4> QED BY <4>1, <4>2
    <3>5. ASSUME NEW y \in Waiting(more) PROVE y \in C
      <4>1. PICK z \in ToSet(more) : y = z[1]
        BY <3>4
      <4>2. PICK x \in C : z = <<x, e>>
        BY <3>2
      <4> QED BY <3>3, <4>1, <4>2
    <3>6. ASSUME NEW y \in C PROVE y \in Waiting(more)
      <4>1. <<y, e>> \in ToSet(more)
        BY <3>2
      <4> QED BY <3>3, <3>4, <4>1
    <3> QED BY <3>1, <3>5, <3>6
  <2>3. <<o, d>>[1] = o
    OBVIOUS
  <2>4. Waiting(s) = Waiting(Front(s)) \cup {o}
    BY <1>8, <2>3 DEF Waiting
  <2> QED BY <2>1, <2>2, <2>4
<1>11. ASSUME NEW x \in ToSet(t)
       PROVE  x[1] \in Reachable(doc) /\ x[2] \in 0..(MaxDepth + 1) /\ ReachedBy(doc, V \cup {o}, x[1], x[2])
  <2>1. CASE x \in ToSet(Front(s))
    <3>1. x[1] \in Reachable(doc) /\ x[2] \in 0..(MaxDepth + 1) /\ ReachedBy(doc, V, x[1], x[2])
      BY <1>8, <2>1 DEF Knows
    <3> QED BY <3>1, ReachedStays
  <2>2. CASE x \in ToSet(more)
    <3>1. PICK y \in ToSet(c) : x = <<y, e>>
      BY <1>5, <2>2
    <3>2. y \in Object /\ y \in Reachable(doc)
      BY <1>1, <1>9, MembersOf, ChildIsReachable
    <3>3. ReachedBy(doc, V \cup {o}, y, e)
      BY <1>1, <1>2, <1>9, <3>2, ReachedChild
    <3> QED BY <1>2, <3>1, <3>2, <3>3
  <2> QED BY <1>7, <1>11, <2>1, <2>2
<1>12. doc.root # None => doc.root \in (V \cup {o}) \cup Waiting(t)
  BY <1>10 DEF Knows
<1>13. ASSUME NEW p \in V \cup {o} PROVE ToSet(doc.children[p]) \subseteq (V \cup {o}) \cup Waiting(t)
  <2>1. CASE p = o
    BY <1>1, <1>10, <2>1
  <2>2. CASE p \in V
    BY <1>10, <2>2 DEF Knows
  <2> QED BY <2>1, <2>2
<1>14. V \cup {o} \subseteq Reachable(doc)
  BY <1>9 DEF Knows
<1>15. Knows(doc, t, V \cup {o})
  BY <1>11, <1>12, <1>13, <1>14 DEF Knows
<1> QED BY <1>1, <1>2, <1>3, <1>6, <1>15

\* At the end of the walk everything was visited.
LEMMA KnowsAtEnd ==
    ASSUME NEW doc, NEW V, Knows(doc, <<>>, V) PROVE V = Reachable(doc)
<1>1. Waiting(<<>>) = {}
  BY DEF Waiting, ToSet
<1>2. V \in SUBSET Object
  BY DEF Knows, Reachable
<1>3. (doc.root # None => doc.root \in V) /\ \A o \in V : ToSet(doc.children[o]) \subseteq V
  BY <1>1 DEF Knows
<1>4. Reachable(doc) \subseteq V
  BY <1>2, <1>3, ClosedHoldsReachable
<1> QED BY <1>4 DEF Knows

----------------------------------------------------------------------------
(* Reasons to refuse a tree *)

\* Nothing in the file p is a reason to refuse the tree.
Harmless(p) ==
    LET text == tree.texts[p]
    IN  /\ ~tree.entries[p].link
        /\ text = Gone => ~Explicit
        /\ text # Gone =>
              /\ text.size <= MaxFileBytes /\ text.parse \in {"ok", "malformed"}
              /\ text.parse = "malformed" => ~Explicit
              /\ text.parse = "ok" => Cardinality(Reachable(text.doc)) <= MaxNodes

\* The documents that the traversal is through with.
Processed == Countable(Done) \ (IF discovery \in {"stat", "read", "walk"} THEN {current} ELSE {})

\* What makes discovery fail, but for the nesting.
Blamed == Refusable \/ Untolerated

\* What the traversal knows of a tree that nobody changes.
CauseInv ==
    /\ \A p \in DOMAIN tree.later : texts[p] \in {tree.texts[p], tree.later[p]}
    /\ ~Changed =>
          /\ \A r \in read : r.text = tree.texts[r.path] /\ r.measured = r.text.size
          /\ discovery \notin {"start", "failed"} =>
                /\ \A p \in Done : Skipped(tree.entries[p]) \/ tree.entries[p].inside
                /\ \A p \in Processed : Harmless(p) /\ (ParsesWell(p) => \E r \in read : r.path = p)
          /\ discovery = "read" =>
                /\ tree.texts[current] # Gone /\ size = tree.texts[current].size
                /\ ~tree.entries[current].link
          /\ discovery = "walk" =>
                ~tree.entries[current].link /\ Knows(tree.texts[current].doc, stack, visited)
          /\ discovery = "found" => pending = {}
          /\ discovery = "failed" => Blamed \/ MayBeTooDeep

\* Without a change the texts are those of the tree.
LEMMA Unchanged ==
    ASSUME PlaceInv, CauseInv, DiscoveryNext, ~Changed'
    PROVE  ~Changed /\ texts' = texts /\ tree' = tree
<1>1. tree' = tree
  BY DEF DiscoveryNext, Discover, StartDiscovery, Yield, Stat, Read, Visit, EndOfDocument, FinishDiscovery,
         ChangeText, SkipDocument, GiveUp, GoOn, discoveryVars
<1>2. CASE texts' = texts
  BY <1>1, <1>2 DEF Changed
<1>3. CASE \E p \in DOMAIN tree.later : ChangeText(p)
  <2>1. PICK p \in DOMAIN tree.later : ChangeText(p)
    BY <1>3
  <2>2. texts[p] # tree.later[p] /\ texts' = [texts EXCEPT ![p] = tree.later[p]] /\ texts[p] \in {tree.texts[p], tree.later[p]}
    BY <2>1 DEF ChangeText, CauseInv
  <2>3. p \in DOMAIN texts
    BY DEF PlaceInv, IsTree
  <2>4. texts'[p] = tree.later[p]
    BY <2>2, <2>3
  <2>5. texts'[p] = tree.texts[p]
    BY <1>1 DEF Changed
  <2> QED BY <2>2, <2>4, <2>5
<1>4. texts' = texts \/ \E p \in DOMAIN tree.later : ChangeText(p)
  BY DEF DiscoveryNext, Discover, StartDiscovery, Yield, Stat, Read, Visit, EndOfDocument, FinishDiscovery,
         SkipDocument, GiveUp, GoOn, discoveryVars
<1> QED BY <1>1, <1>2, <1>3, <1>4

\* A text is among those the tree holds or may hold.
LEMMA TextsStay ==
    ASSUME PlaceInv, CauseInv, DiscoveryNext
    PROVE  \A p \in DOMAIN tree'.later : texts'[p] \in {tree'.texts[p], tree'.later[p]}
<1>1. tree' = tree
  BY DEF DiscoveryNext, Discover, StartDiscovery, Yield, Stat, Read, Visit, EndOfDocument, FinishDiscovery,
         ChangeText, SkipDocument, GiveUp, GoOn, discoveryVars
<1>2. CASE texts' = texts
  BY <1>1, <1>2 DEF CauseInv
<1>3. CASE \E p \in DOMAIN tree.later : ChangeText(p)
  <2>1. PICK p \in DOMAIN tree.later : ChangeText(p)
    BY <1>3
  <2>2. texts' = [texts EXCEPT ![p] = tree.later[p]] /\ DOMAIN tree.later \subseteq DOMAIN texts
    BY <2>1 DEF ChangeText, PlaceInv, IsTree
  <2> QED BY <1>1, <2>2 DEF CauseInv
<1>4. texts' = texts \/ \E p \in DOMAIN tree.later : ChangeText(p)
  BY DEF DiscoveryNext, Discover, StartDiscovery, Yield, Stat, Read, Visit, EndOfDocument, FinishDiscovery,
         SkipDocument, GiveUp, GoOn, discoveryVars
<1> QED BY <1>2, <1>3, <1>4

\* What depends on the tree alone.
LEMMA TreeFacts ==
    ASSUME tree' = tree
    PROVE  /\ Blamed' = Blamed /\ MayBeTooDeep' = MayBeTooDeep /\ Explicit' = Explicit /\ Candidates' = Candidates
           /\ \A p : Harmless(p)' = Harmless(p) /\ ParsesWell(p)' = ParsesWell(p)
BY DEF Blamed, Refusable, Untolerated, MayBeTooDeep, Explicit, Candidates, Harmless, ParsesWell, Skipped, BytesOf

\* The counted documents are candidates, which are finitely many entries of the tree.
LEMMA CandidatesAreFinite ==
    ASSUME PlaceInv
    PROVE  /\ IsFiniteSet(Candidates) /\ Cardinality(Candidates) \in Nat /\ Countable(Done) \subseteq Candidates
           /\ IsFiniteSet(DOMAIN tree.entries) /\ Cardinality(DOMAIN tree.entries) \in Nat
           /\ Done \subseteq DOMAIN tree.entries
<1>1. IsFiniteSet(DOMAIN tree.entries) /\ Done \subseteq DOMAIN tree.entries
  BY DEF PlaceInv, IsTree, Done
<1>2. Candidates \subseteq DOMAIN tree.entries /\ Countable(Done) \subseteq Candidates
  BY <1>1 DEF Candidates, Countable
<1> QED BY <1>1, <1>2, FS_Subset, FS_CardinalityType

\* What was read is as much as was measured, if nothing changed.
LEMMA ReadAsMeasured ==
    ASSUME ReadInv, IsFiniteSet(Measured(read)),
           \A r \in read : r.text = tree.texts[r.path] /\ r.measured = r.text.size
    PROVE  LET P == {r.path : r \in read}
           IN  IsFiniteSet(BytesOf(P)) /\ Cardinality(BytesOf(P)) = Cardinality(Measured(read))
<1> DEFINE P == {r.path : r \in read}
           M == Measured(read)
           B == BytesOf(P)
           f == [z \in M |-> <<z[1].path, z[2]>>]
<1>1. \A z : z \in M <=> \E r \in read : z \in {r} \X (1..r.measured)
  BY DEF Measured
<1>2. \A z : z \in B <=> \E p \in P : z \in {p} \X (1..tree.texts[p].size)
  BY DEF BytesOf
<1>3. \A r \in read : r.path \in P /\ r.measured = tree.texts[r.path].size
  OBVIOUS
<1>4. \A p \in P : \E r \in read : p = r.path
  OBVIOUS
<1>5. f \in [M -> B]
  <2> SUFFICES ASSUME NEW z \in M PROVE <<z[1].path, z[2]>> \in B
    OBVIOUS
  <2>1. PICK r \in read : z \in {r} \X (1..r.measured)
    BY <1>1
  <2>2. z[1] = r /\ z[2] \in 1..tree.texts[r.path].size
    BY <1>3, <2>1
  <2>3. <<z[1].path, z[2]>> \in {r.path} \X (1..tree.texts[r.path].size)
    BY <2>2
  <2> QED BY <1>2, <1>3, <2>3
<1>6. \A y, z \in M : f[y] = f[z] => y = z
  <2> SUFFICES ASSUME NEW y \in M, NEW z \in M, f[y] = f[z] PROVE y = z
    OBVIOUS
  <2>1. PICK q \in read : y \in {q} \X (1..q.measured)
    BY <1>1
  <2>2. PICK r \in read : z \in {r} \X (1..r.measured)
    BY <1>1
  <2>3. y = <<q, y[2]>> /\ z = <<r, z[2]>> /\ y[1] = q /\ z[1] = r
    BY <2>1, <2>2
  <2>4. f[y] = <<q.path, y[2]>> /\ f[z] = <<r.path, z[2]>>
    BY <2>3
  <2>5. q.path = r.path /\ y[2] = z[2]
    BY <2>4
  <2>6. q = r
    BY <2>5 DEF ReadInv
  <2> QED BY <2>3, <2>5, <2>6
<1>7. \A b \in B : \E z \in M : f[z] = b
  <2> TAKE b \in B
  <2>1. PICK p \in P : b \in {p} \X (1..tree.texts[p].size)
    BY <1>2
  <2>2. PICK r \in read : p = r.path
    BY <1>4
  <2>3. b = <<p, b[2]>> /\ b[2] \in 1..r.measured
    BY <1>3, <2>1, <2>2
  <2>4. <<r, b[2]>> \in {r} \X (1..r.measured)
    BY <2>3
  <2>5. <<r, b[2]>> \in M
    BY <1>1, <2>4
  <2>6. f[<<r, b[2]>>] = <<r.path, b[2]>>
    BY <2>5
  <2> QED BY <2>2, <2>3, <2>5, <2>6
<1>8. DOMAIN f = M
  OBVIOUS
<1> HIDE DEF f
<1>9. f \in Bijection(M, B)
  BY <1>5, <1>6, <1>7, <1>8 DEF Bijection, Injection, Surjection, IsInjective
<1>10. ExistsBijection(M, B)
  BY <1>9 DEF ExistsBijection
<1> HIDE DEF M, B, P
<1>11. IsFiniteSet(B) /\ Cardinality(B) = Cardinality(M)
  BY <1>10, FS_Bijection DEF M
<1> QED BY <1>11 DEF M, B, P

\* Where no single file is too large, all of their bytes are finitely many.
LEMMA BytesAreFinite ==
    ASSUME NEW P, IsFiniteSet(P), \A p \in P : tree.texts[p].size \in Nat /\ tree.texts[p].size <= MaxFileBytes
    PROVE  IsFiniteSet(BytesOf(P)) /\ Cardinality(BytesOf(P)) \in Nat
<1>1. BytesOf(P) \subseteq P \X (1..MaxFileBytes)
  <2> SUFFICES ASSUME NEW z \in BytesOf(P) PROVE z \in P \X (1..MaxFileBytes)
    OBVIOUS
  <2>1. PICK p \in P : z \in {p} \X (1..tree.texts[p].size)
    BY DEF BytesOf
  <2>2. \A k \in 1..tree.texts[p].size : k \in 1..MaxFileBytes
    BY DiscoveryAssumption
  <2> QED BY <2>1, <2>2
<1>2. IsFiniteSet(1..MaxFileBytes)
  BY FS_Interval, DiscoveryAssumption
<1>3. IsFiniteSet(P \X (1..MaxFileBytes))
  BY <1>2, FS_Product
<1> QED BY <1>1, <1>3, FS_Subset, FS_CardinalityType

\* The well-parsed candidates read so far are no more than there are.
LEMMA ReadIsPartOfTree ==
    ASSUME PlaceInv, ReadInv, CauseInv, ~Changed
    PROVE  {r.path : r \in read} \subseteq {p \in Candidates : ParsesWell(p)}
<1> SUFFICES ASSUME NEW r \in read PROVE r.path \in Candidates /\ ParsesWell(r.path)
  OBVIOUS
<1>1. r.path \in Countable(Done) /\ r.text # Gone /\ r.text.parse = "ok"
  BY DEF ReadInv, IsReading
<1>2. r.text = tree.texts[r.path]
  BY DEF CauseInv
<1> QED BY <1>1, <1>2, CandidatesAreFinite DEF ParsesWell

\* The steps that leave the traversal where it is.
LEMMA CauseStays ==
    ASSUME PlaceInv, ReadInv, CauseInv, DiscoveryNext,
           UNCHANGED <<discovery, pending, current, size, stack, visited, read>>
    PROVE  CauseInv'
<1>1. \A p \in DOMAIN tree'.later : texts'[p] \in {tree'.texts[p], tree'.later[p]}
  BY TextsStay
<1>2. CASE Changed'
  BY <1>1, <1>2 DEF CauseInv
<1>3. CASE ~Changed'
  <2>1. ~Changed /\ texts' = texts /\ tree' = tree
    BY <1>3, Unchanged
  <2>2. Done' = Done /\ Processed' = Processed
    BY <2>1 DEF Done, Processed, Countable, Skipped
  <2> QED BY <1>1, <2>1, <2>2, TreeFacts DEF CauseInv, Skipped
<1> QED BY <1>2, <1>3

\* Going on to the next entry, the document in hand being harmless, or giving up with a reason.
LEMMA CauseMoves ==
    ASSUME PlaceInv, ReadInv, CauseInv, ~Changed, UNCHANGED <<tree, texts, pending, current, read>>,
           discovery \in {"stat", "read", "walk"},
           \/ discovery' = "list" /\ Harmless(current) /\ (ParsesWell(current) => \E r \in read : r.path = current)
           \/ discovery' = "failed" /\ (Blamed \/ MayBeTooDeep)
    PROVE  CauseInv'
<1>1. ~Changed' /\ Done' = Done /\ Countable(Done)' = Countable(Done)
  BY DEF Changed, Done, Countable, Skipped
<1>2. CASE discovery' = "failed"
  BY <1>1, <1>2, TreeFacts DEF CauseInv
<1>3. CASE discovery' = "list"
  <2>1. Processed' \subseteq Processed \cup {current}
    BY <1>1, <1>3 DEF Processed
  <2>2. \A p \in Processed' : Harmless(p) /\ (ParsesWell(p) => \E r \in read : r.path = p)
    BY <1>3, <2>1 DEF CauseInv
  <2> QED BY <1>1, <1>3, <2>2, TreeFacts DEF CauseInv, Skipped
<1> QED BY <1>2, <1>3

\* Every step keeps the account of why discovery stops.
LEMMA CauseInductive ==
    ASSUME PlaceInv, ReadInv, CountInv, WalkInv, CauseInv, DiscoveryNext PROVE CauseInv'
<1> USE DiscoveryAssumption
<1>0. \A p \in DOMAIN tree'.later : texts'[p] \in {tree'.texts[p], tree'.later[p]}
  BY TextsStay
<1>1. CASE Changed'
  BY <1>0, <1>1 DEF CauseInv
<1>2. SUFFICES ASSUME ~Changed' PROVE CauseInv'
  BY <1>1
<1>3. ~Changed /\ texts' = texts /\ tree' = tree /\ texts = tree.texts
  BY <1>2, Unchanged DEF Changed
<1>4. CASE StartDiscovery
  <2>1. CASE discovery' = "failed"
    <3>1. Blamed /\ read = {} /\ read' = read
      BY <1>4, <2>1 DEF StartDiscovery, GiveUp, GoOn, Blamed, Refusable, Untolerated, ReadInv
    <3> QED BY <1>0, <1>3, <2>1, <3>1, TreeFacts DEF CauseInv
  <2>2. CASE discovery' # "failed"
    <3>1. discovery' = "list" /\ pending' = DOMAIN tree.entries /\ read = {} /\ read' = {}
      BY <1>4, <2>2 DEF StartDiscovery, GiveUp, GoOn, ReadInv
    <3>2. Done' = {} /\ Processed' = {}
      BY <1>3, <3>1 DEF Done, Processed, Countable
    <3> QED BY <1>0, <1>3, <3>1, <3>2 DEF CauseInv
  <2> QED BY <2>1, <2>2
<1>5. ASSUME NEW p \in pending, Yield(p) PROVE CauseInv'
  <2>1. /\ UNCHANGED <<tree, read>> /\ discovery = "list" /\ pending' = pending \ {p} /\ current' = p
        /\ entries' = entries + 1
        /\ documents' = (IF p \in Countable({p}) THEN documents + 1 ELSE documents)
        /\ discovery' \in {"failed", "list", "stat"}
        /\ discovery' # "failed" => Skipped(tree.entries[p]) \/ tree.entries[p].inside
        /\ discovery' = "list" => Skipped(tree.entries[p])
        /\ discovery' = "failed" =>
              \/ ~Explicit /\ entries' > MaxEntries
              \/ ~Skipped(tree.entries[p]) /\ (~tree.entries[p].inside \/ documents' > MaxDocuments)
    BY <1>5 DEF Yield, Countable
  <2>2. p \in DOMAIN tree.entries /\ p \notin Done /\ Done' = Done \cup {p}
    BY <2>1 DEF PlaceInv, Done
  <2>3. CASE discovery' = "failed"
    <3>1. PlaceInv'
      BY PlaceInductive
    <3>2. Cardinality(Done') = Cardinality(Done) + 1 /\ Cardinality(Done') <= Cardinality(DOMAIN tree.entries)
      <4>1. IsFiniteSet(Done)
        BY CandidatesAreFinite, FS_Subset
      <4>2. Done' \subseteq DOMAIN tree.entries
        BY <2>2, CandidatesAreFinite
      <4> QED BY <2>2, <4>1, <4>2, CandidatesAreFinite, FS_AddElement, FS_Subset
    <3>3. CASE ~Explicit /\ entries' > MaxEntries
      <4>1. entries = Cardinality(Done) /\ entries \in Nat
        BY <2>1 DEF CountInv, PlaceInv
      <4>2. Cardinality(DOMAIN tree.entries) > MaxEntries
        BY <2>1, <3>2, <3>3, <4>1, CandidatesAreFinite
      <4>3. Blamed
        BY <3>3, <4>2 DEF Blamed, Refusable, Untolerated
      <4>4. Blamed'
        BY <1>3, <4>3, TreeFacts
      <4>5. ReadInv /\ \A r \in read' : r.text = tree'.texts[r.path] /\ r.measured = r.text.size
        BY <1>3, <2>1 DEF CauseInv
      <4> QED BY <1>0, <1>3, <2>3, <4>4, <4>5 DEF CauseInv
    <3>4. CASE ~Skipped(tree.entries[p]) /\ ~tree.entries[p].inside
      <4>1. p \in Candidates
        BY <2>2, <3>4 DEF Candidates
      <4>2. Blamed
        BY <3>4, <4>1 DEF Blamed, Refusable, Untolerated
      <4>3. Blamed'
        BY <1>3, <4>2, TreeFacts
      <4>4. \A r \in read' : r.text = tree'.texts[r.path] /\ r.measured = r.text.size
        BY <1>3, <2>1 DEF CauseInv
      <4> QED BY <1>0, <1>3, <2>3, <4>3, <4>4 DEF CauseInv
    <3>5. CASE ~Skipped(tree.entries[p]) /\ tree.entries[p].inside /\ documents' > MaxDocuments
      <4>1. p \in Candidates /\ p \in Countable({p}) /\ p \notin Countable(Done)
        BY <2>2, <3>5 DEF Candidates, Countable
      <4>2. documents = Cardinality(Countable(Done)) /\ documents' = documents + 1 /\ documents \in Nat
        BY <2>1, <4>1 DEF CountInv, PlaceInv
      <4>3. Countable(Done) \cup {p} \subseteq Candidates
        BY <4>1, CandidatesAreFinite
      <4>4. IsFiniteSet(Countable(Done))
        BY CandidatesAreFinite, FS_Subset
      <4>5. Cardinality(Countable(Done) \cup {p}) = documents + 1
        BY <4>1, <4>2, <4>4, FS_AddElement
      <4>6. documents + 1 <= Cardinality(Candidates)
        BY <4>3, <4>5, CandidatesAreFinite, FS_Subset
      <4>7. Blamed
        <5>1. Cardinality(Candidates) > MaxDocuments
          BY <3>5, <4>2, <4>6, CandidatesAreFinite
        <5> QED BY <5>1 DEF Blamed, Refusable, Untolerated
      <4>8. Blamed'
        BY <1>3, <4>7, TreeFacts
      <4>9. \A r \in read' : r.text = tree'.texts[r.path] /\ r.measured = r.text.size
        BY <1>3, <2>1 DEF CauseInv
      <4> QED BY <1>0, <1>3, <2>3, <4>8, <4>9 DEF CauseInv
    <3> QED BY <2>1, <2>3, <3>3, <3>4, <3>5
  <2>4. CASE discovery' # "failed"
    <3>1. Processed' \subseteq Processed
      <4>1. Countable(Done)' \subseteq Countable(Done) \cup {p}
        BY <1>3, <2>2 DEF Countable, Skipped
      <4>2. discovery' = "list" => p \notin Countable(Done)'
        BY <1>3, <2>1 DEF Countable, Skipped
      <4> QED BY <2>1, <2>4, <4>1, <4>2 DEF Processed
    <3>2. \A q \in Done' : Skipped(tree.entries[q]) \/ tree.entries[q].inside
      BY <1>3, <2>1, <2>2, <2>4 DEF CauseInv
    <3>3. \A q \in Processed' : Harmless(q) /\ (ParsesWell(q) => \E r \in read : r.path = q)
      BY <1>3, <2>1, <3>1 DEF CauseInv
    <3> QED BY <1>0, <1>3, <2>1, <2>4, <3>2, <3>3, TreeFacts DEF CauseInv, Skipped
  <2> QED BY <2>3, <2>4
<1> DEFINE e == tree.entries[current]
           text == tree.texts[current]
<1>6. CASE discovery \in {"stat", "read", "walk"}
  <2>1. current \in Candidates /\ current \in Countable(Done) /\ IsText(text) /\ e.inside
    <3>1. current \in Countable(Done)
      BY <1>6 DEF PlaceInv
    <3>2. current \in DOMAIN texts
      BY <3>1, CandidatesAreFinite DEF PlaceInv, IsTree, Countable
    <3> QED BY <1>3, <3>1, <3>2, CandidatesAreFinite DEF PlaceInv, Countable
  <2>2. CASE Stat
    <3>1. UNCHANGED <<tree, texts, pending, current, read>> /\ discovery = "stat"
      BY <2>2 DEF Stat, SkipDocument, GoOn
    <3>2. CASE ~e.link /\ text = Gone
      <4>1. discovery' = IF Explicit THEN "failed" ELSE "list"
        BY <1>3, <2>2, <3>2 DEF Stat, SkipDocument, GoOn
      <4>2. Explicit => Blamed
        BY <2>1, <3>2 DEF Blamed, Refusable, Untolerated
      <4>3. ~Explicit => Harmless(current)
        BY <3>2 DEF Harmless
      <4>4. ~ParsesWell(current)
        BY <3>2 DEF ParsesWell
      <4> QED BY <1>3, <3>1, <4>1, <4>2, <4>3, <4>4, CauseMoves
    <3>3. CASE e.link
      <4>1. discovery' = "failed" /\ Blamed
        BY <1>3, <2>1, <2>2, <3>3 DEF Stat, Blamed, Refusable, Untolerated
      <4> QED BY <1>3, <3>1, <4>1, CauseMoves
    <3>4. CASE ~e.link /\ text # Gone
      <4>1. /\ discovery' = IF text.size > MaxFileBytes THEN "failed" ELSE "read"
            /\ size' = text.size
        BY <1>3, <2>2, <3>4 DEF Stat
      <4>2. CASE text.size > MaxFileBytes
        <5>1. Blamed
          BY <2>1, <3>4, <4>2 DEF Blamed, Refusable, Untolerated
        <5> QED BY <1>3, <3>1, <4>1, <4>2, <5>1, CauseMoves
      <4>3. CASE ~(text.size > MaxFileBytes)
        <5>1. discovery' = "read" /\ Done' = Done /\ Processed' = Processed
          BY <1>3, <3>1, <4>1, <4>3 DEF Done, Processed, Countable, Skipped
        <5> QED BY <1>0, <1>3, <3>1, <3>4, <4>1, <5>1, TreeFacts DEF CauseInv, Skipped
      <4> QED BY <4>2, <4>3
    <3> QED BY <3>2, <3>3, <3>4
  <2>3. CASE Read
    <3>1. discovery = "read" /\ text # Gone /\ size = text.size /\ ~e.link /\ size <= MaxFileBytes
      BY <1>3, <2>3 DEF Read, CauseInv, PlaceInv
    <3>2. CASE text.parse = "malformed"
      <4>1. discovery' = (IF Explicit THEN "failed" ELSE "list") /\ UNCHANGED <<pending, current, read>>
        BY <1>3, <2>3, <3>1, <3>2 DEF Read, SkipDocument, GoOn
      <4>2. Explicit => Blamed
        BY <2>1, <3>1, <3>2 DEF Blamed, Refusable, Untolerated
      <4>3. ~Explicit => Harmless(current)
        BY <3>1, <3>2 DEF Harmless
      <4>4. ~ParsesWell(current)
        BY <3>2 DEF ParsesWell
      <4> QED BY <1>3, <3>1, <4>1, <4>2, <4>3, <4>4, CauseMoves
    <3>3. CASE text.parse \notin {"ok", "malformed"}
      <4>1. discovery' = "failed" /\ UNCHANGED <<pending, current, read>>
        BY <1>3, <2>3, <3>1, <3>3 DEF Read, GiveUp, GoOn
      <4>2. Blamed
        <5>1. text.parse \in {"duplicate", "recursion", "valueError"}
          BY <2>1, <3>1, <3>3 DEF IsText, Parse
        <5> QED BY <2>1, <3>1, <5>1 DEF Blamed, Refusable, Untolerated
      <4> QED BY <1>3, <3>1, <4>1, <4>2, CauseMoves
    <3>4. CASE text.parse = "ok" /\ OverTotal
      <4>1. discovery' = "failed" /\ UNCHANGED <<pending, current, read>>
        BY <1>3, <2>3, <3>1, <3>4 DEF Read, GiveUp, GoOn
      <4> DEFINE P == {r.path : r \in read}
                 W == {p \in Candidates : ParsesWell(p)}
      <4>2. IsFiniteSet(BytesOf(P)) /\ Cardinality(BytesOf(P)) = total
        <5>1. \A r \in read : r.text = tree.texts[r.path] /\ r.measured = r.text.size
          BY <1>3 DEF CauseInv
        <5>2. IsFiniteSet(Measured(read)) /\ total = Cardinality(Measured(read))
          BY <3>1 DEF CountInv
        <5> QED BY <5>1, <5>2, ReadAsMeasured
      <4>3. P \subseteq W /\ current \in W /\ current \notin P
        <5>1. P \subseteq W
          BY <1>3, ReadIsPartOfTree
        <5>2. current \notin P
          BY <3>1 DEF ReadInv
        <5> QED BY <2>1, <3>1, <3>4, <5>1, <5>2 DEF ParsesWell
      <4> HIDE DEF P
      <4>4. CASE \A p \in W : tree.texts[p].size <= MaxFileBytes
        <5>1. W \subseteq Candidates /\ IsFiniteSet(W)
          BY CandidatesAreFinite, FS_Subset
        <5>2. \A p \in W : tree.texts[p].size \in Nat
          <6> TAKE p \in W
          <6>1. p \in DOMAIN tree.texts /\ tree.texts[p] # Gone
            BY <5>1, CandidatesAreFinite DEF PlaceInv, IsTree, Candidates, ParsesWell
          <6>2. IsText(tree.texts[p])
            BY <6>1 DEF PlaceInv, IsTree
          <6> QED BY <6>1, <6>2 DEF IsText
        <5>3. IsFiniteSet(BytesOf(W)) /\ Cardinality(BytesOf(W)) \in Nat
          <6> HIDE DEF W
          <6> QED BY <4>4, <5>1, <5>2, BytesAreFinite
        <5>4. BytesOf(P \cup {current}) \subseteq BytesOf(W)
          BY <4>3 DEF BytesOf
        <5> DEFINE mine == {current} \X (1..text.size)
        <5>5. BytesOf(P \cup {current}) = BytesOf(P) \cup mine /\ BytesOf(P) \cap mine = {}
          <6>1. \A z : z \in BytesOf(P \cup {current}) <=> \E p \in P \cup {current} : z \in {p} \X (1..tree.texts[p].size)
            BY DEF BytesOf
          <6>2. \A z : z \in BytesOf(P) <=> \E p \in P : z \in {p} \X (1..tree.texts[p].size)
            BY DEF BytesOf
          <6>3. \A z : z \in mine <=> z \in {current} \X (1..tree.texts[current].size)
            OBVIOUS
          <6>4. \A p \in P \cup {current} : p \in P \/ p = current
            OBVIOUS
          <6>5. BytesOf(P \cup {current}) = BytesOf(P) \cup mine
            <7> HIDE DEF mine, W
            <7> QED BY <6>1, <6>2, <6>3, <6>4, Zenon
          <6>6. ASSUME NEW z \in BytesOf(P), z \in mine PROVE FALSE
            <7>1. PICK p \in P : z \in {p} \X (1..tree.texts[p].size)
              BY <6>2, <6>6
            <7>2. z[1] = p /\ z[1] = current
              BY <6>6, <7>1
            <7> QED BY <4>3, <7>2
          <6> QED BY <6>5, <6>6
        <5>6. IsFiniteSet(mine) /\ Cardinality(mine) = text.size
          BY <3>1, CountMarks DEF PlaceInv
        <5> HIDE DEF mine, W
        <5>7. Cardinality(BytesOf(P \cup {current})) = total + text.size
          BY <4>2, <5>5, <5>6, CountDisjoint
        <5>8. Cardinality(BytesOf(P \cup {current})) <= Cardinality(BytesOf(W))
              /\ Cardinality(BytesOf(P \cup {current})) \in Nat
          BY <5>3, <5>4, FS_Subset, FS_CardinalityType
        <5>9. Cardinality(BytesOf(W)) > MaxTotalBytes
          <6>1. total + text.size > MaxTotalBytes
            BY <3>1, <3>4 DEF OverTotal
          <6> QED BY <5>3, <5>7, <5>8, <6>1
        <5>10. Blamed
          BY <5>9 DEF Blamed, Refusable, Untolerated, W
        <5> QED BY <1>3, <3>1, <4>1, <5>10, CauseMoves
      <4>5. CASE \E p \in W : ~(tree.texts[p].size <= MaxFileBytes)
        <5>1. PICK p \in Candidates : ParsesWell(p) /\ ~(tree.texts[p].size <= MaxFileBytes)
          BY <4>5
        <5>2. tree.texts[p] # Gone /\ IsText(tree.texts[p])
          BY <5>1 DEF PlaceInv, IsTree, Candidates, ParsesWell
        <5>3. tree.texts[p].size > MaxFileBytes
          BY <5>1, <5>2 DEF IsText
        <5>4. Blamed
          BY <5>1, <5>2, <5>3 DEF Blamed, Refusable, Untolerated
        <5> QED BY <1>3, <3>1, <4>1, <5>4, CauseMoves
      <4> QED BY <4>4, <4>5
    <3>5. CASE text.parse = "ok" /\ ~OverTotal
      <4> DEFINE r == [path |-> current, text |-> text, measured |-> size]
      <4>1. /\ discovery' = "walk" /\ UNCHANGED <<pending, current>> /\ visited' = {}
            /\ stack' = IF text.doc.root = None THEN <<>> ELSE <<<<text.doc.root, 0>>>>
            /\ read' = read \cup {r}
        BY <1>3, <2>3, <3>1, <3>5 DEF Read
      <4>2. Done' = Done /\ Processed' = Processed
        BY <1>3, <3>1, <4>1 DEF Done, Processed, Countable, Skipped
      <4>3. text.doc \in Document
        BY <2>1, <3>1 DEF IsText
      <4>4. Knows(text.doc, stack', visited')
        BY <4>1, <4>3, KnowsAtRoot
      <4>5. \A q \in read' : q.text = tree.texts[q.path] /\ q.measured = q.text.size
        BY <1>3, <3>1, <4>1 DEF CauseInv
      <4>6. Knows(text.doc, stack, visited)'
        BY <1>3, <4>1, <4>4
      <4>7. \A p \in Processed' : Harmless(p) /\ (ParsesWell(p) => \E q \in read' : q.path = p)
        BY <1>3, <3>1, <4>1, <4>2 DEF CauseInv
      <4>8. \A p \in Done' : Skipped(tree.entries[p]) \/ tree.entries[p].inside
        BY <1>3, <3>1, <4>2 DEF CauseInv
      <4> HIDE DEF r
      <4> QED BY <1>0, <1>3, <3>1, <4>1, <4>5, <4>6, <4>7, <4>8, TreeFacts DEF CauseInv, Skipped
    <3> QED BY <3>2, <3>3, <3>4, <3>5
  <2>4. CASE Visit
    <3> DEFINE doc == Parsed.text.doc
    <3>1. PICK o, d : VisitOnce(o, d, doc)
      BY <2>4, VisitSteps
    <3>2. discovery = "walk"
      BY <2>4, VisitSteps
    <3>3. Parsed \in read /\ Parsed.path = current /\ doc \in Document
      BY <3>2, DocumentInHand
    <3>4. text = Parsed.text /\ ParsesWell(current) /\ doc = text.doc
      <4>1. text = Parsed.text
        BY <1>3, <3>3 DEF CauseInv
      <4>2. Parsed.text # Gone /\ Parsed.text.parse = "ok"
        BY <3>3 DEF ReadInv, IsReading
      <4> QED BY <4>1, <4>2 DEF ParsesWell
    <3>5. Knows(doc, stack, visited)
      BY <1>3, <3>2, <3>4 DEF CauseInv
    <3>6. /\ stack \in Seq(Object \X Nat) /\ stack # <<>> /\ Last(stack) = <<o, d>> /\ o \in Object /\ d \in Nat
          /\ UNCHANGED <<pending, current, read>> /\ visited \subseteq Object
      BY <3>1, <3>2 DEF VisitOnce, WalkInv
    <3> HIDE DEF doc
    <3>7. o \in Reachable(doc) /\ d \in 0..(MaxDepth + 1) /\ ReachedBy(doc, visited, o, d)
      <4>1. <<o, d>> \in ToSet(stack)
        BY <3>6, StackSplits
      <4>2. <<o, d>>[1] = o /\ <<o, d>>[2] = d
        OBVIOUS
      <4> QED BY <3>5, <4>1, <4>2 DEF Knows
    <3>8. CASE discovery' = "failed"
      <4>1. CASE d > MaxDepth
        <5>1. d = MaxDepth + 1
          BY <3>7, <4>1
        <5>2. HasWay(doc, MaxDepth + 1)
          BY <3>7, <5>1, ReachedIsWay
        <5>3. MayBeTooDeep
          BY <2>1, <3>4, <5>2 DEF MayBeTooDeep
        <5> QED BY <1>3, <3>2, <3>6, <3>8, <5>3, CauseMoves
      <4>2. CASE o \notin visited /\ Cardinality(visited) = MaxNodes
        <5>1. visited \in SUBSET Reachable(doc)
          BY <3>5 DEF Knows
        <5>2. Cardinality(Reachable(doc)) > MaxNodes
          BY <3>7, <4>2, <5>1, ReachableIsFinite
        <5>3. Blamed
          <6>1. text # Gone /\ text.parse = "ok"
            BY <3>4 DEF ParsesWell
          <6> QED BY <2>1, <3>4, <5>2, <6>1 DEF Blamed, Refusable, Untolerated
        <5> QED BY <1>3, <3>2, <3>6, <3>8, <5>3, CauseMoves
      <4> QED BY <3>1, <3>8, <4>1, <4>2 DEF VisitOnce
    <3>9. CASE discovery' = "walk"
      <4>1. Knows(doc, stack', visited')
        <5>1. CASE o \in visited
          <6>1. stack' = Front(stack) /\ visited' = visited
            BY <3>1, <3>9, <5>1 DEF VisitOnce
          <6>2. Last(stack)[1] = o
            BY <3>6
          <6> QED BY <3>5, <3>6, <5>1, <6>1, <6>2, KnowsAfterSkip
        <5>2. CASE o \notin visited
          <6>1. /\ visited' = visited \cup {o} /\ ~(d > MaxDepth)
                /\ stack' = Front(stack) \o [k \in DOMAIN doc.children[o] |-> <<doc.children[o][k], d + 1>>]
            BY <3>1, <3>9, <5>2 DEF VisitOnce
          <6>2. d <= MaxDepth
            BY <3>6, <6>1
          <6> QED BY <3>3, <3>5, <3>6, <5>2, <6>1, <6>2, KnowsAfterVisit DEF doc
        <5> QED BY <5>1, <5>2
      <4>2. Knows(text.doc, stack, visited)'
        BY <1>3, <3>4, <3>6, <4>1
      <4>3. Done' = Done /\ Processed' = Processed
        BY <1>3, <3>2, <3>6, <3>9 DEF Done, Processed, Countable, Skipped
      <4> QED BY <1>0, <1>3, <3>2, <3>6, <3>9, <4>2, <4>3, TreeFacts DEF CauseInv, Skipped
    <3> QED BY <3>1, <3>8, <3>9 DEF VisitOnce
  <2>5. CASE EndOfDocument
    <3>1. discovery = "walk" /\ stack = <<>> /\ discovery' = "list" /\ UNCHANGED <<pending, current, read>>
      BY <2>5 DEF EndOfDocument, GoOn
    <3>2. Parsed \in read /\ Parsed.path = current
      BY <3>1, DocumentInHand
    <3>3. text = Parsed.text /\ text # Gone /\ text.parse = "ok" /\ text.size <= MaxFileBytes
      <4>1. text = Parsed.text /\ Parsed.measured = text.size
        BY <1>3, <3>2 DEF CauseInv
      <4> QED BY <3>2, <4>1 DEF ReadInv, IsReading
    <3>4. visited = Reachable(text.doc)
      BY <1>3, <3>1, KnowsAtEnd DEF CauseInv
    <3>5. Cardinality(visited) <= MaxNodes /\ ~e.link
      BY <1>3, <3>1 DEF WalkInv, CauseInv
    <3>6. Harmless(current)
      BY <3>3, <3>4, <3>5 DEF Harmless
    <3> QED BY <1>3, <3>1, <3>2, <3>6, CauseMoves
  <2>6. CASE UNCHANGED discoveryVars
    BY <2>6, CauseStays DEF discoveryVars
  <2>7. CASE \E p \in DOMAIN tree.later : ChangeText(p)
    BY <2>7, CauseStays DEF ChangeText
  <2>8. ~StartDiscovery /\ ~FinishDiscovery /\ \A p \in pending : ~Yield(p)
    BY <1>6 DEF StartDiscovery, FinishDiscovery, Yield, GiveUp
  <2> QED BY <2>2, <2>3, <2>4, <2>5, <2>6, <2>7, <2>8 DEF DiscoveryNext, Discover
<1>7. CASE FinishDiscovery
  <2>1. /\ discovery = "list" /\ discovery' = "found" /\ pending = {} /\ UNCHANGED <<pending, current, read>>
    BY <1>7 DEF FinishDiscovery
  <2>2. Done' = Done /\ Processed' = Processed
    BY <1>3, <2>1 DEF Done, Processed, Countable, Skipped
  <2> QED BY <1>0, <1>3, <2>1, <2>2, TreeFacts DEF CauseInv, Skipped
<1>8. CASE UNCHANGED discoveryVars \/ \E p \in DOMAIN tree.later : ChangeText(p)
  BY <1>8, CauseStays DEF discoveryVars, ChangeText
<1>9. discovery \notin {"stat", "read", "walk"} => ~Stat /\ ~Read /\ ~Visit /\ ~EndOfDocument
  BY DEF Stat, Read, Visit, EndOfDocument
<1> QED BY <1>4, <1>5, <1>6, <1>7, <1>8, <1>9 DEF DiscoveryNext, Discover

\* At the end every document was looked at and none was a reason to stop.
LEMMA AllLookedAt ==
    ASSUME PlaceInv, ReadInv, CauseInv, discovery = "found", ~Changed
    PROVE  /\ Done = DOMAIN tree.entries /\ Countable(Done) = Candidates
           /\ \A p \in Candidates : /\ tree.entries[p].inside /\ Harmless(p)
                                    /\ ParsesWell(p) => \E r \in read : r.path = p
           /\ {r.path : r \in read} = {p \in Candidates : ParsesWell(p)}
<1>1. Done = DOMAIN tree.entries
  BY DEF Done, CauseInv
<1>2. \A p \in Candidates : tree.entries[p].inside
  BY <1>1 DEF CauseInv, Candidates
<1>3. Countable(Done) = Candidates
  BY <1>1, <1>2 DEF Countable, Candidates
<1>4. Processed = Candidates
  BY <1>3 DEF Processed
<1>5. \A p \in Candidates : Harmless(p) /\ (ParsesWell(p) => \E r \in read : r.path = p)
  BY <1>4 DEF CauseInv
<1>6. {r.path : r \in read} \subseteq {p \in Candidates : ParsesWell(p)}
  BY ReadIsPartOfTree
<1> QED BY <1>1, <1>2, <1>3, <1>5, <1>6

\* A tree in which discovery found its tools held no cause to refuse it.
LEMMA FoundIsNotRefusable ==
    ASSUME PlaceInv, ReadInv, CountInv, CauseInv, discovery = "found", ~Changed PROVE ~Refusable
<1> USE DiscoveryAssumption
<1>1. tree.root \in {"directory", "document"}
  BY DEF PlaceInv
<1>2. Explicit \/ Cardinality(DOMAIN tree.entries) <= MaxEntries
  BY AllLookedAt DEF CountInv
<1>3. Cardinality(Candidates) <= MaxDocuments
  BY AllLookedAt DEF CountInv
<1>4. Cardinality(BytesOf({p \in Candidates : ParsesWell(p)})) <= MaxTotalBytes
  <2>1. \A r \in read : r.text = tree.texts[r.path] /\ r.measured = r.text.size
    BY DEF CauseInv
  <2>2. Cardinality(BytesOf({r.path : r \in read})) = Cardinality(Measured(read))
    BY <2>1, ReadAsMeasured DEF CountInv
  <2> QED BY <2>2, AllLookedAt DEF CountInv
<1>5. ASSUME NEW p \in Candidates
      PROVE  LET e == tree.entries[p]
                 text == tree.texts[p]
             IN  /\ e.inside /\ ~e.link /\ (text = Gone => ~Explicit)
                 /\ text # Gone =>
                       /\ ~(text.size > MaxFileBytes) /\ text.parse \notin {"duplicate", "recursion"}
                       /\ text.parse \in {"malformed", "valueError"} => ~Explicit
                       /\ text.parse = "ok" => ~(Cardinality(Reachable(text.doc)) > MaxNodes)
  <2>1. tree.entries[p].inside /\ Harmless(p)
    BY AllLookedAt
  <2>2. tree.texts[p] # Gone => tree.texts[p].size \in Nat
    <3>1. p \in DOMAIN tree.texts
      BY DEF PlaceInv, IsTree, Candidates
    <3>2. IsText(tree.texts[p])
      BY <3>1 DEF PlaceInv, IsTree
    <3> QED BY <3>2 DEF IsText
  <2>3. Cardinality(Reachable(tree.texts[p].doc)) \in Nat
    BY ReachableIsFinite
  <2> QED BY <2>1, <2>2, <2>3 DEF Harmless
<1>6. ~(~Explicit /\ Cardinality(DOMAIN tree.entries) > MaxEntries)
  BY <1>2, CandidatesAreFinite
<1>7. ~(Cardinality(Candidates) > MaxDocuments)
  BY <1>3, CandidatesAreFinite
<1>8. ~(Cardinality(BytesOf({p \in Candidates : ParsesWell(p)})) > MaxTotalBytes)
  <2>1. Cardinality(BytesOf({p \in Candidates : ParsesWell(p)})) \in Nat
    <3>1. \A r \in read : r.text = tree.texts[r.path] /\ r.measured = r.text.size
      BY DEF CauseInv
    <3>2. IsFiniteSet(BytesOf({r.path : r \in read}))
      BY <3>1, ReadAsMeasured DEF CountInv
    <3> QED BY <3>2, AllLookedAt, FS_CardinalityType
  <2> QED BY <1>4, <2>1
<1> QED BY <1>1, <1>5, <1>6, <1>7, <1>8 DEF Refusable

\* A scan that stops has a reason, and one that does not has none.
LEMMA CauseIsKnown ==
    ASSUME PlaceInv, ReadInv, CountInv, CauseInv PROVE StopsForCause
BY FoundIsNotRefusable DEF StopsForCause, CauseInv, Blamed

\* The start of the traversal.
LEMMA DiscoveryStarts ==
    ASSUME NEW t, IsTree(t), DiscoveryInit(t) PROVE PlaceInv /\ ReadInv /\ CountInv /\ WalkInv /\ CauseInv
<1> USE DiscoveryAssumption
<1>1. /\ tree = t /\ texts = t.texts /\ discovery = "start" /\ pending = {} /\ entries = 0 /\ documents = 0
      /\ total = 0 /\ current = None /\ size = 0 /\ read = {} /\ found = <<>>
  BY DEF DiscoveryInit
<1>2. Done = {} /\ Countable(Done) = {} /\ Processed = {}
  BY <1>1 DEF Done, Countable, Processed
<1>3. IsFiniteSet({}) /\ Cardinality({}) = 0
  BY FS_EmptySet
<1>4. PlaceInv
  <2>1. IsTree(tree)
    BY <1>1
  <2>2. DOMAIN texts = DOMAIN tree.texts /\ \A p \in DOMAIN texts : IsText(texts[p])
    BY <1>1, <2>1 DEF IsTree
  <2>3. pending \subseteq DOMAIN tree.entries /\ current \in DOMAIN tree.entries \cup {None}
    BY <1>1
  <2>4. entries \in Nat /\ documents \in Nat /\ total \in Nat /\ size \in Nat
    BY <1>1
  <2> QED BY <1>1, <2>1, <2>2, <2>3, <2>4 DEF PlaceInv
<1>5. ReadInv
  BY <1>1, <1>3 DEF ReadInv
<1>6. Measured(read) = {}
  BY <1>1 DEF Measured
<1>7. CountInv
  <2>1. Cardinality(Measured(read)) = 0 /\ IsFiniteSet(Measured(read)) /\ Cardinality(read) = 0
    BY <1>1, <1>3, <1>6
  <2>2. Cardinality(Done) = 0 /\ Cardinality(Countable(Done)) = 0
    BY <1>2, <1>3
  <2>3. 0 <= MaxTotalBytes /\ 0 <= MaxDocuments
    OBVIOUS
  <2> QED BY <1>1, <2>1, <2>2, <2>3 DEF CountInv
<1>8. WalkInv
  <2>1. found \in Seq(ToolRecord) /\ Len(found) = 0
    BY <1>1, EmptySeq
  <2> QED BY <1>1, <1>3, <2>1 DEF WalkInv
<1>9. CauseInv
  BY <1>1, <1>2 DEF CauseInv
<1> QED BY <1>4, <1>5, <1>7, <1>8, <1>9

----------------------------------------------------------------------------
(* Definitions of one tool, joined *)

\* Natural numbers up to n are well-founded by their order.
Less == {p \in Nat \X Nat : p[1] < p[2]}

\* The numbers up to n are well-founded under <.
LEMMA UpToIsWellFounded == ASSUME NEW n \in Nat PROVE IsWellFoundedOn(Less, 0..n)
<1>1. OpToRel(<, Nat) = Less
  BY DEF OpToRel, Less
<1>2. IsWellFoundedOn(Less, Nat)
  BY <1>1, NatLessThanWellFounded
<1> QED BY <1>2, IsWellFoundedOnSubset

\* The joined schemas are lists of objects, of those of the definitions joined.
LEMMA SchemasOfMembers ==
    ASSUME NEW f \in Seq(ToolRecord), NEW K \in SUBSET (1..Len(f))
    PROVE  /\ SchemasOf(f, K) \in Seq(SchemaNode)
           /\ ToSet(SchemasOf(f, K)) = UNION {ToSet(f[k].schema) : k \in K}
<1>1. PICK n \in Nat : n = Len(f)
  BY LenProperties
<1> DEFINE Val == Seq(SchemaNode)
           D == 0..n
           F == [D -> Val]
           Body(u, k) == IF k = 0 THEN <<>>
                         ELSE IF k \in K /\ ~(ToSet(f[k].schema) \subseteq ToSet(u[k - 1]))
                         THEN u[k - 1] \o f[k].schema ELSE u[k - 1]
           step == [p \in F \X D |-> Body(p[1], p[2])]
           upTo == CHOOSE u : u = [k \in D |-> Body(u, k)]
<1> HIDE DEF Val, F, D, Body, step, upTo
<1>0. \A i \in K : i \in Nat /\ i <= n /\ ~(i <= 0)
  BY <1>1
<1>2. \A k \in 1..n : f[k].schema \in Val /\ k - 1 \in D /\ k \in D
  <2> TAKE k \in 1..n
  <2>1. f[k] \in ToolRecord
    BY <1>1, ElementOfSeq
  <2> QED BY <2>1 DEF ToolRecord, Val, D
<1>3. \A u \in F : \A k \in D : Body(u, k) \in Val
  <2> TAKE u \in F
  <2> TAKE k \in D
  <2>1. CASE k = 0
    BY <2>1, EmptySeq DEF Body, Val
  <2>2. CASE k # 0
    <3>1. k \in 1..n /\ k - 1 \in D
      BY <2>2 DEF D
    <3>2. u[k - 1] \in Val /\ f[k].schema \in Val
      BY <1>2, <3>1 DEF F
    <3>3. u[k - 1] \o f[k].schema \in Val
      BY <3>2, ConcatProperties DEF Val
    <3> QED BY <2>2, <3>2, <3>3 DEF Body
  <2> QED BY <2>1, <2>2
<1>4. \A u \in F : \A k \in D : step[<<u, k>>] = Body(u, k)
  <2> TAKE u \in F
  <2> TAKE k \in D
  <2>1. <<u, k>> \in F \X D /\ <<u, k>>[1] = u /\ <<u, k>>[2] = k
    OBVIOUS
  <2> QED BY <2>1 DEF step
<1>5. step \in [F \X D -> Val]
  BY <1>3 DEF step
<1>6. Local(step, Less, D, Val)
  <2>1. ASSUME NEW g \in F, NEW h \in F, NEW k \in D, \A j \in D : <<j, k>> \in Less => g[j] = h[j]
        PROVE  step[<<g, k>>] = step[<<h, k>>]
    <3>1. CASE k = 0
      BY <1>4, <3>1 DEF Body
    <3>2. CASE k # 0
      <4>1. k - 1 \in D /\ k - 1 \in Nat /\ k \in Nat /\ k - 1 < k
        BY <3>2 DEF D
      <4>2. <<k - 1, k>> \in Less
        BY <4>1 DEF Less
      <4>3. g[k - 1] = h[k - 1]
        BY <2>1, <4>1, <4>2
      <4>4. Body(g, k) = Body(h, k)
        BY <4>3 DEF Body
      <4> QED BY <1>4, <4>4
    <3> QED BY <3>1, <3>2
  <2> QED BY <2>1 DEF Local, F
<1>7. IsWellFoundedOn(Less, D)
  BY UpToIsWellFounded DEF D
<1>8. Val # {}
  BY EmptySeq DEF Val
<1>9. \E u \in F : \A k \in D : u[k] = step[<<u, k>>]
  <2>1. step \in [[D -> Val] \X D -> Val]
    BY <1>5 DEF F
  <2>2. \E u \in [D -> Val] : \A k \in D : u[k] = step[<<u, k>>]
    <3>1. Recursion(step, Less, D, Val)
      BY <2>1, <1>6, <1>7, <1>8 DEF Recursion
    <3> QED BY <3>1, RecursionIsDefined
  <2> QED BY <2>2 DEF F
<1>10. PICK v \in F : \A k \in D : v[k] = Body(v, k)
  BY <1>4, <1>9
<1>11. v = [k \in D |-> Body(v, k)]
  BY <1>10 DEF F
<1>12. upTo = [k \in D |-> Body(upTo, k)]
  BY <1>11 DEF upTo
<1>13. SchemasOf(f, K) = upTo[n]
  BY <1>1 DEF SchemasOf, upTo, D, Body
<1>14. /\ upTo[0] = <<>>
       /\ \A k \in 1..n : upTo[k] = IF k \in K /\ ~(ToSet(f[k].schema) \subseteq ToSet(upTo[k - 1]))
                                    THEN upTo[k - 1] \o f[k].schema ELSE upTo[k - 1]
  <2>1. \A k \in D : upTo[k] = Body(upTo, k)
    BY <1>12
  <2>2. 0 \in D /\ \A k \in 1..n : k \in D /\ k # 0
    BY DEF D
  <2> QED BY <2>1, <2>2 DEF Body
<1> DEFINE Good(k) == upTo[k] \in Val /\ ToSet(upTo[k]) = UNION {ToSet(f[j].schema) : j \in {i \in K : i <= k}}
           Bad == {k \in D : ~Good(k)}
<1> USE DEF Val, D
<1>15. Good(0)
  <2>1. {i \in K : i <= 0} = {}
    BY <1>0
  <2>2. ToSet(<<>>) = {}
    BY DEF ToSet
  <2> QED BY <1>14, <2>1, <2>2, EmptySeq
<1>16. ASSUME NEW k \in 1..n, Good(k - 1) PROVE Good(k)
  <2>1. {i \in K : i <= k} = {i \in K : i <= k - 1} \cup (K \cap {k})
    <3>1. \A i \in K : i <= k <=> i <= k - 1 \/ i = k
      BY <1>0
    <3> QED BY <3>1
  <2> DEFINE low == {i \in K : i <= k - 1}
  <2>2. PICK s \in Val : s = upTo[k - 1] /\ ToSet(s) = UNION {ToSet(f[j].schema) : j \in low}
    BY <1>16
  <2>3. PICK t \in Val : t = f[k].schema
    BY <1>2
  <2>4. upTo[k] = IF k \in K /\ ~(ToSet(t) \subseteq ToSet(s)) THEN s \o t ELSE s
    BY <1>14, <2>2, <2>3
  <2>5. s \o t \in Val /\ ToSet(s \o t) = ToSet(s) \cup ToSet(t)
    BY ConcatProperties, MembersOfJoined
  <2>6. ToSet(upTo[k]) = IF k \in K THEN ToSet(s) \cup ToSet(t) ELSE ToSet(s)
    BY <2>4, <2>5
  <2>7. UNION {ToSet(f[j].schema) : j \in low \cup (K \cap {k})} =
          IF k \in K THEN ToSet(s) \cup ToSet(t) ELSE ToSet(s)
    <3> HIDE DEF low
    <3>1. CASE k \in K
      <4>1. K \cap {k} = {k}
        BY <3>1
      <4> QED BY <2>2, <2>3, <3>1, <4>1
    <3>2. CASE k \notin K
      <4>1. K \cap {k} = {}
        BY <3>2
      <4> QED BY <2>2, <3>2, <4>1
    <3> QED BY <3>1, <3>2
  <2>8. upTo[k] \in Val
    BY <2>4, <2>5
  <2> QED BY <2>1, <2>6, <2>7, <2>8
<1>17. Bad = {}
  <2> SUFFICES ASSUME Bad # {} PROVE FALSE
    OBVIOUS
  <2>1. Bad \subseteq Nat
    BY <1>1
  <2>2. PICK k \in Bad : \A j \in Bad : k <= j
    <3> HIDE DEF Bad
    <3> QED BY <2>1, SmallestOf
  <2>3. k # 0
    BY <1>15
  <2>4. k \in 1..n /\ k - 1 \in D /\ ~(k <= k - 1)
    BY <2>3
  <2>5. Good(k - 1)
    <3> HIDE DEF Good
    <3> QED BY <2>2, <2>4
  <2>6. Good(k)
    <3> HIDE DEF Good
    <3> QED BY <1>16, <2>4, <2>5
  <2> QED BY <2>6
<1>18. Good(n)
  <2>1. n \in D
    OBVIOUS
  <2> HIDE DEF Good
  <2> QED BY <1>17, <2>1
<1>19. {i \in K : i <= n} = K
  BY <1>0
<1> QED BY <1>13, <1>18, <1>19

----------------------------------------------------------------------------
(* What the traversal has found *)

\* The tools that the objects V of a document define.
DefinedBy(doc, V, p) == {ToolFrom(i, p) : i \in {j \in {doc.item[o] : o \in V} : Recognised(j)}}

\* The documents read, and what was found in them while nobody changes the tree.
ReadPaths == {r.path : r \in read}
DefinedIn(P) == UNION {Definitions(p) : p \in P}

FoundInv ==
    /\ discovery = "found" => tools = Grouped(found)
    /\ ~Changed =>
          /\ discovery = "walk" =>
                ToSet(found) = DefinedIn(ReadPaths \ {current})
                               \cup DefinedBy(tree.texts[current].doc, visited, current)
          /\ discovery \notin {"walk", "failed"} => ToSet(found) = DefinedIn(ReadPaths)

\* The definitions of a document are those of all that is reachable in it.
LEMMA DefinitionsOfAll == \A p : Definitions(p) = DefinedBy(tree.texts[p].doc, Reachable(tree.texts[p].doc), p)
BY DEF Definitions, DefinedBy

\* The definitions of a document depend on the tree alone.
LEMMA DefinitionsStay == ASSUME tree' = tree PROVE \A p : Definitions(p)' = Definitions(p)
BY DEF Definitions, Reachable

\* A list with one member more.
LEMMA MembersOfLonger ==
    ASSUME NEW S, NEW s \in Seq(S), NEW e \in S PROVE ToSet(Append(s, e)) = ToSet(s) \cup {e}
<1>1. PICK n \in Nat : n = Len(s)
  BY LenProperties
<1>2. PICK t : t = Append(s, e)
  OBVIOUS
<1>3. t \in Seq(S) /\ Len(t) = n + 1 /\ t[n + 1] = e /\ \A k \in 1..n : t[k] = s[k]
  BY <1>1, <1>2, AppendProperties
<1>4. ToSet(t) = {t[k] : k \in 1..(n + 1)} /\ ToSet(s) = {s[k] : k \in 1..n}
  BY <1>1, <1>3, MembersOf
<1>5. \A k \in 1..(n + 1) : k \in 1..n \/ k = n + 1
  OBVIOUS
<1>6. n + 1 \in 1..(n + 1) /\ \A k \in 1..n : k \in 1..(n + 1)
  OBVIOUS
<1>7. ToSet(t) \subseteq ToSet(s) \cup {e}
  BY <1>3, <1>4, <1>5
<1>8. ToSet(s) \subseteq ToSet(t) /\ e \in ToSet(t)
  BY <1>3, <1>4, <1>6
<1> QED BY <1>2, <1>7, <1>8

\* Visiting an object adds the tool it defines, if it defines one.
LEMMA DefinedByOneMore ==
    ASSUME NEW doc, NEW V, NEW o, NEW p
    PROVE  DefinedBy(doc, V \cup {o}, p) =
              DefinedBy(doc, V, p) \cup (IF Recognised(doc.item[o]) THEN {ToolFrom(doc.item[o], p)} ELSE {})
BY DEF DefinedBy

\* Every step keeps what was found equal to the definitions of what was read and visited.
LEMMA FoundInductive ==
    ASSUME PlaceInv, ReadInv, WalkInv, CauseInv, FoundInv, DiscoveryNext PROVE FoundInv'
<1>1. discovery' = "found" => tools' = Grouped(found')
  <2>1. CASE FinishDiscovery
    BY <2>1 DEF FinishDiscovery
  <2>2. CASE ~FinishDiscovery
    <3>1. discovery' = "found" => discovery = "found" /\ UNCHANGED <<found, tools>>
      BY <2>2 DEF DiscoveryNext, Discover, StartDiscovery, Yield, Stat, Read, Visit, EndOfDocument,
                  ChangeText, SkipDocument, GiveUp, GoOn, discoveryVars
    <3> QED BY <3>1 DEF FoundInv
  <2> QED BY <2>1, <2>2
<1>2. CASE Changed'
  BY <1>1, <1>2 DEF FoundInv
<1>3. SUFFICES ASSUME ~Changed' PROVE FoundInv'
  BY <1>2
<1>4. ~Changed /\ texts' = texts /\ tree' = tree /\ texts = tree.texts
  BY <1>3, Unchanged DEF Changed
<1>5. \A P : DefinedIn(P)' = DefinedIn(P)
  BY <1>4, DefinitionsStay DEF DefinedIn
<1>6. CASE discovery' = "failed"
  BY <1>1, <1>6 DEF FoundInv
<1>7. CASE UNCHANGED <<found, read>> /\ discovery \notin {"walk", "failed"} /\ discovery' # "walk"
  <2>1. ReadPaths' = ReadPaths
    BY <1>7 DEF ReadPaths
  <2> QED BY <1>1, <1>4, <1>5, <1>7, <2>1 DEF FoundInv
<1>8. CASE UNCHANGED <<found, read, current, visited, discovery>>
  <2>1. ReadPaths' = ReadPaths
    BY <1>8 DEF ReadPaths
  <2>2. DefinedBy(tree.texts[current].doc, visited, current)' = DefinedBy(tree.texts[current].doc, visited, current)
    BY <1>4, <1>8 DEF DefinedBy
  <2> QED BY <1>1, <1>4, <1>5, <1>8, <2>1, <2>2 DEF FoundInv
<1>9. CASE Read /\ discovery' = "walk"
  <2>1. /\ UNCHANGED <<found, current>> /\ discovery = "read" /\ visited' = {}
        /\ read' = read \cup {[path |-> current, text |-> texts[current], measured |-> size]}
    BY <1>9 DEF Read, SkipDocument, GoOn, GiveUp
  <2>2. ReadPaths' = ReadPaths \cup {current} /\ current \notin ReadPaths
    <3>1. PICK r : r = [path |-> current, text |-> texts[current], measured |-> size]
      OBVIOUS
    <3>2. r.path = current /\ read' = read \cup {r}
      BY <2>1, <3>1
    <3>3. \A q \in read : q.path # current
      BY <2>1 DEF ReadInv
    <3> QED BY <3>2, <3>3 DEF ReadPaths
  <2>3. ReadPaths' \ {current'} = ReadPaths
    BY <2>1, <2>2
  <2>4. DefinedBy(tree.texts[current].doc, visited, current)' = {}
    BY <2>1 DEF DefinedBy
  <2>5. ToSet(found') = DefinedIn(ReadPaths)
    BY <1>4, <2>1 DEF FoundInv
  <2> QED BY <1>1, <1>5, <1>9, <2>3, <2>4, <2>5 DEF FoundInv
<1>10. CASE Visit /\ discovery' = "walk"
  <2>1. PICK o, d : VisitOnce(o, d, Parsed.text.doc)
    BY <1>10, VisitSteps
  <2>2. discovery = "walk"
    BY <1>10, VisitSteps
  <2>3. /\ Parsed \in read /\ Parsed.path = current /\ Parsed.text.doc \in Document
        /\ current \in Source
    BY <2>2, DocumentInHand
  <2>4. Parsed.text = tree.texts[current]
    BY <1>4, <2>3 DEF CauseInv
  <2>5. PICK doc \in Document : doc = tree.texts[current].doc /\ VisitOnce(o, d, doc)
    BY <2>1, <2>3, <2>4
  <2>6. UNCHANGED <<read, current>> /\ o \in Object
    BY <2>5 DEF VisitOnce
  <2>7. ReadPaths' = ReadPaths
    BY <2>6 DEF ReadPaths
  <2>8. ToSet(found) = DefinedIn(ReadPaths \ {current}) \cup DefinedBy(doc, visited, current)
    BY <1>4, <2>2, <2>5 DEF FoundInv
  <2>9. ToSet(found') = DefinedIn(ReadPaths \ {current}) \cup DefinedBy(doc, visited', current)
    <3>1. CASE o \in visited
      <4>1. found' = found /\ visited' = visited
        BY <1>10, <2>5, <3>1 DEF VisitOnce
      <4> QED BY <2>8, <4>1
    <3>2. CASE o \notin visited
      <4>1. /\ visited' = visited \cup {o}
            /\ found' = IF Recognised(doc.item[o]) THEN Append(found, ToolFrom(doc.item[o], current)) ELSE found
        BY <1>10, <2>5, <3>2 DEF VisitOnce
      <4>2. CASE Recognised(doc.item[o])
        <5>1. doc.item[o] \in Item /\ doc.item[o].name # None
          BY <2>6, <4>2 DEF Recognised, Document
        <5>2. ToolFrom(doc.item[o], current) \in ToolRecord /\ found \in Seq(ToolRecord)
          BY <2>3, <4>2, <5>1, ToolFromTyped DEF WalkInv
        <5>3. ToSet(found') = ToSet(found) \cup {ToolFrom(doc.item[o], current)}
          BY <4>1, <4>2, <5>2, MembersOfLonger
        <5>4. DefinedBy(doc, visited', current) = DefinedBy(doc, visited, current) \cup {ToolFrom(doc.item[o], current)}
          BY <4>1, <4>2, DefinedByOneMore
        <5> QED BY <2>8, <5>3, <5>4
      <4>3. CASE ~Recognised(doc.item[o])
        <5>1. DefinedBy(doc, visited \cup {o}, current) = DefinedBy(doc, visited, current) \cup {}
          BY <4>3, DefinedByOneMore
        <5> QED BY <2>8, <4>1, <4>3, <5>1
      <4> QED BY <4>2, <4>3
    <3> QED BY <3>1, <3>2
  <2>10. DefinedBy(tree.texts[current].doc, visited, current)' = DefinedBy(doc, visited', current)
    BY <1>4, <2>5, <2>6 DEF DefinedBy
  <2>11. DefinedIn(ReadPaths \ {current})' = DefinedIn(ReadPaths \ {current})
    BY <1>4, <2>6, <2>7, DefinitionsStay DEF DefinedIn
  <2> QED BY <1>1, <1>10, <2>9, <2>10, <2>11 DEF FoundInv
<1>11. CASE EndOfDocument
  <2>1. /\ discovery = "walk" /\ stack = <<>> /\ discovery' = "list"
        /\ UNCHANGED <<found, read, current, visited>>
    BY <1>11 DEF EndOfDocument, GoOn
  <2>2. Knows(tree.texts[current].doc, <<>>, visited)
    BY <1>4, <2>1 DEF CauseInv
  <2>3. visited = Reachable(tree.texts[current].doc)
    BY <2>2, KnowsAtEnd
  <2>4. ToSet(found) = DefinedIn(ReadPaths \ {current}) \cup Definitions(current)
    BY <1>4, <2>1, <2>3, DefinitionsOfAll DEF FoundInv
  <2>5. current \in ReadPaths
    BY <2>1 DEF ReadInv, ReadPaths
  <2>6. DefinedIn(ReadPaths \ {current}) \cup Definitions(current) = DefinedIn(ReadPaths)
    BY <2>5 DEF DefinedIn
  <2>7. ReadPaths' = ReadPaths
    BY <2>1 DEF ReadPaths
  <2> QED BY <1>1, <1>5, <2>1, <2>4, <2>6, <2>7 DEF FoundInv
<1>12. \/ discovery' = "failed"
       \/ UNCHANGED <<found, read>> /\ discovery \notin {"walk", "failed"} /\ discovery' # "walk"
       \/ UNCHANGED <<found, read, current, visited, discovery>>
       \/ Read /\ discovery' = "walk"
       \/ Visit /\ discovery' = "walk"
       \/ EndOfDocument
  <2>1. CASE StartDiscovery \/ Stat \/ (\E p \in pending : Yield(p)) \/ FinishDiscovery
    BY <2>1 DEF StartDiscovery, Stat, Yield, FinishDiscovery, GiveUp, GoOn, SkipDocument
  <2>2. CASE Visit
    BY <2>2 DEF Visit, GiveUp, GoOn
  <2>3. CASE EndOfDocument
    BY <2>3
  <2>4. CASE (\E p \in DOMAIN tree.later : ChangeText(p)) \/ UNCHANGED discoveryVars
    BY <2>4 DEF ChangeText, discoveryVars
  <2>5. CASE Read
    BY <2>5 DEF Read, SkipDocument, GoOn, GiveUp
  <2> QED BY <2>1, <2>2, <2>3, <2>4, <2>5 DEF DiscoveryNext, Discover
<1> QED BY <1>6, <1>7, <1>8, <1>9, <1>10, <1>11, <1>12

\* Of the places of one tool the first.
LEMMA FirstOf ==
    ASSUME NEW f \in Seq(ToolRecord), NEW K \in SUBSET (1..Len(f)), K # {}
    PROVE  First(K) \in K /\ f[First(K)] \in ToolRecord
<1>1. K \subseteq Nat
  BY LenProperties
<1>2. \E k \in K : \A j \in K : k <= j
  BY <1>1, SmallestOf
<1>3. First(K) \in K
  BY <1>2 DEF First
<1> QED BY <1>3, ElementOfSeq

\* Joining keeps name and file, and for the rest takes in what each definition says.
LEMMA MergedOf ==
    ASSUME NEW f \in Seq(ToolRecord), NEW K \in SUBSET (1..Len(f)), NEW i \in K,
           \A k \in K : f[k].name = f[i].name /\ f[k].source = f[i].source
    PROVE  /\ Merged(f, K) \in ToolRecord
           /\ Merged(f, K).name = f[i].name /\ Merged(f, K).source = f[i].source
           /\ Joins(Merged(f, K), {f[k] : k \in K})
<1> DEFINE defined == {f[k] : k \in K}
<1>1. PICK t : t = Merged(f, K)
  OBVIOUS
<1>0. PICK n, p : n = f[i].name /\ p = f[i].source
  OBVIOUS
<1>2. PICK d \in defined : d = f[First(K)]
  BY FirstOf
<1>3. d \in ToolRecord /\ d.name = n /\ d.source = p
  BY <1>0, <1>2, FirstOf
<1>4. PICK schema \in Seq(SchemaNode) : schema = SchemasOf(f, K)
  BY SchemasOfMembers
<1>5. PICK text : text = JoinedText({f[k].text : k \in K})
  OBVIOUS
<1>6. (\A k \in K : f[k].adapter = d.adapter) <=> {e.adapter : e \in defined} = {d.adapter}
  OBVIOUS
<1>7. PICK adapter : adapter = IF {e.adapter : e \in defined} = {d.adapter} THEN d.adapter ELSE "generic"
  OBVIOUS
<1>8. t = [name |-> n, source |-> p, schema |-> schema, text |-> text, adapter |-> adapter]
  BY <1>1, <1>2, <1>3, <1>4, <1>5, <1>6, <1>7 DEF Merged
<1>9. adapter \in Adapter
  BY <1>3, <1>7 DEF ToolRecord, Adapter
<1>10. ToSet(schema) = UNION {ToSet(e.schema) : e \in defined}
  <2>1. ToSet(schema) = UNION {ToSet(f[k].schema) : k \in K}
    BY <1>4, SchemasOfMembers
  <2> QED BY <2>1
<1>11. text = JoinedText({e.text : e \in defined})
  <2>1. {e.text : e \in defined} = {f[k].text : k \in K}
    OBVIOUS
  <2> QED BY <1>5, <2>1
<1>12. /\ t.schema = schema /\ t.text = text /\ t.adapter = adapter
       /\ t \in [name : {n}, source : {p}, schema : Seq(SchemaNode), text : {text}, adapter : Adapter]
  BY <1>8, <1>9
<1>13. text \in Description
  <2>1. \A e \in defined : e \in ToolRecord
    BY ElementOfSeq
  <2> HIDE DEF defined
  <2> DEFINE T == {e.text : e \in defined}
  <2>2. \A x \in T : /\ x.says \subseteq CapId /\ x.any \subseteq {"path", "host"}
                     /\ x.paths \subseteq Literal /\ x.hosts \subseteq Literal
    BY <2>1 DEF ToolRecord, Description
  <2> HIDE DEF T
  <2>3. JoinedText(T) \in Description
    BY <2>2 DEF JoinedText, Description
  <2> QED BY <1>11, <2>3 DEF T
<1>14. t \in ToolRecord /\ t.name = n /\ t.source = p
  BY <1>3, <1>8, <1>9, <1>13 DEF ToolRecord
<1> HIDE DEF defined
<1>15. Joins(t, defined)
  BY <1>2, <1>7, <1>10, <1>11, <1>12 DEF Joins
<1> QED BY <1>0, <1>1, <1>14, <1>15 DEF defined

\* A definition names its tool and its file.
LEMMA ToolFromOf == \A i, p : ToolFrom(i, p).source = p /\ ToolFrom(i, p).name = i.name /\ ToolFrom(i, p).text = i.text
<1> TAKE i, p
<1>1. PICK shape : shape = Shapes(i)[CHOOSE k \in DOMAIN Shapes(i) :
                             Shapes(i)[k][1] /\ \A j \in 1..(k - 1) : ~Shapes(i)[j][1]]
  OBVIOUS
<1>2. PICK schema : schema = IF shape[2] = "none" \/ i.schemas[shape[2]] = None THEN <<>> ELSE <<i.schemas[shape[2]]>>
  OBVIOUS
<1>3. ToolFrom(i, p) = [name |-> i.name, text |-> i.text, source |-> p, adapter |-> shape[3], schema |-> schema]
  BY <1>1, <1>2 DEF ToolFrom
<1> QED BY <1>3

\* At the end discover_tools has found what the documents define.
LEMMA FoundIsThere == ASSUME PlaceInv, ReadInv, WalkInv, CauseInv, FoundInv PROVE FindsWhatIsThere
<1> SUFFICES ASSUME discovery = "found", ~Changed PROVE FindsWhatIsThere
  BY DEF FindsWhatIsThere
<1>1. tools = Grouped(found) /\ found \in Seq(ToolRecord)
  BY DEF FoundInv, WalkInv
<1>2. ToSet(found) = DefinedIn({p \in Candidates : ParsesWell(p)})
  BY AllLookedAt DEF FoundInv, ReadPaths
<1>3. \A p : \A d \in Definitions(p) : d.source = p
  BY ToolFromOf DEF Definitions
<1>4. PICK m \in Nat : m = Len(found) /\ DOMAIN found = 1..m
  BY <1>1, LenProperties
<1>5. ToSet(found) = {found[k] : k \in 1..m}
  BY <1>1, <1>4, MembersOf
<1> DEFINE At(n, p) == {k \in 1..m : found[k].name = n /\ found[k].source = p}
<1>6. \A j \in 1..m : j \in SameTool(found, j) /\ SameTool(found, j) = At(found[j].name, found[j].source)
  BY <1>4 DEF SameTool
<1>7. \A j \in 1..m : Merged(found, SameTool(found, j)).name = found[j].name
                      /\ Merged(found, SameTool(found, j)).source = found[j].source
  <2> TAKE j \in 1..m
  <2>1. PICK K : K = SameTool(found, j)
    OBVIOUS
  <2>2. K \in SUBSET (1..Len(found)) /\ K # {} /\ \A k \in K : found[k].name = found[j].name /\ found[k].source = found[j].source
    BY <1>4, <1>6, <2>1 DEF SameTool
  <2>3. First(K) \in K
    BY <1>1, <2>2, FirstOf
  <2>4. Merged(found, K).name = found[First(K)].name /\ Merged(found, K).source = found[First(K)].source
    BY DEF Merged
  <2> QED BY <2>1, <2>2, <2>3, <2>4
<1>8. ASSUME NEW p \in Candidates, ParsesWell(p), NEW n \in Tool
      PROVE  LET defined == {d \in Definitions(p) : d.name = n}
                 result == {t \in tools : t.name = n /\ t.source = p}
             IN  IF defined = {} THEN result = {} ELSE \E t \in result : result = {t} /\ Joins(t, defined)
  <2> DEFINE defined == {d \in Definitions(p) : d.name = n}
             result == {t \in tools : t.name = n /\ t.source = p}
  <2>1. PICK K : K = At(n, p)
    OBVIOUS
  <2>2. defined = {found[k] : k \in K}
    <3>1. Definitions(p) = {d \in ToSet(found) : d.source = p}
      BY <1>2, <1>3, <1>8 DEF DefinedIn
    <3> QED BY <1>5, <2>1, <3>1
  <2>3. \A k \in 1..m : k \in K <=> SameTool(found, k) = K
    BY <1>6, <2>1
  <2>4. result = {Merged(found, K) : k \in K}
    <3>1. tools = {Merged(found, SameTool(found, j)) : j \in 1..m}
      BY <1>1, <1>4 DEF Grouped
    <3>2. ASSUME NEW t \in result PROVE t \in {Merged(found, K) : k \in K}
      <4>1. PICK j \in 1..m : t = Merged(found, SameTool(found, j))
        BY <3>1
      <4>2. found[j].name = n /\ found[j].source = p
        BY <1>7, <3>2, <4>1
      <4>3. j \in K
        BY <2>1, <4>2
      <4> QED BY <2>3, <4>1, <4>3
    <3>3. ASSUME NEW k \in K PROVE Merged(found, K) \in result
      <4>1. k \in 1..m /\ SameTool(found, k) = K /\ found[k].name = n /\ found[k].source = p
        BY <2>1, <2>3
      <4>2. Merged(found, K) \in tools
        BY <3>1, <4>1
      <4> QED BY <1>7, <4>1, <4>2
    <3> HIDE DEF result
    <3> QED BY <3>2, <3>3
  <2>5. CASE K = {}
    BY <2>2, <2>4, <2>5
  <2>6. CASE K # {}
    <3>1. PICK i \in K : K \in SUBSET (1..Len(found))
                         /\ \A k \in K : found[k].name = found[i].name /\ found[k].source = found[i].source
      BY <1>4, <2>1, <2>6
    <3>2. PICK t : t = Merged(found, K)
      OBVIOUS
    <3>3. Joins(t, {found[k] : k \in K})
      BY <1>1, <2>6, <3>1, <3>2, MergedOf
    <3>4. result = {t} /\ defined # {}
      BY <2>2, <2>4, <2>6, <3>2
    <3>5. Joins(t, defined)
      BY <2>2, <3>3
    <3> QED BY <3>4, <3>5
  <2> QED BY <2>5, <2>6
<1>9. \A t \in tools : t.source \in Candidates /\ ParsesWell(t.source)
  <2> TAKE t \in tools
  <2>1. PICK j \in 1..m : t = Merged(found, SameTool(found, j))
    BY <1>1, <1>4 DEF Grouped
  <2>2. t.source = found[j].source /\ found[j] \in ToSet(found)
    BY <1>5, <1>7, <2>1
  <2>3. PICK p \in {q \in Candidates : ParsesWell(q)} : found[j] \in Definitions(p)
    BY <1>2, <2>2 DEF DefinedIn
  <2> QED BY <1>3, <2>2, <2>3
<1> HIDE DEF At
<1> QED BY <1>8, <1>9 DEF FindsWhatIsThere

\* The inductive invariant of the traversal, whose parts rest on each other.
DiscoveryInv == PlaceInv /\ ReadInv /\ CountInv /\ WalkInv /\ CauseInv /\ FoundInv

\* The invariant of discovery holds when it starts.
LEMMA DiscoveryInvStarts == ASSUME NEW t, IsTree(t), DiscoveryInit(t) PROVE DiscoveryInv
<1>1. PlaceInv /\ ReadInv /\ CountInv /\ WalkInv /\ CauseInv
  BY DiscoveryStarts
<1>2. found = <<>> /\ read = {} /\ discovery = "start"
  BY DEF DiscoveryInit
<1>3. ToSet(found) = {} /\ DefinedIn(ReadPaths) = {}
  BY <1>2 DEF ToSet, ReadPaths, DefinedIn
<1>4. FoundInv
  BY <1>2, <1>3 DEF FoundInv
<1> QED BY <1>1, <1>4 DEF DiscoveryInv

\* Every step of discovery keeps its invariant.
LEMMA DiscoveryInvInductive == ASSUME DiscoveryInv, DiscoveryNext PROVE DiscoveryInv'
<1>1. PlaceInv' /\ ReadInv' /\ CountInv' /\ WalkInv' /\ CauseInv' /\ FoundInv'
  BY PlaceInductive, ReadInductive, CountInductive, WalkInductive, CauseInductive, FoundInductive DEF DiscoveryInv
<1> QED BY <1>1 DEF DiscoveryInv
=============================================================================
