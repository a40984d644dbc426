--------------------------- MODULE Release_proofs ---------------------------
(* Machine-checked theorems about Release, for every value of its constants. *)
EXTENDS Release, FiniteSetTheorems, TLAPS

----------------------------------------------------------------------------
(* GitHub's resolution of a tag *)

\* The candidates TAG may resolve to are releases, and one of them has the
\* smallest id, so that Addressed is a release whenever there is one.
LEMMA AddressedIsARelease ==
    ASSUME releases \subseteq Release, releases # {}
    PROVE  Addressed \in releases
<1> DEFINE candidates == IF Published # {} THEN Published ELSE releases
           ids == {x.id : x \in candidates}
<1>1. candidates # {} /\ candidates \subseteq releases
  BY DEF Published
<1> HIDE DEF candidates
<1>2. \A x \in candidates : x.id \in ReleaseId
  BY <1>1 DEF Release
<1>3. ids # {} /\ ids \in SUBSET ReleaseId
  BY <1>1, <1>2
<1>4. PICK n \in ids : \A m \in ids : n <= m
  BY <1>3, ReleaseIdAssumption
<1>5. \E x \in candidates : \A y \in candidates : x.id <= y.id
  BY <1>4
<1>6. (CHOOSE x \in candidates : \A y \in candidates : x.id <= y.id) \in candidates
  BY <1>5
<1> QED BY <1>1, <1>6 DEF Addressed, candidates

----------------------------------------------------------------------------
(* Type correctness *)

\* What the two writes that go through the tag make of a well-typed set of
\* releases is well-typed.
LEMMA TagWritesAreTyped ==
    ASSUME releases \subseteq Release, protection \in BOOLEAN
    PROVE  /\ WithoutAddressed \subseteq Release
           /\ releases # {} => WithAddressedPublished \subseteq Release
<1>1. WithoutAddressed \subseteq Release
  BY DEF WithoutAddressed
<1>2. ASSUME releases # {} PROVE WithAddressedPublished \subseteq Release
  <2>1. Addressed \in Release
    BY <1>2, AddressedIsARelease
  <2>2. [Addressed EXCEPT !.state = IF protection THEN "immutable" ELSE "mutable"] \in Release
    BY <2>1 DEF Release, State
  <2> QED BY <1>1, <2>2 DEF WithAddressedPublished
<1> QED BY <1>1, <1>2

\* What gh release create leaves is a release, whole or not.
LEMMA NewDraftIsTyped ==
    ASSUME NEW i \in ReleaseId, NEW s \in Sha, NEW whole \in BOOLEAN
    PROVE  NewDraft(i, s, whole) \in Release
BY DEF NewDraft, Release, State

\* A run has a commit exactly when it was triggered.
Triggered == \A r \in Run : IF pc[r] = "untriggered" THEN sha[r] = NoSha ELSE sha[r] \in Sha

\* Every variable keeps its type, and every run past its trigger has a commit.
THEOREM TypeCorrect == Spec => [](TypeOK /\ Triggered)
<1> USE DEF Working, Ended, Phase
<1>1. Init => TypeOK /\ Triggered
  BY DEF Init, TypeOK, Triggered
<1>2. TypeOK /\ Triggered /\ [Next]_vars => TypeOK' /\ Triggered'
  <2> SUFFICES ASSUME TypeOK, Triggered, [Next]_vars PROVE TypeOK' /\ Triggered'
    OBVIOUS
  <2> USE DEF TypeOK, Triggered, Goto, Fails, Reads
  <2>1. ASSUME NEW r \in Run, Trigger(r) PROVE TypeOK' /\ Triggered'
    BY <2>1 DEF Trigger
  <2>2. ASSUME NEW r \in Run, Start(r) PROVE TypeOK' /\ Triggered'
    BY <2>2 DEF Start
  <2>3. ASSUME NEW r \in Run, RunStep(r) PROVE TypeOK' /\ Triggered'
    <3>1. CASE Validate(r)
      BY <3>1 DEF Validate
    <3>2. CASE List(r)
      BY <3>2 DEF List
    <3>3. CASE View(r)
      BY <3>3 DEF View
    <3>4. CASE Delete(r)
      BY <3>4, TagWritesAreTyped DEF Delete
    <3>5. CASE Build(r)
      BY <3>5 DEF Build
    <3>6. CASE Create(r)
      <4>1. sha[r] \in Sha
        BY <3>6 DEF Create
      <4>2. \A i \in FreshId, whole \in BOOLEAN : NewDraft(i, sha[r], whole) \in Release
        BY <4>1, NewDraftIsTyped DEF FreshId
      <4>3. \/ releases' = releases
            \/ \E i \in FreshId, whole \in BOOLEAN :
                  releases' = releases \cup {NewDraft(i, sha[r], whole)}
        BY <3>6 DEF Create
      <4>4. releases' \subseteq Release
        <5> HIDE DEF Triggered, Goto, Fails, Reads
        <5> QED BY <4>2, <4>3
      <4> QED BY <3>6, <4>4 DEF Create
    <3>7. CASE Publish(r)
      BY <3>7, TagWritesAreTyped DEF Publish
    <3>8. CASE Confirm(r)
      BY <3>8 DEF Confirm
    <3>9. CASE CleanList(r)
      BY <3>9 DEF CleanList
    <3>10. CASE CleanView(r)
      BY <3>10 DEF CleanView
    <3>11. CASE CleanDelete(r)
      BY <3>11, TagWritesAreTyped DEF CleanDelete
    <3> QED BY <2>3, <3>1, <3>2, <3>3, <3>4, <3>5, <3>6, <3>7, <3>8, <3>9, <3>10, <3>11
            DEF RunStep
  <2>4. ASSUME NEW r \in Run, Kill(r) PROVE TypeOK' /\ Triggered'
    BY <2>4 DEF Kill
  <2>5. CASE External
    <3>1. releases' \subseteq Release
      BY <2>5 DEF External, ExternalChange, Release, FreshId, Published
    <3>2. externals' \in Nat
      BY <2>5 DEF External
    <3>3. protection' = protection \/ protection' = ~protection
      BY <2>5 DEF External, ExternalChange
    <3>4. protection' \in BOOLEAN
      BY <3>3
    <3> QED BY <2>5, <3>1, <3>2, <3>4 DEF External
  <2>6. CASE UNCHANGED vars
    BY <2>6 DEF vars
  <2> QED BY <2>1, <2>2, <2>3, <2>4, <2>5, <2>6 DEF Next
<1> QED BY <1>1, <1>2, PTL DEF Spec

----------------------------------------------------------------------------
(* Deletion *)

OneAtATime == \A q, r \in Run : pc[q] \in Working /\ pc[r] \in Working => q = r

\* A run about to delete, with no outside change since it read, still sees what
\* it read: the tag resolves to a release of its own that is not immutable.
ReadStillHolds ==
    \A r \in Run : pc[r] \in {"delete", "cleanDelete"} /\ r \notin raced =>
        releases # {} /\ sha[r] \in Addressed.body /\ Addressed.state # "immutable"

\* The tag resolves to the same release while the releases stay the same.
LEMMA AddressedIsStable == ASSUME UNCHANGED releases PROVE Addressed' = Addressed
BY DEF Addressed, Published

\* Only one run is between Start and its end: the concurrency group.
LEMMA OneAtATimeInductive ==
    ASSUME TypeOK, OneAtATime, [Next]_vars PROVE OneAtATime'
<1> USE DEF TypeOK, OneAtATime, Working, Ended, Goto, Fails
<1>1. ASSUME NEW r \in Run, Trigger(r) PROVE OneAtATime'
  BY <1>1 DEF Trigger
<1>2. ASSUME NEW r \in Run, Start(r) PROVE OneAtATime'
  BY <1>2 DEF Start
<1>3. ASSUME NEW r \in Run, RunStep(r) \/ Kill(r) PROVE OneAtATime'
  <2>1. pc[r] \in Working /\ \E to : pc' = [pc EXCEPT ![r] = to]
    BY <1>3 DEF RunStep, Kill, Validate, List, View, Delete, Build, Create, Publish,
                Confirm, CleanList, CleanView, CleanDelete
  <2> QED BY <2>1
<1>4. CASE External \/ UNCHANGED vars
  BY <1>4 DEF External, vars
<1> QED BY <1>1, <1>2, <1>3, <1>4 DEF Next

\* What a run read before a deletion still holds when it deletes, unless it was raced.
LEMMA ReadStillHoldsInductive ==
    ASSUME TypeOK, OneAtATime, ReadStillHolds, [Next]_vars PROVE ReadStillHolds'
<1> USE DEF TypeOK, OneAtATime, ReadStillHolds, Working, Ended, Goto, Fails, Reads
<1>1. ASSUME NEW r \in Run, Trigger(r) PROVE ReadStillHolds'
  BY <1>1, AddressedIsStable DEF Trigger
<1>2. ASSUME NEW r \in Run, Start(r) PROVE ReadStillHolds'
  BY <1>2, AddressedIsStable DEF Start
<1>3. ASSUME NEW r \in Run, RunStep(r) PROVE ReadStillHolds'
  <2>1. CASE Validate(r) \/ List(r) \/ Build(r) \/ Confirm(r) \/ CleanList(r)
    BY <2>1, AddressedIsStable DEF Validate, List, Build, Confirm, CleanList
  <2>2. CASE View(r) \/ CleanView(r)
    BY <2>2, AddressedIsStable DEF View, CleanView, DeletableBy
  <2>3. CASE Delete(r) \/ Create(r) \/ Publish(r) \/ CleanDelete(r)
    <3>1. /\ pc[r] \in Working
          /\ \E to \in {"build", "publish", "confirm", "cleanList", "failed"} :
                pc' = [pc EXCEPT ![r] = to]
          /\ UNCHANGED raced
      BY <2>3 DEF Delete, Create, Publish, CleanDelete
    <3>2. \A q \in Run : pc'[q] \notin {"delete", "cleanDelete"}
      BY <3>1
    <3> QED BY <3>2
  <2> QED BY <1>3, <2>1, <2>2, <2>3 DEF RunStep
<1>4. ASSUME NEW r \in Run, Kill(r) PROVE ReadStillHolds'
  BY <1>4, AddressedIsStable DEF Kill
<1>5. CASE External
  BY <1>5 DEF External
<1>6. CASE UNCHANGED vars
  BY <1>6, AddressedIsStable DEF vars
<1> QED BY <1>1, <1>2, <1>3, <1>4, <1>5, <1>6 DEF Next

\* Every release a run deletes carries that run's exact-source marker and is not
\* immutable at that moment, unless an outside change came after the read that
\* the deletion relies on.
THEOREM DeletionIsOwned == Spec => DeletesOnlyItsOwn
<1> DEFINE Inv == TypeOK /\ Triggered /\ OneAtATime /\ ReadStillHolds
           Step == \A r \in Run :
                      pc[r] \in {"delete", "cleanDelete"} /\ pc'[r] # pc[r] /\ r \notin raced =>
                         \A x \in releases \ releases' :
                            sha[r] \in x.body /\ x.state # "immutable"
<1>1. Init => OneAtATime /\ ReadStillHolds
  BY DEF Init, OneAtATime, ReadStillHolds, Working
<1>2. TypeOK /\ OneAtATime /\ ReadStillHolds /\ [Next]_vars => OneAtATime' /\ ReadStillHolds'
  BY OneAtATimeInductive, ReadStillHoldsInductive
<1>3. TypeOK /\ ReadStillHolds /\ [Next]_vars => [Step]_vars
  <2> SUFFICES ASSUME TypeOK, ReadStillHolds, Next,
                      NEW r \in Run, pc[r] \in {"delete", "cleanDelete"}, pc'[r] # pc[r],
                      r \notin raced, NEW x \in releases \ releases'
               PROVE  sha[r] \in x.body /\ x.state # "immutable"
    BY DEF vars
  <2> USE DEF TypeOK, Goto, Fails
  <2>1. releases' = WithoutAddressed
    <3>1. CASE External
      BY <3>1 DEF External
    <3>2. ASSUME NEW q \in Run, Trigger(q) \/ Start(q) \/ Kill(q) PROVE FALSE
      BY <3>2 DEF Trigger, Start, Kill
    <3>3. ASSUME NEW q \in Run, RunStep(q) PROVE releases' = WithoutAddressed
      <4>1. q = r
        BY <3>3 DEF RunStep, Validate, List, View, Delete, Build, Create, Publish,
                    Confirm, CleanList, CleanView, CleanDelete
      <4>2. Delete(r) \/ CleanDelete(r)
        BY <3>3, <4>1 DEF RunStep, Validate, List, View, Build, Create, Publish,
                          Confirm, CleanList, CleanView
      <4> QED BY <4>2 DEF Delete, CleanDelete
    <3> QED BY <3>1, <3>2, <3>3 DEF Next
  <2>2. x = Addressed
    BY <2>1 DEF WithoutAddressed
  <2> QED BY <2>2 DEF ReadStillHolds
<1> QED BY <1>1, <1>2, <1>3, TypeCorrect, PTL DEF Spec, DeletesOnlyItsOwn

----------------------------------------------------------------------------
(* Immutable releases *)

NothingImmutable == \A x \in releases : x.state # "immutable"

\* A published release is what the tag resolves to.
LEMMA PublishedIsAddressed ==
    ASSUME releases \subseteq Release, Published # {}
    PROVE  Addressed \in Published
<1> DEFINE ids == {x.id : x \in Published}
<1>1. \A x \in Published : x.id \in ReleaseId
  BY DEF Published, Release
<1>2. ids # {} /\ ids \in SUBSET ReleaseId
  BY <1>1
<1>3. PICK n \in ids : \A m \in ids : n <= m
  BY <1>2, ReleaseIdAssumption
<1>4. \E x \in Published : \A y \in Published : x.id <= y.id
  BY <1>3
<1>5. (CHOOSE x \in Published : \A y \in Published : x.id <= y.id) \in Published
  BY <1>4
<1> QED BY <1>5 DEF Addressed

\* If the tag resolves to a release that is not immutable, none is.
LEMMA NoneImmutableBesideAddressed ==
    ASSUME releases \subseteq Release, releases # {}, AtMostOnePublished(releases),
           Addressed.state # "immutable"
    PROVE  NothingImmutable
BY PublishedIsAddressed DEF Published, AtMostOnePublished, NothingImmutable

\* A run that is about to create a release has seen that there is no immutable one,
\* unless it was raced.
CreatesBesideNone ==
    \A r \in Run : pc[r] \in {"build", "create"} /\ r \notin raced => NothingImmutable

\* GitHub publishes one release per tag, and no step of a run adds a second.
LEMMA OnePublishedInductive ==
    ASSUME TypeOK, AtMostOnePublished(releases), [Next]_vars
    PROVE  AtMostOnePublished(releases')
<1> USE DEF AtMostOnePublished
<1>1. AtMostOnePublished(WithoutAddressed)
  BY DEF WithoutAddressed
<1>2. releases # {} => AtMostOnePublished(WithAddressedPublished)
  <2> SUFFICES ASSUME releases # {}, Addressed.state = "draft"
               PROVE  AtMostOnePublished(WithAddressedPublished)
    BY DEF WithAddressedPublished
  <2>1. Published = {}
    <3>1. Published # {} => Addressed \in Published
      BY PublishedIsAddressed DEF TypeOK
    <3> QED BY <3>1 DEF Published
  <2> QED BY <2>1 DEF WithAddressedPublished, WithoutAddressed, Published
<1>3. ASSUME NEW r \in Run, Create(r) PROVE AtMostOnePublished(releases')
  BY <1>3 DEF Create, NewDraft
<1>4. ASSUME NEW r \in Run, Delete(r) \/ Publish(r) \/ CleanDelete(r)
      PROVE  AtMostOnePublished(releases')
  BY <1>1, <1>2, <1>4 DEF Delete, Publish, CleanDelete
<1>5. CASE External
  BY <1>5 DEF External
<1>6. CASE UNCHANGED releases
  BY <1>6
<1> QED BY <1>3, <1>4, <1>5, <1>6 DEF Next, vars, RunStep, Trigger, Start, Kill, Validate, List,
        View, Build, Confirm, CleanList, CleanView

\* What a run saw before it creates holds until it has created, unless it was raced.
LEMMA CreatesBesideNoneInductive ==
    ASSUME TypeOK, OneAtATime, ReadStillHolds, AtMostOnePublished(releases), CreatesBesideNone, [Next]_vars
    PROVE  CreatesBesideNone'
<1> USE DEF Goto, Fails, Reads, CreatesBesideNone
<1>0. pc \in [Run -> Working \cup Ended \cup {"untriggered", "pending"}]
  BY DEF TypeOK
<1>1. ASSUME NEW r \in Run, Trigger(r) \/ Start(r) \/ Kill(r) PROVE CreatesBesideNone'
  <2>1. /\ UNCHANGED <<releases, raced>>
        /\ \A q \in Run : pc'[q] \in {"build", "create"} => pc[q] = pc'[q]
    BY <1>0, <1>1 DEF Trigger, Start, Kill
  <2> QED BY <2>1 DEF NothingImmutable
<1>2. ASSUME NEW r \in Run, Validate(r) \/ View(r) \/ Confirm(r) \/ CleanList(r) \/ CleanView(r)
      PROVE  CreatesBesideNone'
  <2>1. /\ UNCHANGED releases /\ raced \ {r} \subseteq raced'
        /\ \E to \in Working \cup Ended : pc' = [pc EXCEPT ![r] = to] /\ to \notin {"build", "create"}
    BY <1>2 DEF Validate, View, Confirm, CleanList, CleanView, Working, Ended
  <2> QED BY <1>0, <2>1 DEF NothingImmutable
<1>3. ASSUME NEW r \in Run, List(r) \/ Build(r) PROVE CreatesBesideNone'
  <2>1. /\ UNCHANGED releases /\ raced \ {r} \subseteq raced'
        /\ \E to : pc' = [pc EXCEPT ![r] = to] /\ (to = "build" => releases = {})
        /\ pc'[r] = "create" => pc[r] = "build" /\ raced' = raced
    BY <1>0, <1>3 DEF List, Build
  <2> QED BY <1>0, <2>1 DEF NothingImmutable
<1>4. ASSUME NEW r \in Run, Delete(r) PROVE CreatesBesideNone'
  <2>1. pc[r] = "delete" /\ UNCHANGED raced
        /\ \E to \in {"build", "failed"} : pc' = [pc EXCEPT ![r] = to]
    BY <1>4 DEF Delete
  <2>2. \A q \in Run : q # r => pc'[q] \notin {"build", "create"}
    BY <1>0, <2>1 DEF OneAtATime, Working
  <2>3. r \notin raced => NothingImmutable'
    <3>1. r \notin raced => releases # {} /\ Addressed.state # "immutable"
      BY <2>1 DEF ReadStillHolds
    <3>2. r \notin raced => NothingImmutable
      BY <3>1, NoneImmutableBesideAddressed DEF TypeOK
    <3> QED BY <1>4, <3>2 DEF Delete, WithoutAddressed, NothingImmutable
  <2> QED BY <2>1, <2>2, <2>3
<1>5. ASSUME NEW r \in Run, Create(r) \/ Publish(r) \/ CleanDelete(r) PROVE CreatesBesideNone'
  <2>1. /\ pc[r] \in Working
        /\ \E to \in {"publish", "confirm", "cleanList", "failed"} : pc' = [pc EXCEPT ![r] = to]
    BY <1>5 DEF Create, Publish, CleanDelete, Working
  <2>2. \A q \in Run : pc'[q] \notin {"build", "create"}
    BY <1>0, <2>1 DEF OneAtATime, Working
  <2> QED BY <2>2
<1>6. CASE External
  BY <1>6 DEF External
<1>7. CASE UNCHANGED vars
  BY <1>7 DEF vars, NothingImmutable
<1> QED BY <1>1, <1>2, <1>3, <1>4, <1>5, <1>6, <1>7 DEF Next, RunStep

\* Once there is an immutable release, no run removes, alters or adds a release, as
\* long as nobody else has changed releases since the runs' last reads.
THEOREM ImmutableIsFinalAlways == Spec => ImmutableIsFinal
<1> DEFINE Inv == /\ TypeOK /\ OneAtATime /\ ReadStillHolds
                  /\ AtMostOnePublished(releases) /\ CreatesBesideNone
           Step == externals' = externals /\ raced = {} /\ (\E x \in releases : x.state = "immutable")
                      => releases' = releases
<1>1. Init => OneAtATime /\ ReadStillHolds /\ AtMostOnePublished(releases) /\ CreatesBesideNone
  BY DEF Init, OneAtATime, ReadStillHolds, Working, AtMostOnePublished, CreatesBesideNone
<1>2. TypeOK /\ TypeOK' /\ Inv /\ [Next]_vars => Inv'
  BY OneAtATimeInductive, ReadStillHoldsInductive, OnePublishedInductive, CreatesBesideNoneInductive
<1>3. Inv /\ [Next]_vars => [Step]_vars
  <2> SUFFICES ASSUME Inv, Next, externals' = externals, raced = {}, ~NothingImmutable
               PROVE  releases' = releases
    BY DEF vars, NothingImmutable
  <2>1. ASSUME NEW r \in Run, Delete(r) \/ CleanDelete(r) PROVE FALSE
    <3>1. releases # {} /\ Addressed.state # "immutable"
      BY <2>1 DEF Delete, CleanDelete, Goto, Fails, ReadStillHolds
    <3> QED BY <3>1, NoneImmutableBesideAddressed DEF TypeOK
  <2>2. ASSUME NEW r \in Run, Create(r) PROVE FALSE
    BY <2>2 DEF Create, Goto, Fails, CreatesBesideNone
  <2>3. ASSUME NEW r \in Run, Publish(r) PROVE releases' = releases
    <3>1. Published # {} => Addressed \in Published
      BY PublishedIsAddressed DEF TypeOK
    <3>2. Published # {}
      BY DEF NothingImmutable, Published
    <3>3. releases # {} => WithAddressedPublished = releases
      BY <3>1, <3>2 DEF WithAddressedPublished, Published
    <3> QED BY <2>3, <3>3 DEF Publish
  <2>4. CASE External
    <3>1. externals \in Nat
      BY DEF TypeOK
    <3> QED BY <2>4, <3>1 DEF External
  <2> QED BY <2>1, <2>2, <2>3, <2>4
          DEF Next, RunStep, Trigger, Start, Kill, Validate, List, View, Build, Confirm, CleanList, CleanView
<1> QED BY <1>1, <1>2, <1>3, TypeCorrect, PTL DEF Spec, ImmutableIsFinal

----------------------------------------------------------------------------
(* Without outside changes: one release, never published in part *)

\* At most one release carries the tag.
Single == \A x, y \in releases : x = y

\* Steps at which a run has a release of its own to account for.
Holding == {"publish", "confirm", "cleanList", "cleanView", "cleanDelete"}

\* What the step a run is at says of the releases of the tag.
StepKnows ==
    \A r \in Run :
        /\ pc[r] \in {"build", "create"} => releases = {}
        /\ pc[r] \in Holding \cup {"view", "delete"} => releases # {}
        /\ pc[r] \in Holding => \A x \in releases : x.complete /\ x.body = {sha[r]}
        /\ pc[r] \in {"delete", "cleanDelete"} =>
              \A x \in releases : x.body = {sha[r]} /\ x.state # "immutable"

Whole == \A x \in Published : x.complete

\* Every release carries the marker of one commit only.
OneMarker == \A x \in releases : \E s \in Sha : x.body = {s}

Quiet == Single /\ StepKnows /\ Whole /\ OneMarker

\* With at most one release the tag resolves to it, and deleting it leaves none.
LEMMA SingleAddressed ==
    ASSUME releases \subseteq Release, Single, releases # {}
    PROVE  releases = {Addressed} /\ WithoutAddressed = {}
<1>1. Addressed \in releases
  BY AddressedIsARelease
<1> QED BY <1>1 DEF Single, WithoutAddressed

\* gh release edit changes the state of the only release and nothing else of it.
LEMMA EditOfTheOnlyRelease ==
    ASSUME releases \subseteq Release, Single, releases # {}
    PROVE  \E x \in releases : \E y :
              /\ releases = {x} /\ WithAddressedPublished = {y}
              /\ y.body = x.body /\ y.complete = x.complete
              /\ IF x.state = "draft"
                 THEN y.state = IF protection THEN "immutable" ELSE "mutable"
                 ELSE y = x
<1>1. releases = {Addressed} /\ WithoutAddressed = {} /\ Addressed \in Release
  BY SingleAddressed
<1> DEFINE y == IF Addressed.state = "draft"
                THEN [Addressed EXCEPT !.state = IF protection THEN "immutable" ELSE "mutable"]
                ELSE Addressed
<1>2. WithAddressedPublished = {y}
  BY <1>1 DEF WithAddressedPublished
<1>3. /\ y.body = Addressed.body /\ y.complete = Addressed.complete
      /\ IF Addressed.state = "draft"
         THEN y.state = IF protection THEN "immutable" ELSE "mutable"
         ELSE y = Addressed
  BY <1>1 DEF Release
<1> QED BY <1>1, <1>2, <1>3

\* What the presence check can answer when there is at most one release.
LEMMA SingleCount ==
    ASSUME Single PROVE /\ releases # {} <=> Cardinality(releases) = 1
                        /\ ~(Cardinality(releases) > 1)
<1>1. CASE releases = {}
  BY <1>1, FS_EmptySet
<1>2. CASE releases # {}
  <2>1. PICK x \in releases : releases = {x}
    BY <1>2 DEF Single
  <2>2. Cardinality(releases) = 1
    BY <2>1, FS_Singleton
  <2> QED BY <1>2, <2>2
<1> QED BY <1>1, <1>2

\* Without outside changes every step keeps one owned, honestly complete release.
LEMMA QuietInductive ==
    ASSUME TypeOK, Triggered, OneAtATime, Quiet, [Next]_vars, externals' = 0, externals = 0
    PROVE  Quiet'
<1> USE DEF TypeOK, Triggered, OneAtATime, Quiet, Single, StepKnows, Whole, OneMarker,
            Published, Holding, Working, Goto, Fails
<1>1. ASSUME NEW r \in Run, Trigger(r) PROVE Quiet'
  BY <1>1 DEF Trigger
<1>2. ASSUME NEW r \in Run, Start(r) PROVE Quiet'
  BY <1>2 DEF Start
<1>3. ASSUME NEW r \in Run, RunStep(r) PROVE Quiet'
  <2>1. CASE Validate(r) \/ Build(r)
    BY <2>1 DEF Validate, Build
  <2>2. CASE List(r)
    BY <2>2, SingleCount DEF List
  <2>3. CASE View(r)
    <3>1. pc'[r] = "delete" => \A x \in releases : sha[r] \in x.body /\ x.state # "immutable"
      BY <2>3, SingleAddressed DEF View, DeletableBy
    <3>2. /\ pc'[r] \in {"delete", "success", "failed"} /\ pc[r] = "view"
          /\ pc' = [pc EXCEPT ![r] = pc'[r]]
          /\ UNCHANGED <<releases, protection, sha>>
      BY <2>3 DEF View
    <3> QED BY <3>1, <3>2
  <2>4. CASE Delete(r)
    <3>1. releases' \in {releases, {}} /\ (pc'[r] = "build" => releases' = {})
      BY <2>4, SingleAddressed DEF Delete
    <3>2. /\ pc'[r] \in {"build", "failed"} /\ pc[r] = "delete"
          /\ pc' = [pc EXCEPT ![r] = pc'[r]] /\ UNCHANGED sha
      BY <2>4 DEF Delete
    <3> QED BY <3>1, <3>2
  <2>5. CASE Create(r)
    <3>1. releases = {} /\ sha[r] \in Sha
      BY <2>5 DEF Create
    <3>2. \/ releases' = {} /\ pc'[r] = "failed"
          \/ \E i \in FreshId, whole \in BOOLEAN :
                releases' = {NewDraft(i, sha[r], whole)} /\ (whole \/ pc'[r] = "failed")
      <4>1. CASE \E i \in FreshId : releases' = releases \cup {NewDraft(i, sha[r], TRUE)}
        BY <4>1, <3>1
      <4>2. CASE pc'[r] = "failed"
        <5>1. releases' = releases \/ \E i \in FreshId, whole \in BOOLEAN :
                 releases' = releases \cup {NewDraft(i, sha[r], whole)}
          BY <2>5 DEF Create
        <5> QED BY <5>1, <4>2, <3>1
      <4>3. (\E i \in FreshId : releases' = releases \cup {NewDraft(i, sha[r], TRUE)})
            \/ pc'[r] = "failed"
        BY <2>5 DEF Create
      <4> QED BY <4>1, <4>2, <4>3
    <3>3. \/ releases' = {} /\ pc'[r] = "failed"
          \/ \E x : /\ releases' = {x}
                    /\ x.body = {sha[r]} /\ x.state = "draft"
                    /\ (x.complete \/ pc'[r] = "failed")
      <4>1. \A i \in FreshId, whole \in BOOLEAN :
               /\ NewDraft(i, sha[r], whole).body = {sha[r]}
               /\ NewDraft(i, sha[r], whole).state = "draft"
               /\ NewDraft(i, sha[r], whole).complete = whole
        BY DEF NewDraft
      <4> QED BY ONLY <3>2, <4>1
    <3>4. /\ pc'[r] \in {"publish", "failed"} /\ pc[r] = "create"
          /\ pc' = [pc EXCEPT ![r] = pc'[r]] /\ UNCHANGED sha
      BY <2>5 DEF Create
    <3> QED BY <3>1, <3>3, <3>4
  <2>6. CASE Publish(r)
    <3>1. releases' = releases \/ \E x \in releases : \E y :
              releases = {x} /\ releases' = {y} /\ y.body = x.body /\ y.complete = x.complete
      BY <2>6, EditOfTheOnlyRelease DEF Publish
    <3>2. /\ pc'[r] \in {"confirm", "cleanList"} /\ pc[r] = "publish"
          /\ pc' = [pc EXCEPT ![r] = pc'[r]] /\ UNCHANGED sha
      BY <2>6 DEF Publish
    <3> QED BY <3>1, <3>2
  <2>7. CASE Confirm(r)
    BY <2>7 DEF Confirm
  <2>8. CASE CleanList(r)
    BY <2>8 DEF CleanList
  <2>9. CASE CleanView(r)
    <3>1. pc'[r] = "cleanDelete" => \A x \in releases : x.state # "immutable"
      BY <2>9, SingleAddressed DEF CleanView, DeletableBy
    <3>2. /\ pc'[r] \in {"cleanDelete", "failed"} /\ pc[r] = "cleanView"
          /\ pc' = [pc EXCEPT ![r] = pc'[r]]
          /\ UNCHANGED <<releases, protection, sha>>
      BY <2>9 DEF CleanView
    <3> QED BY <3>1, <3>2
  <2>10. CASE CleanDelete(r)
    <3>1. releases' \in {releases, {}}
      BY <2>10, SingleAddressed DEF CleanDelete
    <3>2. /\ pc'[r] = "failed" /\ pc[r] = "cleanDelete"
          /\ pc' = [pc EXCEPT ![r] = pc'[r]] /\ UNCHANGED sha
      BY <2>10 DEF CleanDelete
    <3> QED BY <3>1, <3>2
  <2> QED BY <1>3, <2>1, <2>2, <2>3, <2>4, <2>5, <2>6, <2>7, <2>8, <2>9, <2>10 DEF RunStep
<1>4. ASSUME NEW r \in Run, Kill(r) PROVE Quiet'
  BY <1>4 DEF Kill
<1>5. CASE External
  BY <1>5 DEF External
<1>6. CASE UNCHANGED vars
  BY <1>6 DEF vars
<1> QED BY <1>1, <1>2, <1>3, <1>4, <1>5, <1>6 DEF Next

----------------------------------------------------------------------------
(* Without outside changes: why a release is there, and why a run failed *)

Cleaning == {"cleanList", "cleanView", "cleanDelete"}

\* Every release goes back to a run of its commit that is still at work on it,
\* that was killed or failed where no cleanup follows, or that published it.
Origin ==
    \A x \in releases : \E q \in Run :
        /\ x.body = {sha[q]} /\ sha[q] \in Sha
        /\ \/ pc[q] \in Holding
           \/ trouble[q] \cap {"kill", "create", "cleanup"} # {}
           \/ x.state = "immutable" /\ (pc[q] = "success" \/ trouble[q] # {})

\* What a run that publishes or cleans up knows of the release's state.
StateKnown ==
    \A q \in Run :
        /\ pc[q] = "publish" => \A x \in releases : x.state = "draft"
        /\ pc[q] = "confirm" /\ protection => \A x \in releases : x.state = "immutable"
        /\ pc[q] \in Cleaning /\ trouble[q] = {} =>
              ~protection /\ \A x \in releases : x.state # "immutable"

\* Without outside changes a run at its publish or cleanup steps knows the state of the release.
LEMMA StateKnownInductive ==
    ASSUME TypeOK, OneAtATime, Quiet, StateKnown, [Next]_vars, externals' = 0
    PROVE  StateKnown'
<1> USE DEF TypeOK, OneAtATime, StateKnown, Cleaning, Working, Goto, Fails
<1>1. ASSUME NEW r \in Run, Trigger(r) \/ Start(r) \/ Kill(r) PROVE StateKnown'
  BY <1>1 DEF Trigger, Start, Kill
<1>2. ASSUME NEW r \in Run, RunStep(r) PROVE StateKnown'
  <2>1. CASE Validate(r) \/ List(r) \/ View(r) \/ Build(r) \/ CleanList(r) \/ CleanView(r)
    BY <2>1 DEF Validate, List, View, Build, CleanList, CleanView
  <2>2. CASE Delete(r)
    BY <2>2 DEF Delete
  <2>3. CASE Create(r)
    <3>1. releases = {}
      BY <2>3 DEF Create, Quiet, StepKnows
    <3>2. pc'[r] = "publish" =>
             \E i \in FreshId : releases' = {NewDraft(i, sha[r], TRUE)}
      BY <2>3, <3>1 DEF Create
    <3>3. pc'[r] = "publish" => \A x \in releases' : x.state = "draft"
      <4>1. \A i \in FreshId : NewDraft(i, sha[r], TRUE).state = "draft"
        BY DEF NewDraft
      <4> QED BY <3>2, <4>1
    <3>4. /\ pc'[r] \in {"publish", "failed"} /\ pc[r] = "create"
          /\ pc' = [pc EXCEPT ![r] = pc'[r]]
      BY <2>3 DEF Create
    <3> QED BY <3>3, <3>4
  <2>4. CASE Publish(r)
    <3>1. \A x \in releases : x.state = "draft"
      BY <2>4 DEF Publish
    <3>3. /\ pc' = [pc EXCEPT ![r] = pc'[r]] /\ pc[r] = "publish"
          /\ \/ pc'[r] = "confirm" /\ releases' = WithAddressedPublished
             \/ pc'[r] = "cleanList" /\ trouble'[r] # {}
          /\ UNCHANGED protection /\ \A q \in Run : q # r => trouble'[q] = trouble[q]
      BY <2>4 DEF Publish
    <3>4. pc'[r] = "confirm" /\ protection => \A x \in releases' : x.state = "immutable"
      <4>1. releases # {}
        BY <3>3 DEF Quiet, StepKnows, Holding
      <4> QED BY <3>1, <3>3, <4>1, EditOfTheOnlyRelease DEF Quiet
    <3> QED BY <3>3, <3>4
  <2>5. CASE Confirm(r)
    <3>1. /\ pc' = [pc EXCEPT ![r] = pc'[r]] /\ pc[r] = "confirm"
          /\ UNCHANGED <<releases, protection>>
          /\ \A q \in Run : q # r => trouble'[q] = trouble[q]
          /\ \/ pc'[r] = "success"
             \/ pc'[r] = "cleanList" /\ trouble'[r] # {}
             \/ pc'[r] = "cleanList" /\ releases # {} /\ Addressed.state # "immutable"
      BY <2>5 DEF Confirm
    <3>2. pc'[r] = "cleanList" /\ trouble'[r] = {} =>
             ~protection /\ \A x \in releases : x.state # "immutable"
      BY <3>1, SingleAddressed DEF Quiet
    <3> QED BY <3>1, <3>2
  <2>6. CASE CleanDelete(r)
    BY <2>6 DEF CleanDelete
  <2> QED BY <1>2, <2>1, <2>2, <2>3, <2>4, <2>5, <2>6 DEF RunStep
<1>3. CASE External
  BY <1>3 DEF External
<1>4. CASE UNCHANGED vars
  BY <1>4 DEF vars
<1> QED BY <1>1, <1>2, <1>3, <1>4 DEF Next

\* Histories only grow while nobody interferes: commits stay, successes stay,
\* failed calls stay on record; and only the run that steps changes its own.
LEMMA HistoryGrows ==
    ASSUME TypeOK, Triggered, [Next]_vars, externals' = externals
    PROVE  /\ UNCHANGED protection
           /\ \A q \in Run : /\ sha[q] \in Sha => sha'[q] = sha[q]
                             /\ trouble[q] \subseteq trouble'[q]
                             /\ pc[q] = "success" => pc'[q] = "success"
<1> USE DEF TypeOK, Triggered, Goto, Fails, Working
<1>1. ASSUME NEW r \in Run, Trigger(r) \/ Start(r) \/ RunStep(r) \/ Kill(r)
      PROVE  /\ UNCHANGED protection
             /\ \A q \in Run : /\ trouble[q] \subseteq trouble'[q]
                               /\ pc[q] = "success" => pc'[q] = "success"
  BY <1>1 DEF Trigger, Start, Kill, RunStep, Validate, List, View, Delete, Build, Create,
              Publish, Confirm, CleanList, CleanView, CleanDelete
<1>2. ASSUME NEW r \in Run, Start(r) \/ RunStep(r) \/ Kill(r) PROVE UNCHANGED sha
  BY <1>2 DEF Start, Kill, RunStep, Validate, List, View, Delete, Build, Create,
              Publish, Confirm, CleanList, CleanView, CleanDelete
<1>3. ASSUME NEW r \in Run, Trigger(r), NEW q \in Run, sha[q] \in Sha
      PROVE  sha'[q] = sha[q]
  <2>1. sha[r] \notin Sha
    BY <1>3, NoShaAssumption DEF Trigger
  <2> QED BY <1>3, <2>1 DEF Trigger
<1>4. CASE External
  BY <1>4 DEF External
<1>5. CASE UNCHANGED vars
  BY <1>5 DEF vars
<1> QED BY <1>1, <1>2, <1>3, <1>4, <1>5 DEF Next

\* Without outside changes every release is traced to a run that explains it.
LEMMA OriginInductive ==
    ASSUME TypeOK, Triggered, OneAtATime, Quiet, Quiet', StateKnown, Origin,
           [Next]_vars, externals' = externals
    PROVE  Origin'
<1> USE DEF TypeOK, Origin
<1> DEFINE Cause(x, q) ==
               /\ x.body = {sha[q]} /\ sha[q] \in Sha
               /\ \/ pc[q] \in Holding
                  \/ trouble[q] \cap {"kill", "create", "cleanup"} # {}
                  \/ x.state = "immutable" /\ (pc[q] = "success" \/ trouble[q] # {})
<1>1. ASSUME NEW x \in releases, NEW q \in Run, Cause(x, q), pc'[q] = pc[q]
      PROVE  Cause(x, q)'
  BY <1>1, HistoryGrows
<1>2. ASSUME NEW r \in Run, Trigger(r) \/ Start(r) PROVE Origin'
  <2>1. UNCHANGED releases /\ \A q \in Run : pc'[q] # pc[q] => pc[q] \in {"untriggered", "pending"}
    BY <1>2 DEF Trigger, Start, Goto
  <2>2. ASSUME NEW x \in releases, NEW q \in Run, Cause(x, q) PROVE Cause(x, q)'
    <3>1. CASE pc'[q] = pc[q]
      BY <2>2, <3>1, <1>1
    <3>2. CASE pc[q] \in {"untriggered", "pending"}
      BY <2>2, <3>2, HistoryGrows DEF Holding
    <3> QED BY <2>1, <3>1, <3>2
  <2> QED BY <2>1, <2>2
<1>3. ASSUME NEW r \in Run, RunStep(r) \/ Kill(r) PROVE Origin'
  <2>1. /\ pc[r] \in Working /\ \A q \in Run : q # r => pc'[q] = pc[q]
        /\ pc'[r] # "untriggered"
    BY <1>3 DEF RunStep, Kill, Validate, List, View, Delete, Build, Create, Publish,
                Confirm, CleanList, CleanView, CleanDelete, Goto, Fails, Working
  <2>2. sha'[r] = sha[r] /\ sha[r] \in Sha
    BY <2>1, HistoryGrows DEF Triggered, Working
  <2>3. CASE pc'[r] \in Holding
    <3>1. \A x \in releases' : Cause(x, r)'
      BY <2>2, <2>3 DEF Quiet, StepKnows
    <3> QED BY <3>1
  <2>4. CASE Create(r) /\ pc'[r] \notin Holding
    <3>1. /\ "create" \in trouble'[r]
          /\ \A x \in releases' : x.body = {sha[r]}
      <4>1. releases = {} /\ "create" \in trouble'[r]
        <5>1. pc[r] = "create"
          BY <2>4 DEF Create, Goto, Fails
        <5>2. releases = {}
          BY <5>1 DEF Quiet, StepKnows
        <5>3. Goto(r, "create", "publish") => pc'[r] \in Holding
          BY DEF Goto, Holding
        <5>4. Fails(r, "create", "create", "failed")
          BY <2>4, <5>3 DEF Create
        <5> QED BY <5>2, <5>4 DEF Fails, Phase
      <4>2. \A i \in FreshId, whole \in BOOLEAN : NewDraft(i, sha[r], whole).body = {sha[r]}
        BY DEF NewDraft
      <4>3. releases' = {} \/ \E i \in FreshId, whole \in BOOLEAN :
               releases' = {NewDraft(i, sha[r], whole)}
        BY <2>4, <4>1 DEF Create
      <4> QED BY <4>1, <4>2, <4>3
    <3> QED BY <3>1, <2>2
  <2>5. CASE ~Create(r) /\ pc'[r] \notin Holding
    <3>1. releases' \subseteq releases
      BY <1>3, <2>5 DEF RunStep, Kill, Validate, List, View, Delete, Build, Publish, Confirm,
                        CleanList, CleanView, CleanDelete, Goto, Fails, Holding,
                        WithoutAddressed
    <3>2. ASSUME NEW x \in releases', NEW q \in Run, Cause(x, q), q # r PROVE Cause(x, q)'
      BY <2>1, <3>1, <3>2, <1>1
    <3>3. ASSUME NEW x \in releases', Cause(x, r), pc[r] \notin Holding PROVE Cause(x, r)'
      BY <2>1, <3>3, HistoryGrows DEF Working
    <3>4. ASSUME NEW x \in releases', Cause(x, r), pc[r] \in Holding PROVE Cause(x, r)'
      <4>1. \/ "kill" \in trouble'[r] \/ "cleanup" \in trouble'[r]
            \/ pc'[r] = "success" /\ x.state = "immutable"
            \/ pc[r] = "cleanView" /\ trouble'[r] = trouble[r] /\ x.state = "immutable"
        <5>1. CASE Kill(r)
          BY <5>1 DEF Kill, Fails, Goto, Phase
        <5>2. CASE Publish(r)
          BY <5>2, <2>5 DEF Publish, Fails, Goto, Holding
        <5>3. CASE Confirm(r)
          BY <5>3, <2>5, <3>1, <3>4, SingleAddressed DEF Confirm, Fails, Goto, Holding, Quiet
        <5>4. CASE CleanList(r)
          <6>1. Cardinality(releases) = 1
            BY <3>1, <3>4, SingleCount DEF Quiet
          <6> QED BY <5>4, <6>1, <2>5 DEF CleanList, Fails, Goto, Holding, Phase
        <5>5. CASE CleanView(r)
          BY <5>5, <2>5, <2>2, <3>1, <3>4, SingleAddressed
             DEF CleanView, Fails, Goto, Holding, Phase, Quiet, DeletableBy, StepKnows
        <5>6. CASE CleanDelete(r)
          BY <5>6, <2>5, <3>1, <3>4, SingleAddressed
             DEF CleanDelete, Fails, Goto, Holding, Phase, Quiet
        <5> QED BY <1>3, <3>4, <5>1, <5>2, <5>3, <5>4, <5>5, <5>6
                DEF RunStep, Holding, Validate, List, View, Delete, Build, Create, Goto, Fails
      <4>2. pc[r] = "cleanView" /\ x.state = "immutable" => trouble[r] # {}
        BY <3>1 DEF StateKnown, Cleaning
      <4> QED BY <4>1, <4>2, <2>2, <3>4
    <3>5. \A x \in releases' : \E q \in Run : Cause(x, q)
      BY <3>1
    <3> QED BY <3>2, <3>3, <3>4, <3>5
  <2> QED BY <2>3, <2>4, <2>5
<1>4. CASE External
  BY <1>4 DEF External
<1>5. CASE UNCHANGED vars
  BY <1>5 DEF vars
<1> QED BY <1>2, <1>3, <1>4, <1>5 DEF Next

\* Without outside changes no step makes a run without failing calls fail.
LEMMA RetryInductive ==
    ASSUME TypeOK, Triggered, OneAtATime, Quiet, StateKnown, Origin, RetrySucceeds,
           [Next]_vars, externals = 0, externals' = 0
    PROVE  RetrySucceeds'
<1> DEFINE Bad(r, q) == sha[q] \notin {sha[r], NoSha} /\ (pc[q] = "success" \/ trouble[q] # {})
<1> USE DEF TypeOK
<1>1. ASSUME NEW r \in Run, NEW q \in Run, sha[r] \in Sha, Bad(r, q) PROVE Bad(r, q)'
  BY <1>1, HistoryGrows
<1>2. ASSUME NEW r \in Run, pc[r] # "failed", pc'[r] = "failed", trouble'[r] = {}, protection
      PROVE  sha[r] \in Sha /\ \E q \in Run : Bad(r, q)
  <2> USE <1>2
  <2>1. trouble[r] = {}
    BY HistoryGrows
  <2>2. View(r) \/ List(r) \/ pc[r] \in Cleaning
    <3>1. PICK q \in Run : Trigger(q) \/ Start(q) \/ RunStep(q) \/ Kill(q)
      BY DEF Next, External, vars
    <3>2. q = r /\ RunStep(r)
      BY <3>1 DEF Trigger, Start, Kill, RunStep, Validate, List, View, Delete, Build, Create,
                  Publish, Confirm, CleanList, CleanView, CleanDelete, Goto, Fails
    <3>3. CASE Validate(r) \/ Delete(r) \/ Build(r) \/ Create(r) \/ Publish(r) \/ Confirm(r)
      <4>1. \A phase, from, to : ~Fails(r, phase, from, to)
        BY <1>2 DEF Fails
      <4>2. \A from : \A to \in {"list", "build", "create", "publish", "confirm", "success",
                                 "cleanList"} : ~Goto(r, from, to)
        BY DEF Goto
      <4> QED BY <3>3, <4>1, <4>2 DEF Validate, Delete, Build, Create, Publish, Confirm
    <3>4. CASE CleanList(r) \/ CleanView(r) \/ CleanDelete(r)
      BY <3>4 DEF CleanList, CleanView, CleanDelete, Goto, Fails, Cleaning
    <3> QED BY <3>2, <3>3, <3>4 DEF RunStep
  <2>3. pc[r] \notin Cleaning
    BY <2>1 DEF StateKnown
  <2>4. CASE List(r)
    BY <2>4, SingleCount DEF List, Goto, Fails, Quiet, Phase
  <2>5. CASE View(r)
    <3>1. pc[r] = "view" /\ sha[r] \in Sha /\ releases # {}
          /\ ~DeletableBy(r, Addressed) /\ ~CommittedBy(r, Addressed)
      BY <2>5 DEF View, Goto, Fails, Triggered, Phase
    <3>2. Addressed \in releases /\ sha[r] \notin Addressed.body
      BY <3>1, AddressedIsARelease DEF DeletableBy, CommittedBy
    <3>3. PICK q \in Run : /\ Addressed.body = {sha[q]} /\ sha[q] \in Sha
                           /\ pc[q] \in Holding \/ pc[q] = "success" \/ trouble[q] # {}
      BY <3>2 DEF Origin
    <3>4. pc[q] \notin Holding
      BY <3>1 DEF OneAtATime, Holding, Working
    <3> QED BY <3>1, <3>2, <3>3, <3>4, NoShaAssumption
  <2> QED BY <2>2, <2>3, <2>4, <2>5
<1>3. ASSUME NEW r \in Run, pc[r] = "failed" PROVE sha[r] \in Sha
  BY <1>3 DEF Triggered
<1>4. ASSUME NEW r \in Run, pc'[r] = "failed", trouble'[r] = {}, protection'
      PROVE  \E q \in Run : Bad(r, q)'
  <2>1. protection /\ trouble[r] = {}
    BY <1>4, HistoryGrows
  <2>2. sha[r] \in Sha /\ \E q \in Run : Bad(r, q)
    BY <1>2, <1>3, <1>4, <2>1 DEF RetrySucceeds
  <2> QED BY <2>2, <1>1
<1> QED BY <1>4 DEF RetrySucceeds

----------------------------------------------------------------------------
(* The invariant that carries the safety of the transaction *)

\* What holds as long as nobody outside the workflow interferes.
Undisturbed == externals = 0 => Quiet /\ StateKnown /\ Origin

IInv == /\ TypeOK /\ Triggered /\ OneAtATime
        /\ Undisturbed /\ RetrySucceeds

\* The invariant that carries the safety of the release transaction.
THEOREM IInvInvariant == Spec => []IInv
<1>1. Init => IInv
  BY DEF Init, IInv, OneAtATime, Undisturbed, Quiet, Single, StepKnows, Whole, OneMarker,
         StateKnown, Origin, RetrySucceeds, Published, Working, Holding, Cleaning, TypeOK,
         Triggered
<1>2. TypeOK /\ Triggered /\ TypeOK' /\ IInv /\ [Next]_vars
         => OneAtATime' /\ Undisturbed' /\ RetrySucceeds'
  <2> SUFFICES ASSUME TypeOK, Triggered, TypeOK', IInv, [Next]_vars
               PROVE  OneAtATime' /\ Undisturbed' /\ RetrySucceeds'
    OBVIOUS
  <2>1. OneAtATime'
    BY OneAtATimeInductive DEF IInv
  <2>2. externals' = 0 => externals = 0
    <3>1. ASSUME NEW r \in Run, Trigger(r) \/ Start(r) \/ RunStep(r) \/ Kill(r)
          PROVE  externals' = externals
      BY <3>1 DEF Trigger, Start, RunStep, Kill, Validate, List, View, Delete, Build, Create,
                  Publish, Confirm, CleanList, CleanView, CleanDelete
    <3>2. CASE External
      BY <3>2 DEF External, TypeOK
    <3>3. CASE UNCHANGED vars
      BY <3>3 DEF vars
    <3> QED BY <3>1, <3>2, <3>3 DEF Next
  <2>3. ASSUME externals' = 0 PROVE Quiet' /\ StateKnown' /\ Origin' /\ RetrySucceeds'
    BY <2>2, <2>3, QuietInductive, StateKnownInductive, OriginInductive, RetryInductive
       DEF IInv, Undisturbed
  <2>4. externals' # 0 => RetrySucceeds'
    BY DEF RetrySucceeds
  <2> QED BY <2>1, <2>3, <2>4 DEF Undisturbed
<1> QED BY <1>1, <1>2, TypeCorrect, PTL DEF Spec, IInv

\* One run at a time and, undisturbed, one release object at a time.
THEOREM SerialisedAlways == Spec => []Serialised
<1>1. IInv => Serialised
  BY DEF IInv, Undisturbed, Quiet, Single, OneAtATime, Serialised
<1> QED BY <1>1, IInvInvariant, PTL

\* A release that anybody can download has all its assets.
THEOREM PublishedIsWholeAlways == Spec => []PublishedIsWhole
<1>1. IInv => PublishedIsWhole
  BY DEF IInv, Undisturbed, Quiet, Whole, PublishedIsWhole
<1> QED BY <1>1, IInvInvariant, PTL

\* A run none of whose own calls fails can only fail for a release of another
\* commit or for missing protection.
THEOREM RetryAlwaysSucceeds == Spec => []RetrySucceeds
<1> QED BY IInvInvariant, PTL DEF IInv

\* What an idle workflow leaves unpublished has a recorded cause.
THEOREM ResidueAlwaysHasCause == Spec => []ResidueHasCause
<1>1. IInv => ResidueHasCause
  BY DEF IInv, Undisturbed, Origin, ResidueHasCause, Holding, Working
<1> QED BY <1>1, IInvInvariant, PTL

----------------------------------------------------------------------------
(* Refinement: a run's API calls amount to one atomic publication *)

\* Without an immutable release nothing counts as published.
LEMMA NothingPublished ==
    ASSUME NEW rs, \A x \in rs : x.state # "immutable" PROVE SourceOf(rs) = NoSha
BY DEF SourceOf

\* One immutable release with one marker publishes the commit of the marker.
LEMMA PublishedSource ==
    ASSUME NEW x, x.state = "immutable", NEW s \in Sha, x.body = {s}
    PROVE  SourceOf({x}) = s
<1>1. \A t \in Sha : (\E y \in {x} : y.state = "immutable" /\ y.body = {t}) <=> t = s
  OBVIOUS
<1> QED BY <1>1 DEF SourceOf

\* A step that leaves what is published alone and moves run r to pc "to" is, for
\* AtomicRelease, a stutter or r's verdict.
LEMMA RunStepMaps ==
    ASSUME TypeOK, NEW r \in Run, pc[r] \in Working \cup {"pending"}, NEW to,
           pc' = [pc EXCEPT ![r] = to], UNCHANGED sha,
           SourceOf(releases') = SourceOf(releases), sha[r] # NoSha,
           to = "success" => SourceOf(releases) = sha[r]
    PROVE  [Atomic!Next]_Atomic!vars
<1> USE DEF TypeOK
<1>1. pc[r] \notin Ended
  BY DEF Working, Ended
<1>2. CASE to \notin Ended
  <2>1. Verdict' = Verdict
    BY <1>1, <1>2 DEF Verdict, Ended
  <2> QED BY <2>1 DEF Atomic!vars
<1>3. CASE to \in Ended
  <2>1. Verdict[r] = "none"
    BY <1>1 DEF Verdict, Ended
  <2>2. Verdict' = [Verdict EXCEPT ![r] = IF to = "success" THEN "success" ELSE "failed"]
    BY <1>3 DEF Verdict
  <2>3. Atomic!Succeed(r) \/ Atomic!Fail(r)
    BY <2>1, <2>2 DEF Atomic!Succeed, Atomic!Fail
  <2> QED BY <2>3 DEF Atomic!Next
<1> QED BY <1>2, <1>3

\* The step that carries the refinement: the edit that takes the draft public.
LEMMA PublishMaps ==
    ASSUME TypeOK, Triggered, Quiet, StateKnown, NEW r \in Run, Publish(r)
    PROVE  [Atomic!Next]_Atomic!vars
<1> USE DEF TypeOK, Publish, Goto, Fails
<1>1. /\ pc[r] = "publish" /\ sha[r] \in Sha
      /\ UNCHANGED sha /\ pc' = [pc EXCEPT ![r] = pc'[r]]
      /\ pc'[r] \in {"confirm", "cleanList"}
  BY DEF Triggered
<1>2. PICK x \in releases : releases = {x} /\ x.state = "draft" /\ x.body = {sha[r]}
  BY <1>1, SingleAddressed DEF Quiet, StepKnows, StateKnown, Holding
<1>3. SourceOf(releases) = NoSha
  BY <1>2, NothingPublished
<1>4. CASE SourceOf(releases') = NoSha
  BY <1>1, <1>3, <1>4, RunStepMaps, NoShaAssumption DEF Working
<1>5. CASE SourceOf(releases') # NoSha
  <2>1. PICK y : releases' = {y} /\ y.body = {sha[r]}
    BY <1>1, <1>2, EditOfTheOnlyRelease DEF Quiet
  <2>2. y.state = "immutable"
    BY <1>5, <2>1, NothingPublished
  <2>3. SourceOf(releases') = sha[r]
    BY <1>1, <2>1, <2>2, PublishedSource
  <2>4. Verdict' = Verdict /\ Verdict[r] = "none"
    BY <1>1 DEF Verdict, Ended
  <2>5. Atomic!Publish(r)
    BY <1>1, <1>3, <2>3, <2>4, NoShaAssumption DEF Atomic!Publish
  <2> QED BY <2>5 DEF Atomic!Next
<1> QED BY <1>4, <1>5

\* Every step of the workflow is a step of AtomicRelease or changes nothing of it.
LEMMA StepMaps ==
    ASSUME TypeOK, Triggered, OneAtATime, Quiet, StateKnown, [Next]_vars, externals' = externals
    PROVE  [Atomic!Next]_Atomic!vars
<1> USE DEF TypeOK
<1>1. ASSUME NEW r \in Run, Trigger(r) PROVE [Atomic!Next]_Atomic!vars
  <2>1. PICK s \in Sha : sha' = [sha EXCEPT ![r] = s]
    BY <1>1 DEF Trigger
  <2>2. sha[r] = NoSha /\ UNCHANGED releases
    BY <1>1 DEF Trigger, Triggered
  <2> DEFINE given == {q \in Run : pc[q] = "pending"}
  <2>3. given \in SUBSET {q \in Run : Verdict[q] = "none" /\ sha[q] # NoSha}
    BY NoShaAssumption DEF Verdict, Ended, Triggered
  <2>4. Verdict' = [q \in Run |-> IF q \in given THEN "failed" ELSE Verdict[q]]
    BY <1>1 DEF Verdict, Ended, Trigger
  <2>5. Atomic!Trigger(r, s)
    BY <2>1, <2>2, <2>3, <2>4 DEF Atomic!Trigger
  <2> QED BY <2>5 DEF Atomic!Next
<1>2. ASSUME NEW r \in Run, Start(r) PROVE [Atomic!Next]_Atomic!vars
  BY <1>2, RunStepMaps, NoShaAssumption DEF Start, Goto, Triggered
<1>3. ASSUME NEW r \in Run, RunStep(r) \/ Kill(r), ~Publish(r)
      PROVE  [Atomic!Next]_Atomic!vars
  <2>1. /\ pc[r] \in Working /\ UNCHANGED sha
        /\ pc' = [pc EXCEPT ![r] = pc'[r]]
    BY <1>3 DEF RunStep, Kill, Validate, List, View, Delete, Build, Create,
                Confirm, CleanList, CleanView, CleanDelete, Goto, Fails, Working
  <2>2. sha[r] \in Sha /\ sha[r] # NoSha
    BY <2>1, NoShaAssumption DEF Triggered, Working
  <2>3. SourceOf(releases') = SourceOf(releases)
    <3>1. CASE Delete(r) \/ CleanDelete(r)
      <4>1. \A x \in releases : x.state # "immutable"
        BY <3>1 DEF Delete, CleanDelete, Goto, Fails, Quiet, StepKnows
      <4>2. \A x \in releases' : x.state # "immutable"
        BY <3>1, <4>1 DEF Delete, CleanDelete, WithoutAddressed
      <4> QED BY <4>1, <4>2, NothingPublished
    <3>2. CASE Create(r)
      <4>1. releases = {}
        BY <3>2 DEF Create, Goto, Fails, Quiet, StepKnows
      <4>2. \A i \in FreshId, whole \in BOOLEAN : NewDraft(i, sha[r], whole).state = "draft"
        BY DEF NewDraft
      <4>3. \A x \in releases' : x.state # "immutable"
        BY <3>2, <4>1, <4>2 DEF Create
      <4> QED BY <4>1, <4>3, NothingPublished
    <3>3. CASE ~Delete(r) /\ ~CleanDelete(r) /\ ~Create(r)
      <4>1. UNCHANGED releases
        BY <1>3, <3>3 DEF RunStep, Kill, Validate, List, View, Build, Confirm, CleanList,
                          CleanView
      <4> QED BY <4>1
    <3> QED BY <3>1, <3>2, <3>3
  <2>4. pc'[r] = "success" => SourceOf(releases) = sha[r]
    <3>1. ASSUME pc'[r] = "success"
          PROVE  releases # {} /\ Addressed.state = "immutable" /\ sha[r] \in Addressed.body
      <4>1. View(r) \/ Confirm(r)
        BY <1>3, <3>1 DEF RunStep, Kill, Validate, List, Delete, Build, Create,
                          CleanList, CleanView, CleanDelete, Goto, Fails
      <4>2. CASE View(r)
        BY <3>1, <4>2 DEF View, Goto, Fails, CommittedBy
      <4>3. CASE Confirm(r)
        <5>1. pc[r] = "confirm" /\ releases # {} /\ Addressed.state = "immutable"
          BY <3>1, <4>3 DEF Confirm, Goto, Fails
        <5> QED BY <5>1, AddressedIsARelease DEF Quiet, StepKnows, Holding
      <4> QED BY <4>1, <4>2, <4>3
    <3>2. ASSUME pc'[r] = "success" PROVE SourceOf(releases) = sha[r]
      <4>1. releases = {Addressed} /\ Addressed.body = {sha[r]}
        BY <3>1, <3>2, SingleAddressed DEF Quiet, OneMarker
      <4> QED BY <2>2, <3>1, <3>2, <4>1, PublishedSource
    <3> QED BY <3>2
  <2> QED BY <2>1, <2>2, <2>3, <2>4, RunStepMaps
<1>4. ASSUME NEW r \in Run, Publish(r) PROVE [Atomic!Next]_Atomic!vars
  BY <1>4, PublishMaps
<1>5. CASE External
  BY <1>5 DEF External
<1>6. CASE UNCHANGED vars
  BY <1>6 DEF vars, Atomic!vars, Verdict
<1> QED BY <1>1, <1>2, <1>3, <1>4, <1>5, <1>6 DEF Next

Untouched == externals = 0

\* With nobody interfering, the workflow implements the atomic publication:
\* published once, never undone, and success reported only by runs of the
\* published commit.
THEOREM ReleaseIsAtomic == ASSUME MaxExternal = 0 PROVE Spec => ImplementsAtomicRelease
<1>1. Init => Atomic!Init
  BY NothingPublished DEF Init, Atomic!Init, Verdict, Ended
<1>2. Init => Untouched
  BY DEF Init, Untouched
<1>3. Untouched /\ [Next]_vars => Untouched'
  <2>1. ASSUME NEW r \in Run, Trigger(r) \/ Start(r) \/ RunStep(r) \/ Kill(r)
        PROVE  externals' = externals
    BY <2>1 DEF Trigger, Start, RunStep, Kill, Validate, List, View, Delete, Build, Create,
                Publish, Confirm, CleanList, CleanView, CleanDelete
  <2>2. externals = 0 => ~External
    BY DEF External
  <2>3. UNCHANGED vars => externals' = externals
    BY DEF vars
  <2> QED BY <2>1, <2>2, <2>3 DEF Next, Untouched
<1>4. IInv /\ Untouched /\ Untouched' /\ [Next]_vars => [Atomic!Next]_Atomic!vars
  BY StepMaps DEF IInv, Undisturbed, Untouched
<1> QED BY <1>1, <1>2, <1>3, <1>4, IInvInvariant, PTL
        DEF Spec, ImplementsAtomicRelease, Atomic!Spec
=============================================================================
