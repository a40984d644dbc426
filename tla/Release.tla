------------------------------ MODULE Release ------------------------------
(***************************************************************************)
(* The release workflow for one tag: .github/workflows/release.yml with     *)
(* scripts/release_transaction_state.py.  Every API call of the publish job *)
(* is a step of its own: a run may be killed before it, the call may fail,  *)
(* and a call that took effect may be reported as failed.  Runs of one tag  *)
(* are serialised by the workflow's concurrency group; a privileged actor   *)
(* outside the workflow is not.                                             *)
(***************************************************************************)
EXTENDS Naturals, FiniteSets

CONSTANTS Run,          \* workflow runs: pushes of the tag and re-runs
          Sha,          \* commits the tag has pointed to (GITHUB_SHA of a run)
          NoSha,        \* GITHUB_SHA of a run that is not triggered yet
          ReleaseId,    \* identities of GitHub release objects
          MaxExternal   \* bound: changes made from outside the workflow

ASSUME NoShaAssumption == NoSha \notin Sha
\* Ids are numbers: every set of them has a smallest.
ASSUME ReleaseIdAssumption ==
    /\ ReleaseId \subseteq Nat
    /\ \A S \in SUBSET ReleaseId : S # {} => \E i \in S : \A j \in S : i <= j
ASSUME MaxExternalAssumption == MaxExternal \in Nat

VARIABLES releases,     \* the GitHub releases that carry the tag
          protection,   \* is immutable-release protection on in the repository
          pc,           \* pc[r]: the step run r is at, or how it ended
          sha,          \* sha[r]: GITHUB_SHA of run r
          externals,    \* number of outside changes so far
          trouble,      \* history: in which phases run r had a call fail
          raced         \* history: runs with an outside change since their last read

vars == <<releases, protection, pc, sha, externals, trouble, raced>>

State == {"draft", "mutable", "immutable"}

\* body: the ownership markers found in the release notes; complete: all four
\* assets were uploaded.
Release == [id : ReleaseId, state : State, body : SUBSET Sha, complete : BOOLEAN]

Working == {"validate", "list", "view", "delete", "build", "create", "publish",
            "confirm", "cleanList", "cleanView", "cleanDelete"}
Ended == {"success", "failed", "killed", "superseded"}
Phase == {"validate", "reconcile", "build", "create", "publish", "cleanup", "kill"}

TypeOK == /\ releases \subseteq Release
          /\ protection \in BOOLEAN
          /\ pc \in [Run -> Working \cup Ended \cup {"untriggered", "pending"}]
          /\ sha \in [Run -> Sha \cup {NoSha}]
          /\ externals \in Nat
          /\ trouble \in [Run -> SUBSET Phase]
          /\ raced \subseteq Run

Init == /\ releases = {}
        /\ protection \in BOOLEAN
        /\ pc = [r \in Run |-> "untriggered"]
        /\ sha = [r \in Run |-> NoSha]
        /\ externals = 0
        /\ trouble = [r \in Run |-> {}]
        /\ raced = {}

----------------------------------------------------------------------------
(* GitHub, as `gh release <command> TAG` sees it *)

Published == {x \in releases : x.state # "draft"}

\* The release that TAG resolves to: the published one, else one of the drafts.
\* Which of several drafts is unspecified: ids are given out in any order.
Addressed ==
    LET candidates == IF Published # {} THEN Published ELSE releases
    IN  CHOOSE x \in candidates : \A y \in candidates : x.id <= y.id

WithoutAddressed == releases \ {Addressed}

PublishedUnlabelled ==
    IF Addressed.state = "draft"
    THEN WithoutAddressed \cup {[Addressed EXCEPT !.state = "published"]} ELSE releases

\* gh release edit --draft=false: protection applies when a draft is published.
WithAddressedPublished ==
    IF Addressed.state = "draft"
    THEN WithoutAddressed \cup
         {[Addressed EXCEPT !.state = IF protection THEN "immutable" ELSE "mutable"]}
    ELSE releases

FreshId == ReleaseId \ {x.id : x \in releases}

MarkerlessDraft(i, s, whole) ==
    [id |-> i, state |-> "draft", body |-> {}, complete |-> whole]

NewDraft(i, s, whole) ==
    [id |-> i, state |-> "draft", body |-> {s}, complete |-> whole]

----------------------------------------------------------------------------
(* Steps of a run *)

Goto(r, from, to) == pc[r] = from /\ pc' = [pc EXCEPT ![r] = to]

\* The call of run r in this phase is reported as failed.
Fails(r, phase, from, to) ==
    /\ Goto(r, from, to)
    /\ trouble' = [trouble EXCEPT ![r] = @ \cup {phase}]

Reads(r) == raced' = raced \ {r}

\* The classes classify_release tells apart, as the case statements use them.
AnyUnpublished(r, x) == x.state # "immutable"
AnyOwned(r, x) == sha[r] \in x.body
DeletableBy(r, x) == sha[r] \in x.body /\ x.state # "immutable"

AnyImmutable(r, x) == x.state = "immutable"
CommittedBy(r, x) == sha[r] \in x.body /\ x.state = "immutable"

\* A push of the tag or a re-run.  The group keeps one waiting run: an older
\* one is dropped for the newcomer.
Trigger(r) ==
    /\ pc[r] = "untriggered"
    /\ \E s \in Sha : sha' = [sha EXCEPT ![r] = s]
    /\ pc' = [q \in Run |-> IF q = r THEN "pending"
                            ELSE IF pc[q] = "pending" THEN "superseded" ELSE pc[q]]
    /\ UNCHANGED <<releases, protection, externals, trouble, raced>>

UnserialisedStart(r) ==
    /\ Goto(r, "pending", "validate")
    /\ UNCHANGED <<releases, protection, sha, externals, trouble, raced>>

Start(r) ==
    /\ \A q \in Run : pc[q] \notin Working
    /\ Goto(r, "pending", "validate")
    /\ UNCHANGED <<releases, protection, sha, externals, trouble, raced>>

\* The validate and codeql jobs, which publish needs.
Validate(r) ==
    /\ \/ Goto(r, "validate", "list") /\ UNCHANGED trouble
       \/ Fails(r, "validate", "validate", "failed")
    /\ UNCHANGED <<releases, protection, sha, externals, raced>>

\* gh release list | release_transaction_state.py --mode exists
List(r) ==
    /\ \/ releases = {} /\ Goto(r, "list", "build") /\ UNCHANGED trouble
       \/ Cardinality(releases) = 1 /\ Goto(r, "list", "view") /\ UNCHANGED trouble
       \/ Cardinality(releases) > 1 /\ Goto(r, "list", "failed") /\ UNCHANGED trouble
       \/ Fails(r, "reconcile", "list", "failed")
    /\ Reads(r)
    /\ UNCHANGED <<releases, protection, sha, externals>>

\* gh release view | release_transaction_state.py --mode classify, then the case.
View(r) ==
    /\ \/ /\ releases # {}
          /\ \/ DeletableBy(r, Addressed) /\ Goto(r, "view", "delete")
             \/ CommittedBy(r, Addressed) /\ Goto(r, "view", "success")
             \/ /\ ~DeletableBy(r, Addressed) /\ ~CommittedBy(r, Addressed)
                /\ Goto(r, "view", "failed")
          /\ UNCHANGED trouble
       \/ Fails(r, "reconcile", "view", "failed")
    /\ Reads(r)
    /\ UNCHANGED <<releases, protection, sha, externals>>

\* gh release delete, whatever TAG resolves to by now.
Delete(r) ==
    /\ \/ releases # {} /\ releases' = WithoutAddressed
          /\ Goto(r, "delete", "build") /\ UNCHANGED trouble
       \/ /\ releases' = releases \/ (releases # {} /\ releases' = WithoutAddressed)
          /\ Fails(r, "reconcile", "delete", "failed")
    /\ UNCHANGED <<protection, sha, externals, raced>>

\* Clean directories, build, SBOM, attest and verify: no remote release state.
Build(r) ==
    /\ \/ Goto(r, "build", "create") /\ UNCHANGED trouble
       \/ Fails(r, "build", "build", "failed")
    /\ UNCHANGED <<releases, protection, sha, externals, raced>>

CreateErrorIgnored(r) ==
    /\ pc[r] = "create"
    /\ \E i \in FreshId, whole \in BOOLEAN :
          releases' = releases \cup {NewDraft(i, sha[r], whole)}
    /\ Goto(r, "create", "publish")
    /\ UNCHANGED <<protection, sha, externals, trouble, raced>>

\* gh release create --draft with the marker and four assets.  A failed call
\* may leave no draft, a draft without all assets, or a whole draft.
Create(r) ==
    /\ \/ /\ \E i \in FreshId : releases' = releases \cup {NewDraft(i, sha[r], TRUE)}
          /\ Goto(r, "create", "publish") /\ UNCHANGED trouble
       \/ /\ \/ releases' = releases
             \/ \E i \in FreshId, whole \in BOOLEAN :
                   releases' = releases \cup {NewDraft(i, sha[r], whole)}
          /\ Fails(r, "create", "create", "failed")
    /\ UNCHANGED <<protection, sha, externals, raced>>

\* gh release edit --draft=false; the always() cleanup follows a failure.
Publish(r) ==
    /\ \/ releases # {} /\ releases' = WithAddressedPublished
          /\ Goto(r, "publish", "confirm") /\ UNCHANGED trouble
       \/ /\ releases' = releases \/ (releases # {} /\ releases' = WithAddressedPublished)
          /\ Fails(r, "publish", "publish", "cleanList")
    /\ UNCHANGED <<protection, sha, externals, raced>>

ConfirmWithoutCleanup(r) ==
    /\ \/ /\ releases # {} /\ UNCHANGED trouble
          /\ IF Addressed.state = "immutable" THEN Goto(r, "confirm", "success")
                                              ELSE Goto(r, "confirm", "failed")
       \/ Fails(r, "publish", "confirm", "failed")
    /\ UNCHANGED <<releases, protection, sha, externals, raced>>

ConfirmPolls(r) ==
    /\ \/ /\ releases # {} /\ UNCHANGED trouble
          /\ IF Addressed.state = "immutable" THEN Goto(r, "confirm", "success")
                                              ELSE Goto(r, "confirm", "publish")
       \/ Fails(r, "publish", "confirm", "cleanList")
    /\ UNCHANGED <<releases, protection, sha, externals, raced>>

\* gh release view --json isImmutable: anything but true fails the step.
Confirm(r) ==
    /\ \/ /\ releases # {} /\ UNCHANGED trouble
          /\ IF Addressed.state = "immutable" THEN Goto(r, "confirm", "success")
                                              ELSE Goto(r, "confirm", "cleanList")
       \/ Fails(r, "publish", "confirm", "cleanList")
    /\ UNCHANGED <<releases, protection, sha, externals, raced>>

\* The cleanup step re-reads; the job has failed whatever it finds.
CleanList(r) ==
    /\ \/ /\ UNCHANGED trouble
          /\ IF Cardinality(releases) = 1 THEN Goto(r, "cleanList", "cleanView")
                                          ELSE Goto(r, "cleanList", "failed")
       \/ Fails(r, "cleanup", "cleanList", "failed")
    /\ Reads(r)
    /\ UNCHANGED <<releases, protection, sha, externals>>

CleanView(r) ==
    /\ \/ /\ releases # {} /\ UNCHANGED trouble
          /\ IF DeletableBy(r, Addressed) THEN Goto(r, "cleanView", "cleanDelete")
                                          ELSE Goto(r, "cleanView", "failed")
       \/ Fails(r, "cleanup", "cleanView", "failed")
    /\ Reads(r)
    /\ UNCHANGED <<releases, protection, sha, externals>>

CleanDelete(r) ==
    /\ \/ releases # {} /\ releases' = WithoutAddressed
          /\ Goto(r, "cleanDelete", "failed") /\ UNCHANGED trouble
       \/ /\ releases' = releases \/ (releases # {} /\ releases' = WithoutAddressed)
          /\ Fails(r, "cleanup", "cleanDelete", "failed")
    /\ UNCHANGED <<protection, sha, externals, raced>>

\* The runner is lost or the run force-cancelled: no cleanup step runs.
Kill(r) ==
    /\ pc[r] \in Working
    /\ Fails(r, "kill", pc[r], "killed")
    /\ UNCHANGED <<releases, protection, sha, externals, raced>>

----------------------------------------------------------------------------
(* A privileged maintainer, app or API client outside the workflow *)

AtMostOnePublished(rs) ==
    \A x, y \in rs : x.state # "draft" /\ y.state # "draft" => x = y

ExternalChange ==
    \/ \E x \in releases : releases' = releases \ {x} /\ UNCHANGED protection
    \/ \E i \in FreshId, st \in State, b \in SUBSET Sha, whole \in BOOLEAN :
          /\ releases' = releases \cup
                {[id |-> i, state |-> st, body |-> b, complete |-> whole]}
          /\ UNCHANGED protection
    \/ \E x \in releases, b \in SUBSET Sha :
          releases' = (releases \ {x}) \cup {[x EXCEPT !.body = b]} /\ UNCHANGED protection
    \/ \E x \in releases \ Published, st \in State :
          /\ releases' = (releases \ {x}) \cup {[x EXCEPT !.state = st]}
          /\ UNCHANGED protection
    \/ protection' = ~protection /\ UNCHANGED releases

External ==
    /\ externals < MaxExternal
    /\ externals' = externals + 1
    /\ ExternalChange /\ AtMostOnePublished(releases')
    /\ raced' = Run
    /\ UNCHANGED <<pc, sha, trouble>>

----------------------------------------------------------------------------

RunStep(r) ==
    \/ Validate(r) \/ List(r) \/ View(r) \/ Delete(r) \/ Build(r) \/ Create(r)
    \/ Publish(r) \/ Confirm(r) \/ CleanList(r) \/ CleanView(r) \/ CleanDelete(r)

Next == \/ \E r \in Run : Trigger(r) \/ Start(r) \/ RunStep(r) \/ Kill(r)
        \/ External

Spec == Init /\ [][Next]_vars

\* A job step ends (GitHub's job timeout ends it otherwise) and the concurrency
\* group starts its waiting run once it is free.
Fairness == \A r \in Run : WF_vars(Start(r)) /\ WF_vars(RunStep(r))

FairSpec == Spec /\ Fairness

----------------------------------------------------------------------------
(* Properties *)

\* The job-level guards: with nobody interfering, at most one release object
\* ever carries the tag, and only one run is between Start and its end.
Serialised ==
    /\ \A q, r \in Run : pc[q] \in Working /\ pc[r] \in Working => q = r
    /\ externals = 0 => \A x, y \in releases : x = y

\* What a consumer can download is never a partial upload: a release that is no
\* longer a draft has all its assets, whichever create calls failed before.
PublishedIsWhole == externals = 0 => \A x \in Published : x.complete

\* Retries are safe: whatever earlier runs of the same source left behind when
\* they failed or were killed, a run none of whose own calls fails succeeds.
\* Only a run for another commit, or missing protection, can make it fail.
RetrySucceeds ==
    \A r \in Run :
        pc[r] = "failed" /\ trouble[r] = {} /\ externals = 0 /\ protection =>
            \E q \in Run : sha[q] \notin {sha[r], NoSha}
                           /\ (pc[q] = "success" \/ trouble[q] # {})

\* Cleanup is complete: once no run is active, a release that is not immutable
\* is there only because a run of its source was killed, or its create or its
\* cleanup call failed.  A failed publish call alone leaves nothing behind.
ResidueHasCause ==
    externals = 0 /\ (\A r \in Run : pc[r] \notin Working) =>
        \A x \in releases : x.state # "immutable" =>
            \E r \in Run : sha[r] \in x.body /\ trouble[r] \cap {"kill", "create", "cleanup"} # {}

\* "Automatic deletion requires an exact-source marker and a fresh state read":
\* what a run deletes is its own and not immutable, unless somebody outside the
\* workflow changed the releases after the read the deletion relies on.
DeletesOnlyItsOwn ==
    [][\A r \in Run : pc[r] \in {"delete", "cleanDelete"} /\ pc'[r] # pc[r] /\ r \notin raced =>
          \A x \in releases \ releases' : sha[r] \in x.body /\ x.state # "immutable"]_vars

\* docs/release-retry-transaction.md:48: "An immutable release without the expected
\* exact-source marker is not silently adopted by the workflow."  So a run turns
\* green only while an immutable release with its own marker exists.
GreenMeansOwned ==
    [][\A r \in Run : pc[r] # "success" /\ pc'[r] = "success" =>
          \E x \in releases' : sha[r] \in x.body /\ x.state = "immutable"]_vars

\* No step of a run removes, alters or adds a release while an immutable one is
\* there, as long as every run has read the releases again since the last outside
\* change (raced = {}).  In a race the workflow gives no such guarantee: when
\* somebody publishes a draft after a run classified it as its own and before the
\* run deletes it, `gh release delete` removes the release that is now immutable.
ImmutableIsFinal ==
    [][externals' = externals /\ raced = {} /\ (\E x \in releases : x.state = "immutable")
          => releases' = releases]_vars

\* Every triggered run ends or is superseded, and the group's queue drains: no
\* run waits for ever for another one, and none polls without end.
RunsEnd == <>[](\A r \in Run : pc[r] \in Ended \cup {"untriggered"})

----------------------------------------------------------------------------
(* Refinement: the workflow implements AtomicRelease *)

SourceOf(rs) ==
    IF \E x \in rs : x.state = "immutable"
    THEN CHOOSE s \in Sha : \E x \in rs : x.state = "immutable" /\ x.body = {s}
    ELSE NoSha

Verdict == [r \in Run |-> IF pc[r] = "success" THEN "success"
                          ELSE IF pc[r] \in Ended THEN "failed" ELSE "none"]

Atomic == INSTANCE AtomicRelease WITH published <- SourceOf(releases), source <- sha, verdict <- Verdict

\* Without outside changes the twelve API calls of a run behave as one atomic
\* publication that is never undone, and only its source's runs report success.
ImplementsAtomicRelease == Atomic!Spec
============================================================================
