# AgentCapDiff in TLA+

AgentCapDiff scans a repository for declarations of agent tools, infers what each tool can do,
evaluates the result under a policy, and compares snapshots of two revisions in a pull request.
Its own releases are published by a workflow that claims to be safe to retry. This directory holds
TLA+ modules for the program from the tree it scans to the report it writes, TLC configurations that
check them on small instances, and TLAPS proofs for every instance.

## 1. Inventory

| Component | Code | State it keeps | Operations | What is hard |
|---|---|---|---|---|
| Release transaction | `.github/workflows/release.yml`, `scripts/release_transaction_state.py` | the GitHub releases of a tag; where each run is | trigger, reconcile (list, view, delete), build, create, publish, confirm, clean up | runs overlap, die or are retried; calls fail after taking effect; others change releases |
| Output writer | `outputio.py` | a directory entry, a temporary file, two descriptors | one call: `atomic_write_text` | overlapping writers, failing system calls, power loss, a path that changes |
| Policy evaluation | `policy.py` (`evaluate_policy`) | findings, keys seen | one pass over the capabilities | early exits, deduplication, suppressions and identities interact |
| Policy comparison | `diffing.py`, `pr-capability-diff.yml` | two snapshots | snapshot base, snapshot head, compare | rules interact: a stricter field can make the verdict milder |
| Scan command | `cli.py`, `scanner.py`, `models.py` | the clock, the policy file, the output | load, evaluate, seal, verify, render, write | the date may change between the checks; failures map to exit codes |
| Policy loading | `policy.py` (`load_policy`), `yamlio.py` | a stack of files, budgets, the merged mapping | enter, read, inherit, merge, check | cycles, diamonds, limits, order of the merge, spelling |
| Discovery | `discovery.py`, `jsonio.py` | counters of entries, documents, bytes; a stack of objects | walk a tree, stat, read, walk a document, group | limits, tolerated failures, shared objects, files that change |
| Scope inference and reconciliation | `scopes.py`, `scope_reconcile.py` | none | infer, merge and compare scopes | soundness of the bound over joined and shared schemas |
| Capability inference, capability graph | `capabilities.py`, `graph.py` | none | signals of names, texts and schemas; risky combinations | agreement with the snapshot checks |
| Snapshots | `diffing.py`, `snapshotio.py`, `snapshot_semantics.py`, `schema.py` | the artifact | write, load with limits, validate, compare | what is written must load; contradictory evidence must not |
| Sealed results | `result_semantics.py` | a fingerprint beside the result | seal, verify | no change may pass, no sound result be refused |
| Report formats | `formats.py` | none | text, JSON, SARIF, Markdown | layout |
| Benchmark | `benchmark.py` | none | fixtures against expectations | sequential |
| Composite action | `action.yml`, `run_composite_action.py` | an isolated environment | install, run, map exit codes | partial failure |
| Attestation checks | `verify_release_attestations.py`, `check_attestation_integrity.py`, `generate_sbom.py` | none | compare bundle contents | completeness of the comparison |
| Repository gates, other workflows | the other `scripts/check_*.py`; `ci.yml`, `codeql.yml`, ... | none | checks of file contents | sequential |

How they interact: `scan` calls discovery, inference, reconciliation, the graph, policy loading and
evaluation, and seals the result; a command shows it and hands text to the output writer. The
pull-request workflow runs `snapshot` twice and `diff` once; the snapshots are its only shared state. The
release workflow runs the gates and the tests, then changes GitHub's releases through `gh`.

What makes each correct: a release is published whole, once, by a run for its commit, and a retry
never needs a human unless somebody else interfered; an output path always holds one complete
output; every tool a tree defines is found and every limit stops for a cause; a restricted scope is a
bound on what the tool accepts; the policy in force is the one its inheritance describes; a
policy's rejections reach the verdict whatever exits are taken; a milder verdict is announced; an
artifact that contradicts itself is refused, and a path that gets worse is escalated. The lines at which
these can go wrong are the `hazards` of `PROJECT.json`.

## 2. Modules

| Module | Role |
|---|---|
| `Release` | the release workflow, one action per step of the publish job; `AtomicRelease` is what it promises |
| `AtomicWrite` | the POSIX output writer, one action per system call; `AtomicFile` is what it promises |
| `PolicyRules` | the rules of `evaluate_policy` and the warnings of `diffing.py`, as operators |
| `PolicyEval` | `evaluate_policy` as it runs over `PolicyRules` |
| `PolicyDiff` | the pull-request check: two evaluations and a comparison |
| `ScanCommand` | the scan and snapshot commands over `PolicyRules` and `AtomicFile` |
| `Scopes` | what schemas and texts prove of paths and hosts, and how two scopes compare |
| `Tools` | which objects of a document are tools, and how definitions of one name are joined |
| `Capabilities` | what tools can do, with which scope, reconciled; the graph of risky combinations |
| `Discovery` | `discover_tools`, one action per file system call and per object visited |
| `PolicyLoad` | `load_policy`, one action per step of its recursion |
| `Snapshots` | what a snapshot holds, what `load_snapshot` accepts, what `compare_snapshots` reports |
| `ScanPipeline` | `scan` from the tree to the seal, the artifact, its edits, and `diff`: composes the six modules above and `PolicyRules` |
| `*_proofs` | the lemmas and theorems of a module; `Discovery_proofs` has the facts about recursion and traversals that `ScanPipeline_proofs` uses |
| `MC*` | constants for TLC |

Names follow the code: `Judge` is the body of the loop, `ScopeFindings` is `_scope_findings`,
`DeletableBy` and `CommittedBy` are the classes of `classify_release` that the `case` statements
use, `Confirm` is the `isImmutable` test. `map` in `PROJECT.json` gives the lines of each
definition. Operators whose names say what is left out (`FsyncSkipped`, `BlockedFirst`,
`JoinFirst`, ...) are faulty variants kept beside the definition they vary: each shows that
a property depends on the code it is about. No specification uses them.

### Release

`releases` is the set of GitHub releases with the tag, drafts included: several drafts can carry
one tag, and at most one published release does. `pc[r]` is the step run `r` is at. `gh` resolves a tag
to the published release if there is one, else to a draft (`Addressed`). `body` is the set of
ownership markers in the notes, `complete` says whether all four assets were uploaded. Every call
may fail without effect or after taking effect (`Fails`); `Kill` may end a run before any step.
`Trigger` covers pushes of the tag, also moved to another commit, and re-runs; the concurrency group
keeps one waiting run, the rest is superseded. `External` is a privileged actor who may delete,
create, publish or rewrite releases and switch immutable-release protection. `trouble` and `raced`
are history: which phases of a run had a failure, and whether somebody else changed releases since
its last read. No action reads them.

Assumed of GitHub: reads return the current state; immutability is decided atomically when a draft
is published; an immutable release can be removed only from outside (`ExternalChange` allows it); a
call cut short by a kill takes effect before or not at all; within its job a run's earlier
artifacts stay intact. The validate, CodeQL and build steps touch no release and are one step each
that succeeds or fails.

### AtomicWrite

`dir` maps the target and temporary names to what they refer to, `file` has data, mode and sync
state of each file, `past` holds earlier entries of the target that a power loss may bring back.
One call is one process. Calls fail as `Faults` allows. `Swap` is somebody else replacing the
target. The mode is abstracted to one that the umask would change and one it would not. What a power
loss does to temporary names is left open in both directions except that a name never reappears; random temporary names
are drawn from a small set, so that they collide as often as possible. After a failure with the descriptor
open the finally clause closes it first (`Abandon`); a close that fails there hides the unlink too. The parent directory is
pinned by a descriptor and taken as given. The code does not sync the directory: `AtomicFile` lets a
power loss return to earlier contents, even of a reported write, and the refinement shows nothing worse happens.

### Policy

A capability has an id, a tool name as spelled, a scope kind and scope values. `IdentityOf` is the
folding of names (`_runtime_tool_identity`): names may share an identity or have none. Selectors in
`PolicyRules` are canonical, as `load_policy` leaves them (`CapSet`, `Allowed` and their like in `PolicyLoad`).
An inventory has one scope per capability and tool name, as `reconcile_capability_scopes`
leaves it; records that differ only in their source are one. The loop visits capabilities in any
order (the code's order is that of names, which no policy depends on). Keys of names without an
identity are apart from identities, as they are in the code for all names but an empty one beside
one spelled `raw:`. A suppressed finding keeps its rule and has severity INFO.

`PolicyLoad` turns the recursion of `_load_raw_policy` into `frames`, one per active call. A file is
`Absent`, or has a text that can be read or not, a size, what it extends (`refs`), whether its path resolves
inside the folder, and the fields it sets; a value is one of the field's, `Null` or `Bad`. Names of tools and
capabilities are spelled in several ways (`CapOf`, `IdentityOf`), so that the refusal of two spellings of one
name within a mapping is modelled. How deep a YAML text nests is part of its being unreadable.

### ScanCommand

Each command is one process running `main` on one tree. A step ends at every reading of shared
state: the existence tests of `main` and `load_policy` (`Start`, `Load`), the date `load_policy` takes
before it reads (`Load`, `asOf`), the read itself (`Read`), and the dates of the evaluation, the seal, the
verification and the report (`Evaluate`, `Seal`, `Verify`, `Render`). Within one step the code may read
the clock twice; the later reading decides, so one is enough. `Midnight` and `Edit` happen between any
two steps. What a policy finds is `Outcome` of `PolicyRules`; the output path is `AtomicFile`, an
`INSTANCE` whose actions `Write` and `Return` take. Commands share the path as well as the policy
file. The reports differ only in layout and are one `Render`, which verifies once more; an exception it
raises is caught by nobody, and the process exits with 1. The exit codes are 0, 2 (threshold
reached), 3 (rejected) and 1 (traceback). Command lines are well formed: argparse's own exit code
2 is left out. So are a standard output that cannot be written and a directory descriptor that
cannot be closed. `offered` and `rendered` are history: what the policy file held while the command
ran, and the date of its report. The policy here is one file: how several are read is `PolicyLoad`'s.

### From the tree to the report

`Discovery`. `tree` is what the traversal meets: entries (file, link, suffix, ignored directory, inside the
root) and texts; `later` says what a text may become between any two steps (`ChangeText`). A parsed document is
its dicts and lists with the order of their children; YAML anchors make them shared or cyclic. Parsing is one
of five outcomes. The entries come in any order. `read` is history: each document walked with the size
looked up before. A plain `ValueError` of a parser (a number with too many digits, an impossible timestamp)
ends the scan, as `discovery.py:279` does not list it among the tolerated failures.

`Tools` and `Scopes`. A schema object is a node whose keywords hold other nodes, shared or cyclic as they may
be; `Schema` gives the keywords. What stands under a keyword that the code has no rule for (`patternProperties`,
`additionalProperties`, `prefixItems`, a list of `items`, `contains`, `$defs`) is `other`, each with the property it is about: the walks
over all keys meet it (`Below`, `Pushed`), `_schema_constraints` passes it over. The walks of `scopes.py` and `capabilities.py` are recursive functions of a visit: a node and
the set of nodes that are active or met (`Visits`). A literal is how it starts and its parts, so normalisation (`Path`, `Net`) works on parts and
not on characters; the literal of a host has neither port nor path, so a URL ending in `/**` is no pattern here. Which patterns a name or a text matches is given with it; a pattern that would match only
across two joined descriptions is left out. The keywords of an object are pushed in one order, `properties` first.

`Snapshots`. A snapshot is a function on ten fields; lists whose order nothing reads are sets, so a repeated
entry is one. `JsonNull` is a null, of a field or of a part of the policy. `Misshapen` is a value of the wrong shape that a check
refuses, inside a list or a record too; `Unhashable` is a list or an object as the confidence or kind of scope of a record, which the checks look up
in a set before they know its type. `Chokes` is the loader ending there with a TypeError, and
`UsedUnchecked` are the reads of `compare_snapshots` that do. The Markdown report's own
comparison of uncertain scopes is left out with the report.

`ScanPipeline`. `scan` is where the call is, `result` the ScanResult, `seal` the value its fingerprint was taken of. `Tamper`
is the caller changing the result between the seal and its use, `EditFile` and `ReplaceFile` somebody editing the artifact: a field dropped, set to
null, spoiled or taken from the other scan's snapshot, a part of the policy set to null, or the confidence or kind of scope of a record set to a list. The other scan is given by its snapshot, computed from an
inventory by the same operators.

## 3. Runs

| Run | Instance | Shows |
|---|---|---|
| `release_retry` | 3 runs, 2 commits, no outsider | serialised; published whole; retries succeed; cleanup complete; one atomic publication |
| `release_external` | 2 runs, 2 commits, 1 outside change, fairness | deletes only its own; immutable is final outside a race; every triggered run ends |
| `release_race` (violation) | 2 runs, 1 outside change | success does not imply an immutable release with the run's marker |
| `atomic_write` | 2 writers, 2 names, 1 swap, 1 power loss | refinement of the atomic file; mode kept; no temporary file left; links replaced only after a race |
| `atomic_write_close` (violation) | a failing close | the temporary file stays |
| `policy_eval` | 5 names, 3 identities, 504 policies, 59 inventories | early exits, identities and suppressions lose no verdict |
| `policy_twins` (violation) | the same | the denied unknown scope of the second spelling of a name is not reported |
| `policy_diff` | every pair of 140 policies, 6 inventories | a milder verdict is announced |
| `scan_command` | 2 commands of 3 command lines, 3 policies, 1 midnight, 1 edit | reports are in force; exit codes match verdict and output; no rejection without cause |
| `scan_pipeline` | four families of situations, below | see the next table |
| `snapshot_null` (violation) | a pair of scans, the findings set to null | an accepted snapshot makes the comparison fail with a traceback |
| `malformed_in_directory` (violation) | a directory with a good and a malformed document | a plain `ValueError` of a parser ends the scan |

| Property of `scan_pipeline` | Meaning |
|---|---|
| `FindsWhatIsThere` | each name once per file, with every schema and text given for it, in any order of the traversal |
| `StopsForCause` | a scan is refused for a reason in the tree or a parser's plain `ValueError` (the finding `malformed_in_directory`), and a reason is never missed |
| `ParsesWithinBudget` | the limits bound the work on a tree that changes, over documents that kept their size between stat and read |
| `LoadsTheInheritance` | the policy is, field by field, that of the last file in inheritance order that sets it; sources are each once and after what they extend |
| `SpellingFailsClosed` | an allowlist of any file still applies unless a later one gives exactly that name or all are cleared |
| `PolicyReadsWithinBudget` | depth, files and bytes stay within the limits; no cycle, link or way out is followed |
| `BoundIsSound` | a restricted scope holds every path or host that a schema given for a scoped property lets the caller choose, by JSON Schema's own meaning, in definitions where no keyword is overlooked |
| `SealHolds` | what `scan` builds is sealed unless a schema is not JSON; a changed result is never written, an unchanged one always, and it loads |
| `ContradictionIsRefused` | a field taken from another snapshot is refused or changes nothing that is reported of the capabilities |
| `ExpansionMeansGrowth` | a proven scope that grows is reported, and nothing that shrinks is |
| `WorsePathIsEscalated` | a path both scans have is escalated if its scope lost its bound or another tool takes part |
| `CrashesOnlyWhereUnchecked` | of all edits, only a null as scopes, findings or suppressions and a list as a record's confidence or kind of scope end the comparison with a traceback |
| `ScanEnds` | the scan comes to an end, over cyclic documents, policies and schemas too |

Why the bounds are enough. Release: a failure needs a first run that leaves something, a second that
meets it and a third that waits meanwhile, and a marker is foreign as soon as there are two
commits; two release ids allow the state the `multiple releases` check refuses. One outside change reaches each race
between a read and a write; safety under more of them is proved. Output: a race has two writers, and two names
make collisions and exhaustion (two attempts stand for sixteen). Policy: rules refer to one
capability at a time; two names of one identity and a third reach every interplay of the
identity check with the rules. Commands: two share the path, an exception that ends on either side of the
one midnight can expire at every check, and one edit separates the two existence tests from the read.

Pipeline: the situations come in four families, each varying one part and keeping the others fixed, because
the parts meet only through `result`. `OfTrees` has one to four files with every outcome of a text, every kind of
entry, every root, a change of a file, and documents that are lists, chains, diamonds and cycles; the limits
(3 entries, 2 documents, 2 bytes a file, 3 in all, depth 2, 3 objects) are met exactly and passed by one. `OfSchemas` joins
any two leaves and any two objects by each keyword, those without a rule included, in one definition, in two of a file and in two files.
`OfFolders` has the shapes of inheritance over four files (chains, diamonds, cycles, repeated, absolute and missing
targets) and each field set, null or bad in a parent, a child or both; the limits are 4 files, 3 bytes a file, 5 in
all, depth 3. `OfPairs` compares all pairs of eleven inventories, and of five with every tampering and every edit of every field; a
snapshot of more than 3 records is over the limit.

Fairness. `FairSpec` of `Release` has weak fairness of each run's steps (GitHub ends a step that hangs at the job's
time limit, which is a failure) and of `Start` (a free concurrency group starts its waiting run). A
waiting run may be superseded, so `RunsEnd` counts that as an end, and it promises an end for good. There is no fairness for
`Trigger`, `Kill` or `External`. `ScanPipeline` has weak fairness of `Program`: one process that is scheduled; nobody has to change its files.

`NoSilentWeakening` is restricted to suppressions of `capability.review_required` and
`risk.threshold` for every tool, and to pull requests that newly select no non-ASCII name, because outside
them it is false: a deny added for a capability whose `capability.denied` finding is suppressed hides a finding of a later rule; and a
name outside ASCII is reported as ambiguous until the policy selects exactly it, so adding an allowlist for it, a
stricter policy, removes a finding.

`BoundIsSound` is about properties that a schema names, in definitions without an overlooked keyword (`Overlooked`). It leaves out two cases
in which the code calls restricted what is open: a scoped property under a keyword of `other`
beside one with a finite bound, which `_schema_constraints` (`scopes.py:184-262`) does not look at; and `items` at or below
a scoped property where a string may stand instead of the list, or where such a keyword describes further elements: `items` bounds
no string, and the code reads it as if it did. A property that no schema names is outside: JSON Schema admits any value there,
while the code reads what is declared. `$defs` is in `other` but is about no value by itself.

`ImmutableIsFinal` and `DeletesOnlyItsOwn` speak of runs that have read the releases again since the last outside change. If somebody publishes
a draft after a run read it as its own and before the run deletes it, `gh release delete` removes what is immutable by then; it takes a tag,
not an id, and the model shows it.

Deadlock is not checked: every one of these systems ends.

## 4. Where code and documents disagree

1. `release.yml:211` confirms that the release is immutable but not that it is this run's
   (`release_race`; docs/release-retry-transaction.md:48): an immutable release without a marker, added by somebody else between the
   creation of this run's draft and its publication, is addressed by both calls, and the run succeeds.
2. `outputio.py:104`: a failing `close` leaves the temporary file behind, since the finally clause
   closes the descriptor again before it unlinks (`atomic_write_close`; docs/audit-2026-08-28-output-write-safety.md:20).
3. `policy.py:926`: of two names with one identity only one has its scope checked: a HIGH `scope.unknown` of the other is
   not reported (`policy_twins`; docs/policy-v0.5.md:135).
4. `diffing.py:460`: a snapshot whose `findings` is null is accepted and ends the
   comparison with a TypeError (`snapshot_null`; docs/audit-2026-08-28-snapshot-diff-artifacts.md:17). So do a null
   as `scopes` (101), as `suppressions` of the policy if both snapshots have one (317) and, in a snapshot without `capability_records`,
   as `risk_score` (418), and a list or an object as the confidence or kind of scope of a record (`snapshot_semantics.py:61`, `67`):
   `CrashesOnlyWhereUnchecked` says that there are no others among the edits modelled.
5. `discovery.py:279`: the handler that skips malformed documents of a directory lets a plain `ValueError` of a parser pass, which ends
   the scan (`malformed_in_directory`; the comment at `discovery.py:284`).

Seen while modelling and shown by no run: a file that grows between its stat and its read escapes
the byte limits; malformed documents are parsed without being counted; a null in a grandparent
policy does not clear the keys another parent sets; a value of the wrong type for a mapping field, refused in a
policy read by itself, clears what was merged before it without a word when a later file replaces it by a mapping
(`policy.py:440-445`, checked only after the merge: `cleared` in `SpellingFailsClosed` counts it); `_path` (`scopes.py:284`) knows `/**` and `**` for everything, not `/**/**`, which is then a finite restriction; adding a
deny whose `capability.denied` finding an unchanged suppression covers turns a finding of a later rule, as a MEDIUM `scope.unknown`, into INFO, and
`_policy_weakening_warnings` (`diffing.py:343`), which compares field by field, says nothing; a tool is called restricted although a scoped property
stands open under an overlooked keyword (section 3).

## 5. Theorems

Release. `TypeCorrect` and `DeletionIsOwned` need a small invariant: a run about to delete has read a
release of its own, and only an outside change or another working run can have replaced it. The others need
`IInv`: without outside changes at most one run works and at most one release exists, and for each
position of the working run what that release may be (at `build` and `create` there is none, at
`publish` a whole draft of this run, ...); for a quiet system, that what is left is explained by an
earlier failure. `RetrySucceeds` alone is not inductive: it needs which failures explain a foreign
release. `ReleaseIsAtomic` assumes `MaxExternal = 0`: an outsider can do what the abstract
specification forbids. `ImmutableIsFinalAlways` allows outsiders, in states where every run has read the releases again since their last change: at most one release is published, `gh` addresses it, and
a run creates only where none is immutable, so what a run deletes or edits is never the immutable one.
Ids are numbers with a least element in every set, which `Addressed` needs to choose.

Output writer. `IInv` says who owns which temporary name (names are created exclusively and dropped
only by their owner, so two writers never share one), and that a file is at the path, or may come back there after a power
loss, only if it is whole and synced. From it follow the absence of leftovers (`NoTempEverLeft`, assuming that `close`
and `unlink` do not fail: the finding above), the last check before a link is replaced, and the refinement
(`WritesAreAtomic`), whose mapping reads the content of the path from `dir` and `file` and a call's result from `pc`. `KeepsModeAlways` needs that all
files that replaced one another carry the mode of the first. Writers are assumed to be none of the other files.

Policy evaluation. The loop invariant says that `findings` are the identity findings and what
`Judge` says of the capabilities in `judged`, one per key met. At the end `judged` is a set of
representatives, and the properties follow from lemmas on `Outcome`: a HIGH finding of an identity
rule survives suppression; a denied capability is judged denied under each of its names; a demand on
a capability is a demand on its representative unless its name has an untargeted twin.

Policy comparison. If no warning is raised the head policy is field by field at least as strict, and
what `Judge` says of a capability is at least as severe; suppressions of the last rules hide no
more than before. The proof splits on which rule the base policy rejected by.

Commands. `IInv` says of each command what its position implies: past `load_policy` its policy is one
the file held (or the default, if there was no file at some moment), past the evaluation its findings are
that policy's, and it is at `write` only with a report made in force; what is printed or committed
goes with the exit code. `RejectsForCauseAlways` follows since a seal that compares equal findings
can reject only by date. Assumed: `Absent`, `Malformed` and `None` are neither policies nor numbers.

Pipeline. `PolicyReadsWithinBudgetAlways`: `WellStacked` says that the frames are at most `MaxInheritance`, of distinct
files that exist, lie in the folder and are no links; a file about to be read is enterable, since nothing happens between its
checks and its reading.

Discovery, proved as part of the pipeline. `DiscoveryInv` has six parts. `PlaceInv` says where the traversal is and `ReadInv` that each
path is read at most once; `CountInv` makes each counter the number of what was counted, over documents that kept their size; `WalkInv` bounds what
was found by the objects visited. From these `ParsesWithinBudgetAlways` follows. `CauseInv` says, while no text has changed, that
each entry done had no fault or ended the scan for one that is in the tree, and of the walk (`Knows`) that the root and the children of
visited objects are visited or on the stack, with the depth of a path to them: with an empty stack all that is reachable was visited.
`FoundInv` says that what was found are the definitions of the objects visited so far. With them `StopsForCauseAlways` and
`FindsWhatIsThereAlways` hold for every tree, every order and all limits.

What recursive functions compute. The library's induction theorems take operators, so two facts of our own have
sets and functions in their place: `RecursionIsDefined` (a recursive function whose body looks only at smaller arguments of a
well-founded order satisfies its equation) and `Descent` (a set that holds each argument whose smaller arguments it holds
holds them all). A visit is smaller when more nodes are active or met, of the finitely many there are. They are applied to
`Met`, `ValueEvidence`, `SchemaEvidence`, `Admits` and `Settable`.

`BoundIsSoundAlways` goes from the values up: `ValuesAreBounds` (every value a property's schema admits is among those proved, or the
evidence is ambiguous), `SchemasAreBounds` (the same for a schema, over shared and cyclic ones, by `Descent`), `ScopesAreBounds`
(joining definitions and reconciling records only widens a scope), and with `FindsWhatIsThere` the tools that are sealed
are those of the tree. That a definition is not `Overlooked` is used where the walks pass keywords over: `AllBelowIs` says what
lies below a schema by any keyword, and `Downward` that nothing overlooked lies below what is not.

`SealHoldsAlways` needs `BuildInv`: at each step of `scan`, what it has built so far is what the operators make of tools,
policy and date. So the payload sealed is determined by the result, a projection the artifact repeats, and the loader's checks
hold of it. Its hypothesis `ProperSeal` is that the payload has no null and no misshapen field, of the policy or of a scope: the
program's own types allow none.

The artifact. `ContradictionIsRefusedAlways`, `WorsePathIsEscalatedAlways` and `CrashesOnlyWhereUncheckedAlways` rest on `ArtifactInv`: the sealed result is a projection of its
tools, the file is its payload with at most one edit, and a report is made only of two accepted files. Then, field by field,
each check of `validate_snapshot_semantics` forces the field it guards to be the one the records imply (`SpliceIsHarmless`),
and the report reads no other field. They hold while neither scan's own payload has a null (`NothingIsNull`): a null `graph` in
the base snapshot would hide its paths. `WorsePathIsEscalatedAlways` needs that both graphs are those of
their records, and that a bound lost raises the severity.

Loading a policy, proved as part of the pipeline. `LoadsTheInheritance` compares two recursions: `_load_raw_policy` merges
mappings upwards along a stack of calls, with files entered once for each way to them, and `Decider` and `KeyDecider` ask downwards which
file decides a field or a key. `LoaderInv` says that the files stay, that the sources of each active call are in order (`Listed`: no file
twice, its parents before it), and that its mapping agrees field by field (`Reads`) with what its file's parents
taken so far decide; `MergeReads` is the step, that merging two such mappings gives the decisions of the later one where it has any.
When the root returns, its sources hold all inherited files in an order in which parents come first (`Ranked`), so the
questions are well founded and have the answers of their equations (`DeciderIs`, `KeyDeciderIs`). On the way, before any order is
known, the invariant speaks of these equations through the hypothesis `Solved`, which is discharged at the end (`ListIsSolved`). A folder with a cycle is never
loaded and needs no answer. `SpellingFailsClosedAlways` then follows key by key: `KeysAreKept` says that a mapping no inherited file clears keeps
every key of every file, and `Valid` that two spellings of one tool in it are refused.

Types, proved last because they need the others. `TypeOKAlways` goes along the data: a mapping whose fields are known takes values of
their kinds or none (`ReadsFields`), and what `Valid` lets through `PolicyOf` makes a policy of (`PolicyOfTyped`): that the code refuses
a null entry of `scope_constraints` and of `trust_boundaries` (`policy.py:306`, `353`) is what keeps one out. Evidence, scopes, their joins and
reconciliation stay within the literals and kinds (`SchemaEvidenceTyped`, `MergedTyped`, `ReconciledTyped`), by `Descent` for schemas; findings are
those of `PolicyRules` (`FindingsTyped`); and a part that a caller replaces is a part of another result.

`ExpansionMeansGrowthAlways` compares scopes by the places they admit. `CoveredLies`: what lies in a value lies in the one that
`_covers` it; `PlaceTells`: a value in which the place of another lies (`PlaceOf`, a name below the pattern that no value has) covers
it. So the all-covered test and the places agree, given that a restricted scope has values and never one for everything (`IsScope`:
inference and reconciliation make no other, and the base snapshot is another scan's). Edits do no harm, as a file that is compared lists
its own scopes, the other scan's or none. `TargetAssumption` says that there are places enough to tell values apart. The hypothesis
`DeepOnce` leaves out paths as `/a/**/**` beside `/a/**`: the comparison takes the first `**` for a name there.

Only model-checked: liveness (`ScanEnds` and `RunsEnd`: fairness and ENABLED are beyond this prover). Every invariant and every action property
that a passing run checks is proved.

## 6. Not modelled, and what could follow

- The portable output writer (no `dir_fd`): a second refinement of `AtomicFile`.
- The composite action's two invocations and exit codes, and the attestation checks as predicates over bundles.
- The checks `evaluate_policy` repeats for policies built by hand.
- Several contradictory fields of a snapshot at once; repeated entries of its lists.
- Parsing of JSON, YAML and regular expressions, rendering, the benchmark and the repository gates, which
  are sequential, keep no state and are about texts.
