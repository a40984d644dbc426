------------------------ MODULE ScanPipeline_proofs ------------------------
(* Machine-checked theorems about ScanPipeline and the modules it composes, for every *)
(* value of their constants.                                                         *)
EXTENDS ScanPipeline, Discovery_proofs, PolicyRules_proofs, SequenceTheorems, TLAPS

\* What the theorems use of the specification; fairness plays no part.
LEMMA SpecIsSafe == Spec => Init /\ [][Next]_vars
BY PTL DEF Spec

\* Only the step that loads the policy touches its variables.
LEMMA OnlyLoadingLoads ==
    ASSUME [Next]_vars PROVE LoadPolicy \/ UNCHANGED loadVars
<1>1. CASE Program
  BY <1>1 DEF Program, Discovering, Infer, Reconcile, DrawGraph, Loading, Evaluate, Seal, WriteSnapshot,
              WriteIf, Compare
<1>2. CASE Environment
  BY <1>2 DEF Environment, Tamper, EditFile, ReplaceFile
<1>3. CASE UNCHANGED vars
  BY <1>3 DEF vars
<1> QED BY <1>1, <1>2, <1>3 DEF Next

----------------------------------------------------------------------------
(* The discovery inside a scan *)

\* A step of the scan is one of its traversal or leaves that alone.
LEMMA ScanStepsDiscover == ASSUME [Next]_vars PROVE DiscoveryNext
<1>1. CASE Discovering
  BY <1>1 DEF Discovering, DiscoveryNext
<1>2. CASE UNCHANGED discoveryVars
  BY <1>2 DEF DiscoveryNext
<1>3. CASE \E p \in DOMAIN tree.later : ChangeText(p)
  BY <1>3 DEF DiscoveryNext
<1>4. Discovering \/ UNCHANGED discoveryVars \/ \E p \in DOMAIN tree.later : ChangeText(p)
  <2>1. CASE Program
    BY <2>1 DEF Program, Infer, Reconcile, DrawGraph, Loading, Evaluate, Seal, WriteSnapshot, WriteIf, Compare
  <2>2. CASE Environment
    BY <2>2 DEF Environment, Tamper, EditFile, ReplaceFile
  <2>3. CASE UNCHANGED vars
    BY <2>3 DEF vars
  <2> QED BY <2>1, <2>2, <2>3 DEF Next
<1> QED BY <1>1, <1>2, <1>3, <1>4

\* The invariant of the traversal is one of the scan.
LEMMA DiscoveryInvAlways == Spec => []DiscoveryInv
<1>1. Init => DiscoveryInv
  <2> SUFFICES ASSUME Init PROVE DiscoveryInv
    OBVIOUS
  <2>1. IsTree(input.tree) /\ DiscoveryInit(input.tree)
    BY PipelineAssumption DEF Init, ScanType
  <2> QED BY <2>1, DiscoveryInvStarts
<1>2. DiscoveryInv /\ [Next]_vars => DiscoveryInv'
  BY ScanStepsDiscover, DiscoveryInvInductive
<1> QED BY <1>1, <1>2, SpecIsSafe, PTL

\* The limits bound the work of discover_tools, on a tree that changes under it too.
THEOREM ParsesWithinBudgetAlways == Spec => []ParsesWithinBudget
<1>1. DiscoveryInv => ParsesWithinBudget
  BY BudgetIsKept DEF DiscoveryInv
<1> QED BY <1>1, DiscoveryInvAlways, PTL

\* discover_tools refuses a tree for a reason that lies in it, and misses none, in whatever
\* order it meets the files.
THEOREM StopsForCauseAlways == Spec => []StopsForCause
<1>1. DiscoveryInv => StopsForCause
  BY CauseIsKnown DEF DiscoveryInv
<1> QED BY <1>1, DiscoveryInvAlways, PTL

\* discover_tools finds the tools that the documents define, each once per file and with
\* all that is said of it there.
THEOREM FindsWhatIsThereAlways == Spec => []FindsWhatIsThere
<1>1. DiscoveryInv => FindsWhatIsThere
  BY FoundIsThere DEF DiscoveryInv
<1> QED BY <1>1, DiscoveryInvAlways, PTL

----------------------------------------------------------------------------
(* The budget of load_policy *)

FrameField == {"path", "refs", "merged", "sources"}

\* The calls of _load_raw_policy that are active: a sequence of at most MaxInheritance
\* frames, of files that differ, exist, lie in the folder and are no links.
WellStacked(s) ==
    /\ \E n \in Nat : s = [k \in 1..n |-> s[k]] /\ n <= MaxInheritance
    /\ \A k \in DOMAIN s : DOMAIN s[k] = FrameField
    /\ \A j, k \in DOMAIN s : s[j].path = s[k].path => j = k
    /\ \A k \in DOMAIN s :
          folder[s[k].path] # Absent /\ folder[s[k].path].inside /\ ~folder[s[k].path].link

\* A file about to be read has passed the checks of _load_raw_policy.
Enterable ==
    loading = "read" =>
        /\ target \notin InProgress /\ Len(frames) < MaxInheritance
        /\ folder[target] # Absent /\ folder[target].inside /\ ~folder[target].link

BudgetInv ==
    /\ filesRead \in Nat /\ filesRead <= MaxPolicyFiles /\ bytesRead <= MaxPolicyTotalBytes
    /\ WellStacked(frames) /\ Enterable

\* The length of a sequence given as a function.
LEMMA LengthOf ==
    ASSUME NEW s, NEW n \in Nat, s = [k \in 1..n |-> s[k]]
    PROVE  Len(s) = n /\ DOMAIN s = 1..n /\ s \in Seq({s[k] : k \in DOMAIN s})
<1>1. s \in [1..n -> {s[k] : k \in DOMAIN s}]
  OBVIOUS
<1>2. s \in Seq({s[k] : k \in DOMAIN s})
  BY <1>1, SeqDef
<1>3. DOMAIN s = 1..Len(s) /\ Len(s) \in Nat
  BY <1>2, LenProperties
<1>4. DOMAIN s = 1..n
  OBVIOUS
<1> QED BY <1>2, <1>3, <1>4

\* Entering a file that is not in progress keeps the frames well stacked.
LEMMA PushKeepsStacked ==
    ASSUME WellStacked(frames), NEW f, Len(frames) < MaxInheritance, f \notin InProgress,
           folder[f] # Absent, folder[f].inside, ~folder[f].link
    PROVE  WellStacked(Append(frames, FreshFrame(f)))
<1>1. PICK n \in Nat : frames = [k \in 1..n |-> frames[k]] /\ n <= MaxInheritance
  BY DEF WellStacked
<1>2. Len(frames) = n /\ DOMAIN frames = 1..n /\ frames \in Seq({frames[k] : k \in DOMAIN frames})
  BY <1>1, LengthOf
<1> DEFINE T == {frames[k] : k \in DOMAIN frames} \cup {FreshFrame(f)}
           s == Append(frames, FreshFrame(f))
<1>3. frames \in Seq(T) /\ FreshFrame(f) \in T
  BY <1>2, SeqDef
<1>4. /\ s \in Seq(T) /\ Len(s) = n + 1 /\ s[n + 1] = FreshFrame(f)
      /\ \A k \in 1..n : s[k] = frames[k]
  BY <1>2, <1>3, AppendProperties
<1>5. DOMAIN s = 1..(n + 1) /\ s = [k \in 1..(n + 1) |-> s[k]]
  BY <1>4, LenProperties
<1>6. n + 1 \in Nat /\ n + 1 <= MaxInheritance
  BY <1>2, PolicyLoadAssumption
<1>7. FreshFrame(f).path = f /\ DOMAIN FreshFrame(f) = FrameField
  BY DEF FreshFrame, FrameField
<1>8. \A k \in 1..n : s[k].path # f
  BY <1>2, <1>4 DEF InProgress
<1> HIDE DEF s
<1>9. \A k \in DOMAIN s : DOMAIN s[k] = FrameField
  BY <1>2, <1>4, <1>5, <1>7 DEF WellStacked
<1>10. \A j, k \in DOMAIN s : s[j].path = s[k].path => j = k
  <2>1. \A j, k \in 1..n : s[j].path = s[k].path => j = k
    BY <1>2, <1>4 DEF WellStacked
  <2>2. \A k \in 1..n : s[k].path # s[n + 1].path
    BY <1>4, <1>7, <1>8
  <2>3. DOMAIN s = 1..n \cup {n + 1}
    BY <1>5
  <2> QED BY <2>1, <2>2, <2>3
<1>11. \A k \in DOMAIN s :
          folder[s[k].path] # Absent /\ folder[s[k].path].inside /\ ~folder[s[k].path].link
  BY <1>2, <1>4, <1>5, <1>7 DEF WellStacked
<1>12. WellStacked(s)
  BY <1>5, <1>6, <1>9, <1>10, <1>11 DEF WellStacked
<1> QED BY <1>12 DEF s

\* A stack with the same files, or with its last frame gone, stays well stacked.
LEMMA KeepsStacked ==
    ASSUME WellStacked(frames), NEW s, NEW m \in Nat, m <= Len(frames), s = [k \in 1..m |-> s[k]],
           \A k \in 1..m : s[k].path = frames[k].path /\ DOMAIN s[k] = FrameField
    PROVE  WellStacked(s)
<1>1. PICK n \in Nat : frames = [k \in 1..n |-> frames[k]] /\ n <= MaxInheritance
  BY DEF WellStacked
<1>2. Len(frames) = n /\ DOMAIN frames = 1..n
  BY <1>1, LengthOf
<1>3. m <= MaxInheritance /\ DOMAIN s = 1..m /\ 1..m \subseteq DOMAIN frames
  BY <1>1, <1>2, PolicyLoadAssumption
<1>4. \A j, k \in 1..m : s[j].path = s[k].path => j = k
  BY <1>3 DEF WellStacked
<1>5. \A k \in 1..m : folder[s[k].path] # Absent /\ folder[s[k].path].inside /\ ~folder[s[k].path].link
  BY <1>3 DEF WellStacked
<1> QED BY <1>3, <1>4, <1>5 DEF WellStacked

\* Returning takes the last frame off.
LEMMA FrontOf ==
    ASSUME NEW s, NEW n \in Nat, s = [k \in 1..n |-> s[k]]
    PROVE  \E m \in Nat : /\ m <= n /\ (n # 0 => m = n - 1) /\ Len(Front(s)) = m
                          /\ Front(s) = [k \in 1..m |-> Front(s)[k]]
                          /\ \A k \in 1..m : Front(s)[k] = s[k]
<1>1. PICK h \in Int : h = n - 1
  OBVIOUS
<1>2. Front(s) = SubSeq(s, 1, h)
  BY <1>1, LengthOf DEF Front
<1>3. PICK r : r = SubSeq(s, 1, h)
  OBVIOUS
<1> DEFINE S == {s[k] : k \in 1..h}
           m == IF 1 <= h THEN h ELSE 0
<1>4. 1 \in Int /\ \A i \in 1..h : s[i] \in S
  OBVIOUS
<1>5. m \in Nat /\ m <= n /\ (n # 0 => m = n - 1)
  BY <1>1
<1> HIDE DEF S
<1>6. /\ r \in Seq(S) /\ Len(r) = (IF 1 <= h THEN h - 1 + 1 ELSE 0)
      /\ \A i \in 1..(h - 1 + 1) : r[i] = s[1 + i - 1]
  BY <1>3, <1>4, SubSeqProperties
<1>7. r \in [1..Len(r) -> S] /\ Len(r) = m
  BY <1>6, LenProperties
<1>8. \A k \in 1..m : r[k] = s[k]
  <2>1. \A k \in 1..m : k \in 1..(h - 1 + 1) /\ 1 + k - 1 = k
    OBVIOUS
  <2> HIDE DEF m
  <2> QED BY <1>6, <2>1
<1> HIDE DEF m
<1>9. r = [k \in 1..m |-> r[k]]
  BY <1>7
<1> QED BY <1>2, <1>3, <1>5, <1>7, <1>8, <1>9

\* Every step keeps the frames well stacked and the files read within their budgets.
LEMMA BudgetInductive == ASSUME BudgetInv, [Next]_vars PROVE BudgetInv'
<1>0. PICK n \in Nat : frames = [k \in 1..n |-> frames[k]] /\ n <= MaxInheritance
  BY DEF BudgetInv, WellStacked
<1>00. Len(frames) = n /\ DOMAIN frames = 1..n
  BY <1>0, LengthOf
<1>1. CASE BeginLoad \/ CheckPolicy
  BY <1>1 DEF BeginLoad, CheckPolicy, RejectPolicy, BudgetInv, WellStacked, Enterable
<1>2. CASE Enter
  <2>1. UNCHANGED <<folder, target, frames, filesRead, bytesRead>> /\ InProgress' = InProgress
    BY <1>2 DEF Enter, RejectPolicy, InProgress
  <2>2. loading' = "read" => target \notin InProgress /\ ~(Len(frames) >= MaxInheritance)
                             /\ folder[target] # Absent /\ folder[target].inside /\ ~folder[target].link
    BY <1>2 DEF Enter, RejectPolicy
  <2>3. ~(Len(frames) >= MaxInheritance) => Len(frames) < MaxInheritance
    BY <1>00, PolicyLoadAssumption
  <2> QED BY <2>1, <2>2, <2>3 DEF BudgetInv, WellStacked, Enterable
<1>3. CASE ReadPolicy
  <2>1. CASE RejectPolicy
    BY <2>1 DEF RejectPolicy, BudgetInv, WellStacked, Enterable
  <2>2. CASE ~RejectPolicy
    <3>1. /\ loading = "read" /\ loading' = "loop" /\ filesRead # MaxPolicyFiles
          /\ filesRead' = filesRead + 1 /\ bytesRead' = bytesRead + folder[target].size
          /\ bytesRead + folder[target].size <= MaxPolicyTotalBytes
          /\ frames' = Append(frames, FreshFrame(target)) /\ UNCHANGED folder
      BY <1>3, <2>2 DEF ReadPolicy, ReadWithin
    <3>2. filesRead' \in Nat /\ filesRead' <= MaxPolicyFiles
      BY <3>1, PolicyLoadAssumption DEF BudgetInv
    <3>3. WellStacked(Append(frames, FreshFrame(target)))
      BY <3>1, PushKeepsStacked DEF BudgetInv, Enterable
    <3>4. WellStacked(frames)'
      BY <3>1, <3>3 DEF WellStacked
    <3> QED BY <3>1, <3>2, <3>4 DEF BudgetInv, Enterable
  <2> QED BY <2>1, <2>2
<1>4. CASE Inherit
  <2>1. CASE RejectPolicy
    BY <2>1 DEF RejectPolicy, BudgetInv, WellStacked, Enterable
  <2>2. CASE ~RejectPolicy
    <3>1. /\ loading' = "enter" /\ UNCHANGED <<folder, filesRead, bytesRead>>
          /\ frames' = [frames EXCEPT ![Len(frames)].refs = Tail(@)]
      BY <1>4, <2>2 DEF Inherit
    <3>2. frames' = [k \in 1..n |-> frames'[k]]
      BY <1>0, <1>00, <3>1
    <3>3. \A k \in 1..n : DOMAIN frames[k] = FrameField
      BY <1>00 DEF BudgetInv, WellStacked
    <3>4. \A k \in 1..n : frames'[k].path = frames[k].path /\ DOMAIN frames'[k] = FrameField
      BY <1>00, <3>1, <3>3 DEF FrameField
    <3>5. WellStacked(frames')
      BY <1>00, <3>2, <3>4, KeepsStacked DEF BudgetInv
    <3>6. WellStacked(frames)'
      BY <3>1, <3>5 DEF WellStacked
    <3> QED BY <3>1, <3>6 DEF BudgetInv, Enterable
  <2> QED BY <2>1, <2>2
<1>5. CASE ReturnPolicy
  <2>1. UNCHANGED <<folder, filesRead, bytesRead>> /\ loading' # "read"
    BY <1>5 DEF ReturnPolicy
  <2>2. PICK m \in Nat : /\ m <= n /\ Len(Front(frames)) = m
                        /\ Front(frames) = [k \in 1..m |-> Front(frames)[k]]
                        /\ \A k \in 1..m : Front(frames)[k] = frames[k]
    BY <1>0, FrontOf
  <2>3. \A k \in 1..m : DOMAIN Front(frames)[k] = FrameField
    BY <1>00, <2>2 DEF BudgetInv, WellStacked
  <2>4. /\ frames' = [k \in 1..m |-> frames'[k]]
        /\ \A k \in 1..m : frames'[k].path = frames[k].path /\ DOMAIN frames'[k] = FrameField
    <3>1. CASE frames' = Front(frames)
      BY <2>2, <2>3, <3>1
    <3>2. ASSUME NEW x, NEW y,
                 frames' = [Front(frames) EXCEPT ![m].merged = x, ![m].sources = y]
          PROVE  /\ frames' = [k \in 1..m |-> frames'[k]]
                 /\ \A k \in 1..m : frames'[k].path = frames[k].path /\ DOMAIN frames'[k] = FrameField
      BY <2>2, <2>3, <3>2 DEF FrameField
    <3> QED BY <1>5, <2>2, <3>1, <3>2 DEF ReturnPolicy
  <2>5. WellStacked(frames')
    BY <1>00, <2>2, <2>4, KeepsStacked DEF BudgetInv
  <2>6. WellStacked(frames)'
    BY <2>1, <2>5 DEF WellStacked
  <2> QED BY <2>1, <2>6 DEF BudgetInv, Enterable
<1>6. CASE UNCHANGED loadVars
  BY <1>6 DEF loadVars, BudgetInv, WellStacked, Enterable, InProgress
<1> QED BY <1>1, <1>2, <1>3, <1>4, <1>5, <1>6, OnlyLoadingLoads DEF LoadPolicy

\* The frames stay well stacked and what is read within the budgets.
LEMMA BudgetAlways == Spec => []BudgetInv
<1>1. Init => BudgetInv
  <2> SUFFICES ASSUME Init PROVE BudgetInv
    OBVIOUS
  <2>1. frames = <<>> /\ filesRead = 0 /\ bytesRead = 0 /\ loading = "start"
    BY DEF Init, LoadInit
  <2>2. frames = [k \in 1..0 |-> frames[k]]
    BY <2>1
  <2>3. 0 <= MaxInheritance /\ 0 <= MaxPolicyFiles /\ 0 <= MaxPolicyTotalBytes
    BY PolicyLoadAssumption
  <2>4. WellStacked(frames)
    BY <2>2, <2>3 DEF WellStacked
  <2> QED BY <2>1, <2>3, <2>4 DEF BudgetInv, Enterable
<1>2. BudgetInv /\ [Next]_vars => BudgetInv'
  BY BudgetInductive
<1> QED BY <1>1, <1>2, SpecIsSafe, PTL

\* Whatever the files extend, load_policy stays within its limits, and follows no cycle, link
\* or way out of the folder.
THEOREM PolicyReadsWithinBudgetAlways == Spec => []PolicyReadsWithinBudget
<1>1. BudgetInv => PolicyReadsWithinBudget
  <2> SUFFICES ASSUME BudgetInv PROVE PolicyReadsWithinBudget
    OBVIOUS
  <2>1. PICK n \in Nat : frames = [k \in 1..n |-> frames[k]] /\ n <= MaxInheritance
    BY DEF BudgetInv, WellStacked
  <2>2. Len(frames) <= MaxInheritance
    BY <2>1, LengthOf
  <2> QED BY <2>2 DEF BudgetInv, WellStacked, InProgress, PolicyReadsWithinBudget
<1> QED BY <1>1, BudgetAlways, PTL

----------------------------------------------------------------------------
(* What becomes of the sealed result *)

\* Nothing is null in the two snapshots as they were written; JSON null is no value of any
\* other kind.
NothingIsNull ==
    /\ \A f \in Field : JsonNull \notin {input.base[f], Payload(seal)[f]}
    /\ JsonNull \notin {input.base["policy"].suppressions, Payload(seal)["policy"].suppressions}

Sealed == {"sealed", "written", "unwritten", "refused", "crashed", "compared"}

\* What the file holds, by what was done to it.
FileHolds ==
    LET own == Payload(seal)
        f == edit[2]
    IN  \/ edit = None /\ file = [kind |-> "text", snapshot |-> own]
        \/ edit # None /\ edit[1] = "replace" /\ file.kind # "text"
        \/ /\ edit # None /\ edit \in Editing /\ file.kind = "text" /\ f \in Field
           /\ \/ edit[1] = "drop" /\ file.snapshot = [g \in DOMAIN own \ {f} |-> own[g]]
              \/ edit[1] = "nullify" /\ file.snapshot = [own EXCEPT ![f] = JsonNull]
              \/ edit[1] = "spoil" /\ file.snapshot = [own EXCEPT ![f] = Misshapen]
              \/ edit[1] = "splice" /\ file.snapshot = [own EXCEPT ![f] = input.base[f]]
        \/ /\ edit # None /\ edit \in Editing /\ file.kind = "text" /\ edit[1] = "blank"
           /\ file.snapshot = [own EXCEPT !["policy"] = [own["policy"] EXCEPT ![f] = JsonNull]]
        \/ /\ edit # None /\ edit \in Editing /\ file.kind = "text" /\ edit[1] = "mar"
           /\ \E records : file.snapshot = [own EXCEPT !["records"] = records]

ArtifactInv ==
    /\ input \in Scans
    /\ scan \in Sealed => IsProjection(seal)
    /\ IF scan \in {"written", "refused", "crashed", "compared"} THEN FileHolds ELSE edit = None
    /\ scan = "crashed" =>
          \/ Chokes(BaseFile) \/ Chokes(file)
          \/ Accepts(BaseFile) /\ Accepts(file) /\ UsedUnchecked(input.base, file.snapshot)
    /\ scan = "compared" =>
          Accepts(BaseFile) /\ Accepts(file) /\ ~UsedUnchecked(input.base, file.snapshot)
    /\ scan = "compared" => report = Report(input.base, file.snapshot)

\* The parts of the scan before the seal, and what the loading and discovery do, leave the
\* artifact alone.
LEMMA ArtifactInductive == ASSUME ArtifactInv, [Next]_vars PROVE ArtifactInv'
<1> USE DEF Sealed
<1>1. ASSUME UNCHANGED <<input, seal, file, edit, report>>, scan' = scan
      PROVE  ArtifactInv'
  BY <1>1 DEF ArtifactInv, FileHolds, BaseFile
<1>2. ASSUME UNCHANGED <<input, seal, file, edit, report>>,
             scan' \in {"discovering", "rejected", "reconciling", "drawing", "loading", "sealing", "unwritten"},
             scan \notin {"written", "refused", "crashed", "compared"}, scan' = "unwritten" => scan = "sealed"
      PROVE  ArtifactInv'
  <2>1. scan \notin {"written", "refused", "crashed", "compared"} => edit = None
    BY DEF ArtifactInv
  <2>2. scan \notin {"written", "refused", "crashed", "compared"} /\ edit' = None
    BY <1>2, <2>1
  <2> QED BY <1>2, <2>2 DEF ArtifactInv
<1>3. CASE Discovering \/ Loading \/ (\E part \in Part : Tamper(part))
  BY <1>1, <1>3 DEF Discovering, Loading, Tamper, pipelineVars
<1>4. CASE Infer \/ Reconcile \/ DrawGraph \/ Evaluate
  BY <1>2, <1>4 DEF Infer, Reconcile, DrawGraph, Evaluate
<1>5. CASE Seal
  <2>1. CASE IsProjection(result)
    BY <1>5, <2>1 DEF Seal, ArtifactInv
  <2>2. CASE ~IsProjection(result)
    BY <1>2, <1>5, <2>2 DEF Seal
  <2> QED BY <2>1, <2>2
<1>6. CASE WriteSnapshot
  <2>1. CASE IsProjection(result) /\ result = seal
    <3>1. /\ scan = "sealed" /\ scan' = "written" /\ UNCHANGED <<input, seal, edit, report>>
          /\ file' = [kind |-> "text", snapshot |-> Payload(seal)]
      BY <1>6, <2>1 DEF WriteSnapshot, WriteIf
    <3> QED BY <3>1 DEF ArtifactInv, FileHolds
  <2>2. CASE ~(IsProjection(result) /\ result = seal)
    BY <1>2, <1>6, <2>2 DEF WriteSnapshot, WriteIf
  <2> QED BY <2>1, <2>2
<1>7. ASSUME NEW e \in Editing, EditFile(e) PROVE ArtifactInv'
  <2> DEFINE own == Payload(seal)
  <2>1. /\ scan = "written" /\ edit = None /\ edit' = e /\ UNCHANGED <<input, scan, seal, report>>
    BY <1>7 DEF EditFile
  <2>2. file = [kind |-> "text", snapshot |-> own]
    BY <2>1 DEF ArtifactInv, FileHolds
  <2>3. e # None /\ ((e[2] \in Field /\ e[1] \in {"drop", "nullify", "spoil", "splice"}) \/ e[1] \in {"blank", "mar"})
    BY EditingAssumption DEF Editing
  <2>4. /\ file'.kind = "text"
        /\ \/ e[1] = "drop" /\ file'.snapshot = [g \in DOMAIN own \ {e[2]} |-> own[g]]
           \/ e[1] = "nullify" /\ file'.snapshot = [own EXCEPT ![e[2]] = JsonNull]
           \/ e[1] = "spoil" /\ file'.snapshot = [own EXCEPT ![e[2]] = Misshapen]
           \/ e[1] = "splice" /\ file'.snapshot = [own EXCEPT ![e[2]] = input.base[e[2]]]
           \/ /\ e[1] = "blank"
              /\ file'.snapshot = [own EXCEPT !["policy"] = [own["policy"] EXCEPT ![e[2]] = JsonNull]]
           \/ e[1] = "mar" /\ \E records : file'.snapshot = [own EXCEPT !["records"] = records]
    <3>1. PICK s \in Edited(e, own) : file' = [kind |-> "text", snapshot |-> s]
      <4>1. PICK s \in Edited(e, file.snapshot) : file' = [file EXCEPT !.snapshot = s]
        BY <1>7 DEF EditFile
      <4>2. file.snapshot = own /\ [file EXCEPT !.snapshot = s] = [kind |-> "text", snapshot |-> s]
        BY <2>2
      <4> QED BY <4>1, <4>2
    <3> HIDE DEF own
    <3>2. CASE e[1] = "mar"
      <4>1. PICK c \in own["records"] : s = [own EXCEPT !["records"] = (own["records"] \ {c}) \cup {Marred(c, e[2])}]
        BY <3>1, <3>2 DEF Edited
      <4>2. file'.kind = "text" /\ file'.snapshot = [own EXCEPT !["records"] = (own["records"] \ {c}) \cup {Marred(c, e[2])}]
        BY <3>1, <4>1
      <4> QED BY <3>2, <4>2
    <3>3. CASE e[1] # "mar"
      <4>1. file'.kind = "text" /\ file'.snapshot = s
        BY <3>1
      <4>2. \/ e[1] = "drop" /\ s = [g \in DOMAIN own \ {e[2]} |-> own[g]]
            \/ e[1] = "nullify" /\ s = [own EXCEPT ![e[2]] = JsonNull]
            \/ e[1] = "spoil" /\ s = [own EXCEPT ![e[2]] = Misshapen]
            \/ e[1] = "splice" /\ s = [own EXCEPT ![e[2]] = input.base[e[2]]]
            \/ e[1] = "blank" /\ s = [own EXCEPT !["policy"] = [own["policy"] EXCEPT ![e[2]] = JsonNull]]
        BY <2>3, <3>1, <3>3 DEF Edited
      <4> QED BY <4>1, <4>2
    <3> QED BY <3>2, <3>3
  <2>5. FileHolds'
    BY <2>1, <2>3, <2>4 DEF FileHolds
  <2> QED BY <2>1, <2>5 DEF ArtifactInv
<1>8. ASSUME NEW kind \in Replacement, ReplaceFile(kind) PROVE ArtifactInv'
  <2>1. /\ scan = "written" /\ edit = None /\ edit' = <<"replace", kind>>
        /\ UNCHANGED <<input, scan, seal, report>> /\ file' = [file EXCEPT !.kind = kind]
    BY <1>8 DEF ReplaceFile
  <2>2. file' = [kind |-> kind, snapshot |-> Payload(seal)]
    BY <2>1 DEF ArtifactInv, FileHolds
  <2>3. edit' # None /\ edit'[1] = "replace" /\ file'.kind # "text"
    <3>1. <<"replace", kind>> \in {"replace"} \X Replacement
      OBVIOUS
    <3>2. <<"replace", kind>> # None
      BY <3>1, EditingAssumption
    <3> QED BY <2>1, <2>2, <3>2 DEF Replacement
  <2>4. FileHolds'
    BY <2>3 DEF FileHolds
  <2> QED BY <2>1, <2>4 DEF ArtifactInv
<1>9. CASE Compare
  <2>1. UNCHANGED <<input, seal, file, edit>>
    BY <1>9 DEF Compare
  <2>2. IsProjection(seal)' /\ FileHolds' /\ (input \in Scans)'
    BY <1>9, <2>1 DEF Compare, ArtifactInv, FileHolds
  <2>3. \/ scan' = "crashed" /\ (Chokes(BaseFile) \/ Chokes(file))
        \/ scan' = "refused"
        \/ scan' = "crashed" /\ Accepts(BaseFile) /\ Accepts(file) /\ UsedUnchecked(input.base, file.snapshot)
        \/ /\ scan' = "compared" /\ report' = Report(input.base, file.snapshot)
           /\ Accepts(BaseFile) /\ Accepts(file) /\ ~UsedUnchecked(input.base, file.snapshot)
    BY <1>9 DEF Compare, BaseFile
  <2>4. BaseFile' = BaseFile
    BY <2>1 DEF BaseFile
  <2> QED BY <2>1, <2>2, <2>3, <2>4 DEF ArtifactInv
<1>10. CASE \E p \in DOMAIN tree.later : ChangeText(p) /\ scan = "discovering" /\ UNCHANGED <<loadVars, pipelineVars>>
  BY <1>1, <1>10 DEF pipelineVars
<1>11. CASE UNCHANGED vars
  BY <1>1, <1>11 DEF vars, pipelineVars
<1> QED BY <1>3, <1>4, <1>5, <1>6, <1>7, <1>8, <1>9, <1>10, <1>11 DEF Next, Program, Environment

\* What the sealed result, the file and the report are to each other in every state.
LEMMA ArtifactAlways == Spec => []ArtifactInv
<1>1. Init => ArtifactInv
  BY DEF Init, ArtifactInv, Sealed
<1>2. ArtifactInv /\ [Next]_vars => ArtifactInv'
  BY ArtifactInductive
<1> QED BY <1>1, <1>2, SpecIsSafe, PTL

\* A payload has every field.
LEMMA PayloadFields == ASSUME NEW r PROVE DOMAIN Payload(r) = Field
BY DEF Payload, Field

\* The other scan's snapshot has every field.
LEMMA BaseFields == ASSUME input \in Scans PROVE DOMAIN input.base = Field
BY PipelineAssumption DEF ScanType

\* A file that is accepted is the payload of the sealed
\* result, or that with a field dropped, set to null or taken from the other snapshot, with a
\* part of its policy set to null, or with other records.
LEMMA AcceptedFile ==
    ASSUME ArtifactInv, scan \in {"crashed", "compared"}, Opens(file)
    PROVE  LET own == Payload(seal)
               f == edit[2]
           IN  \/ edit = None /\ file.snapshot = own
               \/ /\ edit # None /\ edit \in Editing /\ f \in Field
                  /\ \/ edit[1] = "drop" /\ file.snapshot = [g \in DOMAIN own \ {f} |-> own[g]]
                     \/ edit[1] = "nullify" /\ file.snapshot = [own EXCEPT ![f] = JsonNull]
                     \/ edit[1] = "splice" /\ file.snapshot = [own EXCEPT ![f] = input.base[f]]
               \/ /\ edit # None /\ edit \in Editing /\ edit[1] = "blank"
                  /\ file.snapshot = [own EXCEPT !["policy"] = [own["policy"] EXCEPT ![f] = JsonNull]]
               \/ /\ edit # None /\ edit \in Editing /\ edit[1] = "mar"
                  /\ \E records : file.snapshot = [own EXCEPT !["records"] = records]
<1> DEFINE own == Payload(seal)
           f == edit[2]
<1>1. FileHolds
  BY DEF ArtifactInv
<1>2. file.kind = "text" /\ \A g \in DOMAIN file.snapshot : file.snapshot[g] # Misshapen
  BY DEF Opens, WellFormed, WellShaped
<1>3. DOMAIN own = Field
  BY PayloadFields
<1> HIDE DEF own
<1>4. f \in Field => file.snapshot # [own EXCEPT ![f] = Misshapen]
  BY <1>2, <1>3
<1>5. edit = None => file.snapshot = own
  <2>1. file = [kind |-> "text", snapshot |-> own] => file.snapshot = own
    OBVIOUS
  <2> QED BY <1>1, <2>1 DEF FileHolds, own
<1> QED BY <1>1, <1>2, <1>4, <1>5 DEF FileHolds, own

\* CapabilityPart reads five fields of the second snapshot.
LEMMA CapabilityPartReads ==
    ASSUME NEW a, NEW x, NEW y, DOMAIN x = Field, DOMAIN y = Field,
           \A f \in {"capabilities", "scopes", "graph", "risk", "fingerprint"} : x[f] = y[f]
    PROVE  CapabilityPart(a, x) = CapabilityPart(a, y)
<1>1. \A f \in {"capabilities", "scopes", "graph", "risk", "fingerprint"} :
          /\ Has(x, f) = Has(y, f) /\ Given(x, f) = Given(y, f) /\ x[f] = y[f]
          /\ \A d : Stored(x, f, d) = Stored(y, f, d)
  BY DEF Has, Given, Stored, Field
<1>2. PathsOf(x) = PathsOf(y) /\ Fingerprint(x) = Fingerprint(y)
  BY <1>1 DEF PathsOf, Fingerprint
<1>3. ScopeKeys(x) = ScopeKeys(y) /\ \A k : ScopeMap(x, k) = ScopeMap(y, k)
  <2>1. Stored(x, "scopes", {}) = Stored(y, "scopes", {})
    BY <1>1
  <2>2. ScopeKeys(x) = ScopeKeys(y)
    BY <2>1 DEF ScopeKeys
  <2>3. ASSUME NEW k PROVE ScopeMap(x, k) = ScopeMap(y, k)
    <3> DEFINE Of(S) == LET own == {z \in S : <<z.capability, z.tool>> = k}
                        IN  IF own = {} THEN Unestablished ELSE (CHOOSE z \in own : TRUE).scope
    <3>1. ScopeMap(x, k) = Of(Stored(x, "scopes", {})) /\ ScopeMap(y, k) = Of(Stored(y, "scopes", {}))
      BY DEF ScopeMap
    <3> HIDE DEF Of
    <3> QED BY <2>1, <3>1
  <2> QED BY <2>2, <2>3
<1>4. ScopeChanges(a, x) = ScopeChanges(a, y)
  BY <1>3 DEF ScopeChanges
<1>5. PathChanges(a, x) = PathChanges(a, y)
  BY <1>2 DEF PathChanges
<1>6. Stored(x, "capabilities", {}) = Stored(y, "capabilities", {}) /\ Stored(x, "risk", 0) = Stored(y, "risk", 0)
  BY <1>1
<1> QED BY <1>2, <1>4, <1>5, <1>6 DEF CapabilityPart

\* A field taken from another snapshot that the rest of the payload leaves room for is one
\* that no report of capabilities reads.
LEMMA SpliceIsHarmless ==
    ASSUME NEW r, IsProjection(r), NEW f \in Field, Payload(r)["records"] # JsonNull,
           NEW s, DOMAIN s = Field, s[f] # JsonNull, \A g \in Field \ {f} : s[g] = Payload(r)[g],
           WellFormed(s), Consistent(s)
    PROVE  \A g \in {"capabilities", "scopes", "graph", "risk", "fingerprint"} : s[g] = Payload(r)[g]
<1> DEFINE own == Payload(r)
<1>1. DOMAIN own = Field /\ Consistent(own) /\ own["graph"] = Graph(own["records"])
      /\ own["fingerprint"] = own["capabilities"]
  BY PayloadFields DEF IsProjection, Payload
<1> HIDE DEF own
<1>2. own["records"] # JsonNull
  BY DEF own
<1>3. \A g \in Field \ {f} : s[g] = own[g]
  BY DEF own
<1>4. \A g \in Field : Has(s, g) /\ Has(own, g)
  BY <1>1, <1>3 DEF Has
<1>5. CASE f \in {"capabilities", "risk"}
  <2>1. Given(s, "records") /\ Given(own, "records") /\ s["records"] = own["records"]
    BY <1>2, <1>3, <1>4, <1>5 DEF Given, Field
  <2>2. RecordsAgree(s) /\ RecordsAgree(own)
    BY <1>1 DEF Consistent
  <2>3. s["capabilities"] = own["capabilities"] /\ s["risk"] = own["risk"]
    BY <1>4, <2>1, <2>2 DEF RecordsAgree, Field
  <2> QED BY <1>3, <1>5, <2>3 DEF Field, own
<1>6. CASE f = "scopes"
  <2>1. /\ Given(s, "records") /\ Given(own, "records") /\ s["records"] = own["records"]
        /\ Given(s, "scopes")
    BY <1>2, <1>3, <1>4, <1>6 DEF Given, Field
  <2>2. s["scopes"] = ScopeRecords(s["records"])
    BY <2>1 DEF Consistent, ScopesAgree
  <2>3. own["scopes"] = ScopeRecords(own["records"])
    BY DEF own, Payload
  <2> QED BY <1>3, <1>6, <2>1, <2>2, <2>3 DEF own, Field
<1>7. CASE f = "graph"
  <2>1. Given(s, "graph") /\ Given(s, "records") /\ s["records"] = own["records"]
    BY <1>2, <1>3, <1>4, <1>7 DEF Given, Field
  <2>2. s["graph"] = Graph(s["records"])
    BY <2>1 DEF Consistent, GraphAgrees
  <2> QED BY <1>1, <1>3, <1>7, <2>1, <2>2 DEF Field, own
<1>8. CASE f = "fingerprint"
  <2>1. Given(s, "fingerprint") /\ Stored(s, "capabilities", {}) = s["capabilities"]
    BY <1>3, <1>4, <1>8 DEF Given, Stored, Field
  <2>2. s["fingerprint"] = s["capabilities"]
    BY <2>1 DEF WellFormed
  <2> QED BY <1>1, <1>3, <1>8, <2>2 DEF Field, own
<1>9. CASE f \notin {"capabilities", "risk", "scopes", "graph", "fingerprint"}
  BY <1>3, <1>9 DEF own, Field
<1> QED BY <1>5, <1>6, <1>7, <1>8, <1>9
\* A field of the snapshot file taken from another scan's is refused or changes nothing in
\* what is reported of the capabilities, unless a null hides a part of the evidence.
THEOREM ContradictionIsRefusedAlways == Spec => [](NothingIsNull => ContradictionIsRefused)
<1>1. ArtifactInv => (NothingIsNull => ContradictionIsRefused)
  <2> SUFFICES ASSUME ArtifactInv, NothingIsNull, scan = "compared", edit # None, edit[1] = "splice"
               PROVE  report.capability = CapabilityPart(input.base, Payload(seal))
    BY DEF ContradictionIsRefused
  <2> DEFINE own == Payload(seal)
             f == edit[2]
             s == file.snapshot
  <2>1. IsProjection(seal) /\ Accepts(file) /\ report = Report(input.base, s)
    BY DEF ArtifactInv, Sealed
  <2>2. f \in Field /\ s = [own EXCEPT ![f] = input.base[f]]
    BY <2>1, AcceptedFile DEF Accepts
  <2>3. input.base[f] # JsonNull /\ own["records"] # JsonNull
    BY <2>2 DEF NothingIsNull, Field
  <2>4. WellFormed(s) /\ Consistent(s)
    BY <2>1 DEF Accepts, Opens
  <2>6. DOMAIN own = Field
    BY PayloadFields
  <2> HIDE DEF f, s
  <2>5. /\ DOMAIN s = Field
        /\ \A g \in {"capabilities", "scopes", "graph", "risk", "fingerprint"} : s[g] = own[g]
    <3> HIDE DEF own
    <3>1. DOMAIN s = Field /\ s[f] # JsonNull /\ \A g \in Field \ {f} : s[g] = own[g]
      BY <2>2, <2>3, <2>6
    <3>2. own["records"] # JsonNull /\ f \in Field
      BY <2>2, <2>3
    <3>3. \A g \in {"capabilities", "scopes", "graph", "risk", "fingerprint"} : s[g] = own[g]
      BY <2>1, <2>4, <3>1, <3>2, SpliceIsHarmless DEF own
    <3> QED BY <3>1, <3>3
  <2> HIDE DEF own
  <2>7. CapabilityPart(input.base, s) = CapabilityPart(input.base, own)
    BY <2>5, <2>6, CapabilityPartReads
  <2>8. report.capability = CapabilityPart(input.base, s)
    BY <2>1 DEF Report
  <2> QED BY <2>7, <2>8 DEF own
<1> QED BY <1>1, ArtifactAlways, PTL

\* A path two scans have in common that lost its bound got another severity.
LEMMA LostBoundIsSevere ==
    ASSUME NEW rule \in PathRules, NEW before, NEW after,
           Kinds(before, rule.sensitive) \subseteq {"restricted"}, ~(Kinds(after, rule.sensitive) \subseteq {"restricted"})
    PROVE  Rank(PathSeverity(rule, after)) > Rank(PathSeverity(rule, before))
<1>1. rule.sensitive # {}
  BY DEF Kinds, With
<1>2. rule.severity = "MEDIUM"
  BY <1>1 DEF PathRules
<1> QED BY <1>2 DEF PathSeverity, Rank

\* A path that both scans have and whose scope lost its bound, or that another tool takes
\* part in, is reported as an escalation, whatever the two scans are.
THEOREM WorsePathIsEscalatedAlways == Spec => [](NothingIsNull => WorsePathIsEscalated)
<1>1. ArtifactInv => (NothingIsNull => WorsePathIsEscalated)
  <2> SUFFICES ASSUME ArtifactInv, NothingIsNull, scan = "compared", edit = None, NEW rule \in PathRules
               PROVE  LET before == input.base["records"]
                          after == seal.caps
                          needed == ToSet(rule.required)
                          tooled(caps) == {c.tool : c \in With(caps, needed)}
                          bounded(caps) == Kinds(caps, rule.sensitive) \subseteq {"restricted"}
                      IN  /\ needed \subseteq {c.id : c \in before} /\ needed \subseteq {c.id : c \in after}
                          /\ (bounded(before) /\ ~bounded(after)) \/ ~(tooled(after) \subseteq tooled(before))
                          => \E e \in report.capability.escalations : e.id = rule.id
    BY DEF WorsePathIsEscalated
  <2> DEFINE before == input.base["records"]
             after == seal.caps
             needed == ToSet(rule.required)
             tooled(caps) == {c.tool : c \in With(caps, needed)}
             bounded(caps) == Kinds(caps, rule.sensitive) \subseteq {"restricted"}
             base == input.base
             own == Payload(seal)
             p == PathOf(rule, before)
             q == PathOf(rule, after)
  <2> SUFFICES ASSUME needed \subseteq {c.id : c \in before}, needed \subseteq {c.id : c \in after},
                      (bounded(before) /\ ~bounded(after)) \/ ~(tooled(after) \subseteq tooled(before))
               PROVE  \E e \in report.capability.escalations : e.id = rule.id
    OBVIOUS
  <2>1. /\ IsProjection(seal) /\ Accepts(BaseFile) /\ file.snapshot = own
        /\ report = Report(base, file.snapshot)
    BY AcceptedFile DEF ArtifactInv, Sealed, Accepts
  <2>2. /\ DOMAIN base = Field /\ DOMAIN own = Field
        /\ \A g \in Field : base[g] # JsonNull /\ own[g] # JsonNull
    BY BaseFields, PayloadFields DEF ArtifactInv, NothingIsNull
  <2>3. Given(base, "graph") /\ Given(base, "records") /\ Given(own, "graph")
    BY <2>2 DEF Given, Has, Field
  <2>4. base["graph"] = Graph(before)
    BY <2>1, <2>3 DEF Accepts, BaseFile, Consistent, GraphAgrees
  <2>5. own["graph"] = Graph(after)
    BY <2>1 DEF IsProjection, Payload
  <2>6. p \in PathsOf(base) /\ q \in PathsOf(own)
    BY <2>3, <2>4, <2>5 DEF PathsOf, Graph
  <2>7. p.id = rule.id /\ q.id = rule.id /\ p.tools = tooled(before) /\ q.tools = tooled(after)
        /\ p.severity = PathSeverity(rule, before) /\ q.severity = PathSeverity(rule, after)
    BY DEF PathOf
  <2>8. Rank(q.severity) > Rank(p.severity) \/ ~(q.tools \subseteq p.tools)
    BY <2>7, LostBoundIsSevere
  <2> HIDE DEF p, q, base, own, tooled, bounded
  <2>9. p # q
    <3>1. CASE ~(q.tools \subseteq p.tools)
      BY <3>1
    <3>2. CASE Rank(q.severity) > Rank(p.severity)
      BY <2>7, <3>2 DEF Rank, PathSeverity, PathRules
    <3> QED BY <2>8, <3>1, <3>2
  <2>10. {"severity_increased", "tools_expanded"} \cap Reasons(p, q) # {}
    BY <2>8 DEF Reasons
  <2> DEFINE e == [id |-> p.id, before |-> p, after |-> q, reasons |-> Reasons(p, q)]
  <2>11. e \in PathChanges(base, own)
    <3>1. <<p, q>> \in {x \in PathsOf(base) \X PathsOf(own) : x[1].id = x[2].id /\ x[1] # x[2]}
      BY <2>6, <2>7, <2>9
    <3> QED BY <3>1 DEF PathChanges
  <2>12. report.capability.escalations = {c \in PathChanges(base, own) : c.reasons # {}}
    BY <2>1 DEF Report, CapabilityPart
  <2> QED BY <2>7, <2>10, <2>11, <2>12
<1> QED BY <1>1, ArtifactAlways, PTL

----------------------------------------------------------------------------
(* Descent *)

\* What holds of x whenever it holds below x holds everywhere.
LEMMA Descent ==
    ASSUME NEW R, NEW D, IsWellFoundedOn(R, D), NEW P,
           \A x \in D : (\A y \in D : <<y, x>> \in R => y \in P) => x \in P
    PROVE  D \subseteq P
<1> DEFINE U == {x \in D : x \notin P}
<1>1. SUFFICES ASSUME U # {} PROVE FALSE
  OBVIOUS
<1>2. PICK x \in U : \A y \in U : ~(<<y, x>> \in R)
  BY <1>1, WFMin
<1>3. \A y \in D : <<y, x>> \in R => y \in P
  BY <1>2
<1> QED BY <1>3

\* Pairs of numbers, the first counting more, decrease finitely often.
LexBelow(D, m, n) == {p \in D \X D : \/ m[p[1]] < m[p[2]]
                                     \/ m[p[1]] = m[p[2]] /\ n[p[1]] < n[p[2]]}

\* Two measures, the second within the first, make a well-founded relation.
LEMMA LexIsWellFounded ==
    ASSUME NEW D, NEW m \in [D -> Nat], NEW n \in [D -> Nat]
    PROVE  IsWellFoundedOn(LexBelow(D, m, n), D)
<1> DEFINE R == LexBelow(D, m, n)
<1> SUFFICES ASSUME NEW S \in SUBSET D, S # {} PROVE \E x \in S : \A y \in S : ~(<<y, x>> \in R)
  BY MinWF
<1> DEFINE M == {m[x] : x \in S}
<1>1. M \subseteq Nat /\ M # {}
  OBVIOUS
<1>2. PICK a \in M : \A b \in M : a <= b
  BY <1>1, SmallestOf
<1> DEFINE T == {x \in S : m[x] = a}
           N == {n[x] : x \in T}
<1>3. N \subseteq Nat /\ N # {}
  OBVIOUS
<1>4. PICK c \in N : \A b \in N : c <= b
  BY <1>3, SmallestOf
<1>5. PICK x \in T : n[x] = c
  OBVIOUS
<1>6. ASSUME NEW y \in S, <<y, x>> \in R PROVE FALSE
  <2>1. m[x] = a /\ m[y] \in M /\ a <= m[y] /\ x \in D /\ y \in D
    BY <1>2
  <2>2. m[x] \in Nat /\ m[y] \in Nat /\ n[x] \in Nat /\ n[y] \in Nat
    BY <2>1
  <2>3. m[y] < m[x] \/ (m[y] = m[x] /\ n[y] < n[x])
    BY <1>6 DEF LexBelow
  <2>4. m[y] = a /\ n[y] < n[x]
    BY <2>1, <2>2, <2>3
  <2>5. n[y] \in N
    BY <2>4
  <2>6. c <= n[y]
    BY <1>4, <2>5
  <2> QED BY <1>5, <2>2, <2>4, <2>6
<1> QED BY <1>5, <1>6

----------------------------------------------------------------------------
(* The walk over the schemas of a tool *)

\* What the walk puts on its stack, and what it has met.
Placed == Branch \X (STRING \cup {None})
Meetings == SchemaNode \X (STRING \cup {None})
Walks == Seq(Placed) \X SUBSET SchemaNode

\* What is below an object, placed on the stack, is well formed.
LEMMA PushedTyped ==
    ASSUME NEW n \in SchemaNode, NEW context \in STRING \cup {None}
    PROVE  Pushed(n, context) \in Seq(Placed)
<1>1. PICK k \in SchemaType : k = Schema[n]
  BY SchemaAssumption
<1> DEFINE within(B) == [j \in DOMAIN B |-> <<B[j], context>>]
           named == [j \in DOMAIN k.properties |-> <<k.properties[j][2], k.properties[j][1]>>]
           others == [j \in DOMAIN k.other |-> k.other[j][2]]
<1>2. ASSUME NEW B \in Seq(Branch) PROVE within(B) \in Seq(Placed)
  <2>1. PICK b \in Nat : b = Len(B) /\ DOMAIN B = 1..b
    BY LenProperties
  <2>2. within(B) \in [1..b -> Placed]
    <3>1. \A j \in 1..b : B[j] \in Branch
      BY <2>1, ElementOfSeq
    <3> QED BY <2>1, <3>1 DEF Placed
  <2> QED BY <2>2, SeqDef
<1>3. named \in Seq(Placed)
  <2>1. k.properties \in Seq(STRING \X Branch)
    BY DEF SchemaType
  <2>2. PICK b \in Nat : b = Len(k.properties) /\ DOMAIN k.properties = 1..b
    BY <2>1, LenProperties
  <2>3. \A j \in 1..b : k.properties[j] \in STRING \X Branch
    BY <2>1, <2>2, ElementOfSeq
  <2>4. named \in [1..b -> Placed]
    BY <2>2, <2>3 DEF Placed
  <2> QED BY <2>4, SeqDef
<1>4. /\ k.allOf \in Seq(Branch) /\ k.anyOf \in Seq(Branch) /\ k.oneOf \in Seq(Branch)
      /\ k.dependent \in Seq(Branch) /\ k.items \in Branch /\ k.if \in Branch /\ k.then \in Branch
      /\ k.else \in Branch /\ k.not \in Branch
  BY DEF SchemaType
<1> DEFINE five == <<k.items, k.if, k.then, k.else, k.not>>
<1>5. five \in Seq(Branch)
  BY <1>4
<1>6. Pushed(n, context) = named \o within(k.allOf) \o within(k.anyOf) \o within(k.oneOf) \o within(five)
                           \o within(k.dependent) \o within(others)
  BY <1>1 DEF Pushed
<1>7. others \in Seq(Branch)
  <2>1. k.other \in Seq((STRING \cup {None}) \X Branch)
    BY DEF SchemaType
  <2>2. PICK b \in Nat : b = Len(k.other) /\ DOMAIN k.other = 1..b
    BY <2>1, LenProperties
  <2>3. \A j \in 1..b : k.other[j] \in (STRING \cup {None}) \X Branch
    BY <2>1, <2>2, ElementOfSeq
  <2>4. others \in [1..b -> Branch]
    BY <2>2, <2>3
  <2> QED BY <2>4, SeqDef
<1>8. /\ within(k.allOf) \in Seq(Placed) /\ within(k.anyOf) \in Seq(Placed) /\ within(k.oneOf) \in Seq(Placed)
      /\ within(five) \in Seq(Placed) /\ within(k.dependent) \in Seq(Placed) /\ within(others) \in Seq(Placed)
  BY <1>2, <1>4, <1>5, <1>7
<1> HIDE DEF named, within, five, others
<1> QED BY <1>3, <1>6, <1>8, ConcatProperties

\* One step of the walk.
MetStep(g, v) ==
    IF v[1] = <<>> THEN {}
    ELSE IF Last(v[1])[1] \in v[2] \cup {None} THEN g[<<Front(v[1]), v[2]>>]
    ELSE {Last(v[1])} \cup g[<<Front(v[1]) \o Pushed(Last(v[1])[1], Last(v[1])[2]), v[2] \cup {Last(v[1])[1]}>>]

\* What a walk has left: objects, and then places on the stack.
ObjectsLeft == [v \in Walks |-> Cardinality(SchemaNode \ v[2])]
PlacesLeft == [v \in Walks |-> Len(v[1])]
WalkBelow == LexBelow(Walks, ObjectsLeft, PlacesLeft)

\* The numbers of objects and places left are numbers.
LEMMA WalkMeasures == ObjectsLeft \in [Walks -> Nat] /\ PlacesLeft \in [Walks -> Nat]
<1>1. \A S : IsFiniteSet(SchemaNode \ S) /\ Cardinality(SchemaNode \ S) \in Nat
  BY SchemaAssumption, FS_Subset, FS_CardinalityType
<1>2. ObjectsLeft \in [Walks -> Nat]
  BY <1>1 DEF ObjectsLeft
<1>3. \A v \in Walks : Len(v[1]) \in Nat
  BY LenProperties DEF Walks
<1> QED BY <1>2, <1>3 DEF PlacesLeft

\* Each step of the walk goes to one with less left.
LEMMA WalkDescends ==
    ASSUME NEW v \in Walks, v[1] # <<>>
    PROVE  LET n == Last(v[1])[1]
               skip == <<Front(v[1]), v[2]>>
               enter == <<Front(v[1]) \o Pushed(n, Last(v[1])[2]), v[2] \cup {n}>>
           IN  /\ Last(v[1]) \in Placed /\ skip \in Walks /\ <<skip, v>> \in WalkBelow
               /\ n \notin v[2] \cup {None} =>
                     Last(v[1]) \in Meetings /\ enter \in Walks /\ <<enter, v>> \in WalkBelow
<1> DEFINE n == Last(v[1])[1]
           skip == <<Front(v[1]), v[2]>>
           enter == <<Front(v[1]) \o Pushed(n, Last(v[1])[2]), v[2] \cup {n}>>
<1>1. v[1] \in Seq(Placed) /\ v[2] \in SUBSET SchemaNode /\ v = <<v[1], v[2]>>
  BY DEF Walks
<1>2. /\ Last(v[1]) \in Placed /\ Len(v[1]) \in Nat \ {0}
      /\ Front(v[1]) \in Seq(Placed) /\ Len(Front(v[1])) = Len(v[1]) - 1
  BY <1>1, LastAndFront
<1>3. skip \in Walks /\ skip[1] = Front(v[1]) /\ skip[2] = v[2]
  BY <1>1, <1>2 DEF Walks
<1>4. <<skip, v>> \in WalkBelow
  <2>0. Len(skip[1]) < Len(v[1])
    BY <1>2
  <2> HIDE DEF skip
  <2>1. ObjectsLeft[skip] = ObjectsLeft[v] /\ PlacesLeft[skip] < PlacesLeft[v]
    BY <2>0, <1>3 DEF ObjectsLeft, PlacesLeft
  <2> QED BY <1>3, <2>1 DEF WalkBelow, LexBelow
<1>5. ASSUME n \notin v[2] \cup {None}
      PROVE  Last(v[1]) \in Meetings /\ enter \in Walks /\ <<enter, v>> \in WalkBelow
  <2>1. n \in SchemaNode /\ Last(v[1])[2] \in STRING \cup {None} /\ Last(v[1]) = <<n, Last(v[1])[2]>>
    BY <1>2, <1>5 DEF Placed, Branch
  <2>2. Last(v[1]) \in Meetings
    BY <2>1 DEF Meetings
  <2>3. Pushed(n, Last(v[1])[2]) \in Seq(Placed)
    BY <2>1, PushedTyped
  <2>4. Front(v[1]) \o Pushed(n, Last(v[1])[2]) \in Seq(Placed)
    BY <1>2, <2>3, ConcatProperties
  <2>5. enter \in Walks /\ enter[2] = v[2] \cup {n}
    BY <1>1, <2>1, <2>4 DEF Walks
  <2>6. Cardinality(SchemaNode \ (v[2] \cup {n})) < Cardinality(SchemaNode \ v[2])
    <3>1. IsFiniteSet(SchemaNode \ v[2]) /\ n \in SchemaNode \ v[2]
      BY <1>5, <2>1, SchemaAssumption, FS_Subset
    <3>2. Cardinality((SchemaNode \ v[2]) \ {n}) = Cardinality(SchemaNode \ v[2]) - 1
      BY <3>1, FS_RemoveElement
    <3>3. (SchemaNode \ v[2]) \ {n} = SchemaNode \ (v[2] \cup {n})
      OBVIOUS
    <3>4. Cardinality(SchemaNode \ v[2]) \in Nat
      BY <3>1, FS_CardinalityType
    <3>5. Cardinality(SchemaNode \ (v[2] \cup {n})) = Cardinality(SchemaNode \ v[2]) - 1
      BY <3>2, <3>3
    <3> QED BY <3>4, <3>5
  <2> HIDE DEF enter, n
  <2>7. ObjectsLeft[enter] < ObjectsLeft[v]
    BY <2>5, <2>6 DEF ObjectsLeft
  <2> QED BY <2>2, <2>5, <2>7 DEF WalkBelow, LexBelow
<1> QED BY <1>2, <1>3, <1>4, <1>5

\* The walk over schemas is defined, and meets objects.
LEMMA MetIsTyped == \A v \in Walks : Met[v] = MetStep(Met, v) /\ Met[v] \subseteq Meetings
<1> DEFINE V == SUBSET Meetings
           F == [Walks -> V]
           step == [p \in F \X Walks |-> MetStep(p[1], p[2])]
<1>1. IsWellFoundedOn(WalkBelow, Walks)
  BY WalkMeasures, LexIsWellFounded DEF WalkBelow
<1>2. ASSUME NEW g, NEW v \in Walks, \A w \in Walks : <<w, v>> \in WalkBelow => g[w] \in V
      PROVE  MetStep(g, v) \in V
  <2>1. CASE v[1] = <<>>
    BY <2>1 DEF MetStep
  <2>2. CASE v[1] # <<>>
    BY <1>2, <2>2, WalkDescends DEF MetStep
  <2> QED BY <2>1, <2>2
<1>3. ASSUME NEW g, NEW h, NEW v \in Walks, \A w \in Walks : <<w, v>> \in WalkBelow => g[w] = h[w]
      PROVE  MetStep(g, v) = MetStep(h, v)
  <2>1. CASE v[1] = <<>>
    BY <2>1 DEF MetStep
  <2>2. CASE v[1] # <<>>
    BY <1>3, <2>2, WalkDescends DEF MetStep
  <2> QED BY <2>1, <2>2
<1>4. \A g \in F : \A v \in Walks : step[<<g, v>>] = MetStep(g, v)
  <2> TAKE g \in F
  <2> TAKE v \in Walks
  <2>1. <<g, v>> \in F \X Walks
    OBVIOUS
  <2> HIDE DEF F
  <2> QED BY <2>1
<1>5. \A g \in F : \A v \in Walks : MetStep(g, v) \in V
  BY <1>2
<1>6. step \in [F \X Walks -> V]
  <2> HIDE DEF F, V
  <2> QED BY <1>5
<1>7. Local(step, WalkBelow, Walks, V)
  <2> HIDE DEF step, V
  <2> QED BY <1>3, <1>4 DEF Local
<1>8. Recursion(step, WalkBelow, Walks, V)
  <2>1. V # {}
    OBVIOUS
  <2> QED BY <1>1, <1>6, <1>7, <2>1 DEF Recursion
<1>9. PICK g \in F : \A v \in Walks : g[v] = step[<<g, v>>]
  <2> HIDE DEF step, V
  <2> QED BY <1>8, RecursionIsDefined
<1> HIDE DEF step
<1>10. g = [v \in Walks |-> MetStep(g, v)]
  BY <1>4, <1>9
<1>11. Met = [v \in Walks |-> MetStep(Met, v)]
  BY <1>10 DEF Met, MetStep, Walks, Placed
<1>12. \A v \in Walks : Met[v] = MetStep(Met, v)
  <2> DEFINE m == Met
  <2>1. m = [v \in Walks |-> MetStep(m, v)]
    BY <1>11
  <2> HIDE DEF m
  <2>2. \A v \in Walks : m[v] = MetStep(m, v)
    BY <2>1
  <2> QED BY <2>2 DEF m
<1> DEFINE P == {v \in Walks : Met[v] \in V}
<1>13. \A v \in Walks : (\A w \in Walks : <<w, v>> \in WalkBelow => w \in P) => v \in P
  BY <1>2, <1>12
<1>14. Walks \subseteq P
  <2> HIDE DEF P
  <2> QED BY <1>1, <1>13, Descent
<1> QED BY <1>12, <1>14

\* What the schemas of a tool say is about capabilities.
LEMMA SignalsTyped ==
    ASSUME NEW nodes \in Seq(SchemaNode) PROVE SchemaSignals(nodes).says \subseteq CapId
<1> DEFINE start == [k \in DOMAIN nodes |-> <<nodes[k], None>>]
           met == Met[<<start, {}>>]
<1>1. start \in Seq(Placed)
  <2>1. PICK n \in Nat : n = Len(nodes) /\ DOMAIN nodes = 1..n
    BY LenProperties
  <2>2. \A k \in 1..n : nodes[k] \in SchemaNode
    BY <2>1, ElementOfSeq
  <2>3. start \in [1..n -> Placed]
    BY <2>1, <2>2 DEF Placed, Branch
  <2> QED BY <2>3, SeqDef
<1>2. <<start, {}>> \in Walks
  BY <1>1 DEF Walks
<1>3. met \subseteq Meetings
  BY <1>2, MetIsTyped
<1>4. \A m \in Meetings : m[1] \in SchemaNode
  BY DEF Meetings
<1>5. \A n \in SchemaNode : Schema[n].says \subseteq CapId
  <2> TAKE n \in SchemaNode
  <2>1. Schema[n] \in SchemaType
    BY SchemaAssumption
  <2> QED BY <2>1 DEF SchemaType
<1>6. SchemaSignals(nodes).says = UNION {Schema[m[1]].says : m \in met}
  BY DEF SchemaSignals
<1> HIDE DEF met
<1> QED BY <1>3, <1>4, <1>5, <1>6

----------------------------------------------------------------------------
(* What tools can do *)

\* The values of a function on a finite set are finitely many.
LEMMA ValuesAreFinite ==
    ASSUME NEW S, IsFiniteSet(S), NEW f, DOMAIN f = S PROVE IsFiniteSet({f[x] : x \in S})
<1> DEFINE T == {f[x] : x \in S}
           g == [x \in S |-> f[x]]
<1>1. g \in Surjection(S, T)
  BY DEF Surjection
<1> QED BY <1>1, FS_Surjection

\* What a capability is recorded with.
CapField == {"id", "tool", "source", "risk", "scope", "adapter", "by", "confidence"}

\* What is inferred of a tool is about it, of capabilities that differ.
LEMMA InferredOf ==
    ASSUME NEW t \in ToolRecord, NEW s, s.says \subseteq CapId
    PROVE  /\ \A c \in Inferred(t, s) : c.tool = t.name /\ c.source = t.source /\ c.id \in CapId
                                         /\ DOMAIN c = CapField
           /\ \A c, d \in Inferred(t, s) : c.id = d.id => c = d
           /\ IsFiniteSet(Inferred(t, s))
<1> DEFINE told == NameSays[t.name] \cup t.text.says
           matched == PropertyMatches(s)
           ids == told \cup s.says \cup matched
           rec(i) == [id |-> i, tool |-> t.name, source |-> t.source, risk |-> RuleRisk[i],
                      scope |-> ScopeForCapability(i, t.text, t.schema),
                      adapter |-> t.adapter, by |-> <<i \in told, i \in s.says, i \in matched>>,
                      confidence |-> IF i \in told /\ t.adapter # "generic" THEN "medium" ELSE "low"]
<1>1. Inferred(t, s) = {rec(i) : i \in ids}
  BY DEF Inferred
<1>2. ids \subseteq CapId
  <2>1. NameSays[t.name] \subseteq CapId
    BY CapabilitiesAssumption DEF ToolRecord
  <2>2. t.text.says \subseteq CapId
    BY DEF ToolRecord, Description
  <2>3. matched \subseteq CapId
    BY DEF PropertyMatches
  <2> QED BY <2>1, <2>2, <2>3
<1>3. IsFiniteSet(ids)
  <2>1. CapId = {"shell.execute", "filesystem.write", "filesystem.read", "network.external",
                    "secrets.access", "email.send", "github.write"}
    BY CapabilitiesAssumption DEF RuleRisk
  <2>2. IsFiniteSet(CapId)
    <3>1. IsFiniteSet({"shell.execute", "filesystem.write"})
      <4>1. IsFiniteSet({"shell.execute"})
        BY FS_Singleton
      <4>2. IsFiniteSet({"shell.execute"} \cup {"filesystem.write"})
        BY <4>1, FS_AddElement
      <4>3. {"shell.execute", "filesystem.write"} = {"shell.execute"} \cup {"filesystem.write"}
        OBVIOUS
      <4> QED BY <4>2, <4>3
    <3>2. IsFiniteSet({"shell.execute", "filesystem.write"} \cup {"filesystem.read"})
      BY <3>1, FS_AddElement
    <3>3. IsFiniteSet({"shell.execute", "filesystem.write"} \cup {"filesystem.read"} \cup {"network.external"})
      BY <3>2, FS_AddElement
    <3>4. IsFiniteSet({"shell.execute", "filesystem.write"} \cup {"filesystem.read"} \cup {"network.external"}
                      \cup {"secrets.access"})
      BY <3>3, FS_AddElement
    <3>5. IsFiniteSet({"shell.execute", "filesystem.write"} \cup {"filesystem.read"} \cup {"network.external"}
                      \cup {"secrets.access"} \cup {"email.send"})
      BY <3>4, FS_AddElement
    <3>6. IsFiniteSet({"shell.execute", "filesystem.write"} \cup {"filesystem.read"} \cup {"network.external"}
                      \cup {"secrets.access"} \cup {"email.send"} \cup {"github.write"})
      BY <3>5, FS_AddElement
    <3>7. CapId = {"shell.execute", "filesystem.write"} \cup {"filesystem.read"} \cup {"network.external"}
                  \cup {"secrets.access"} \cup {"email.send"} \cup {"github.write"}
      BY <2>1
    <3> QED BY <3>6, <3>7
  <2> QED BY <1>2, <2>2, FS_Subset
<1>4. IsFiniteSet({rec(i) : i \in ids})
  <2> DEFINE f == [i \in ids |-> rec(i)]
  <2> HIDE DEF ids, rec
  <2>1. DOMAIN f = ids /\ {f[i] : i \in ids} = {rec(i) : i \in ids}
    OBVIOUS
  <2> HIDE DEF f
  <2>2. IsFiniteSet({f[i] : i \in ids})
    BY <1>3, <2>1, ValuesAreFinite
  <2> QED BY <2>1, <2>2
<1>5. \A i : rec(i).id = i /\ rec(i).tool = t.name /\ rec(i).source = t.source /\ DOMAIN rec(i) = CapField
  BY DEF CapField
<1> HIDE DEF ids, rec
<1> QED BY <1>1, <1>2, <1>4, <1>5

\* One tool of a name in a file, and finitely many of them.
OneToolPerFile(T) ==
    /\ T \subseteq ToolRecord /\ IsFiniteSet(T)
    /\ \A t, u \in T : t.name = u.name /\ t.source = u.source => t = u

\* What is inferred of tools, one of a name in a file.
LEMMA InferenceOf ==
    ASSUME NEW T, OneToolPerFile(T)
    PROVE  /\ \A c \in InferCapabilities(T) : c.id \in CapId /\ c.tool \in {t.name : t \in T}
                                                  /\ DOMAIN c = CapField
           /\ \A c, d \in InferCapabilities(T) :
                 c.id = d.id /\ c.tool = d.tool /\ c.source = d.source => c = d
           /\ IsFiniteSet(InferCapabilities(T))
<1> DEFINE of(t) == Inferred(t, SchemaSignals(t.schema))
<1>1. InferCapabilities(T) = UNION {of(t) : t \in T}
  BY DEF InferCapabilities
<1>2. \A t \in T : t \in ToolRecord /\ SchemaSignals(t.schema).says \subseteq CapId
  <2> TAKE t \in T
  <2>1. t \in ToolRecord
    BY DEF OneToolPerFile
  <2>2. t.schema \in Seq(SchemaNode)
    BY <2>1 DEF ToolRecord
  <2> QED BY <2>1, <2>2, SignalsTyped
<1>3. \A t \in T : /\ \A c \in of(t) : c.tool = t.name /\ c.source = t.source /\ c.id \in CapId
                                           /\ DOMAIN c = CapField
                   /\ \A c, d \in of(t) : c.id = d.id => c = d
                   /\ IsFiniteSet(of(t))
  BY <1>2, InferredOf
<1> HIDE DEF of
<1>4. IsFiniteSet(UNION {of(t) : t \in T})
  <2>1. IsFiniteSet({of(t) : t \in T})
    <3> DEFINE f == [t \in T |-> of(t)]
    <3>1. DOMAIN f = T /\ {f[t] : t \in T} = {of(t) : t \in T}
      OBVIOUS
    <3> HIDE DEF f
    <3>2. IsFiniteSet({f[t] : t \in T})
      BY <3>1, ValuesAreFinite DEF OneToolPerFile
    <3> QED BY <3>1, <3>2
  <2>2. \A S \in {of(t) : t \in T} : IsFiniteSet(S)
    BY <1>3
  <2> QED BY <2>1, <2>2, FS_UNION
<1>5. \A c \in InferCapabilities(T) : \E t \in T : c \in of(t)
  BY <1>1
<1>6. \A c, d \in InferCapabilities(T) : c.id = d.id /\ c.tool = d.tool /\ c.source = d.source => c = d
  <2> TAKE c, d \in InferCapabilities(T)
  <2> HAVE c.id = d.id /\ c.tool = d.tool /\ c.source = d.source
  <2>1. PICK t \in T, u \in T : c \in of(t) /\ d \in of(u)
    BY <1>5
  <2>2. t = u
    BY <1>3, <2>1 DEF OneToolPerFile
  <2> QED BY <1>3, <2>1, <2>2
<1> QED BY <1>1, <1>3, <1>4, <1>5, <1>6

\* The capabilities of one id and tool.
SameKey(caps, c) == {d \in caps : d.id = c.id /\ d.tool = c.tool}
\* A capability with the scope that all definitions of its tool agree on.
Rescoped(caps, c) ==
    IF c.id \in Scoped /\ SameKey(caps, c) # {c}
    THEN [c EXCEPT !.scope = MergedScope({d.scope : d \in SameKey(caps, c)})] ELSE c

\* Capabilities told apart by id, tool and file.
Keyed(caps) ==
    /\ \A c \in caps : DOMAIN c = CapField
    /\ \A c, d \in caps : c.id = d.id /\ c.tool = d.tool /\ c.source = d.source => c = d

\* Reconciling changes scopes only, to one for all the capabilities of an id and tool.
LEMMA ReconciledOf ==
    ASSUME NEW caps, Keyed(caps)
    PROVE  /\ \A c \in Reconciled(caps) : \E d \in caps : c = Rescoped(caps, d)
           /\ \A c \in caps : /\ Rescoped(caps, c) \in Reconciled(caps)
                              /\ DOMAIN Rescoped(caps, c) = CapField
                              /\ \A f \in CapField \ {"scope"} : Rescoped(caps, c)[f] = c[f]
           /\ \A c, d \in caps : c.id \in Scoped /\ c.id = d.id /\ c.tool = d.tool =>
                 Rescoped(caps, c).scope = Rescoped(caps, d).scope
<1>1. Reconciled(caps) = {Rescoped(caps, c) : c \in caps}
  BY DEF Reconciled, Rescoped, SameKey
<1>2. \A c \in caps : /\ DOMAIN Rescoped(caps, c) = CapField
                      /\ \A f \in CapField \ {"scope"} : Rescoped(caps, c)[f] = c[f]
  <2> TAKE c \in caps
  <2>1. \A s : DOMAIN [c EXCEPT !.scope = s] = CapField
               /\ \A f \in CapField \ {"scope"} : [c EXCEPT !.scope = s][f] = c[f]
    BY DEF Keyed
  <2> QED BY <2>1 DEF Rescoped, Keyed
<1>3. ASSUME NEW c \in caps, NEW d \in caps, c.id \in Scoped, c.id = d.id, c.tool = d.tool
      PROVE  Rescoped(caps, c).scope = Rescoped(caps, d).scope
  <2>1. SameKey(caps, c) = SameKey(caps, d) /\ c \in SameKey(caps, c) /\ d \in SameKey(caps, c)
    BY <1>3 DEF SameKey
  <2>2. CASE SameKey(caps, c) = {c}
    BY <2>1, <2>2
  <2>3. CASE SameKey(caps, c) # {c}
    <3>1. SameKey(caps, d) # {d}
      BY <2>1, <2>3
    <3>2. DOMAIN c = CapField /\ DOMAIN d = CapField
      BY DEF Keyed
    <3>3. \A s : [c EXCEPT !.scope = s].scope = s /\ [d EXCEPT !.scope = s].scope = s
      BY <3>2 DEF CapField
    <3> QED BY <1>3, <2>1, <2>3, <3>1, <3>3 DEF Rescoped
  <2> QED BY <2>2, <2>3
<1> QED BY <1>1, <1>2, <1>3

\* What was inferred of tools, one of a name in a file, and reconciled.
LEMMA CapabilitiesOfTools ==
    ASSUME NEW T, OneToolPerFile(T), NEW caps, caps = Reconciled(InferCapabilities(T))
    PROVE  /\ Keyed(caps) /\ IsFiniteSet(caps)
           /\ \A c \in caps : c.id \in CapId /\ c.tool \in {t.name : t \in T}
           /\ \A c, d \in caps : c.id \in Scoped /\ c.id = d.id /\ c.tool = d.tool => c.scope = d.scope
<1> DEFINE old == InferCapabilities(T)
           to(c) == Rescoped(old, c)
<1>1. /\ Keyed(old) /\ IsFiniteSet(old)
      /\ \A c \in old : c.id \in CapId /\ c.tool \in {t.name : t \in T}
  BY InferenceOf DEF Keyed
<1> HIDE DEF old
<1>2. /\ \A c \in caps : \E d \in old : c = to(d)
      /\ \A d \in old : /\ to(d) \in caps /\ DOMAIN to(d) = CapField
                        /\ \A f \in CapField \ {"scope"} : to(d)[f] = d[f]
      /\ \A c, d \in old : c.id \in Scoped /\ c.id = d.id /\ c.tool = d.tool => to(c).scope = to(d).scope
  BY <1>1, ReconciledOf DEF old
<1> HIDE DEF to
<1>3. \A d \in old : to(d).id = d.id /\ to(d).tool = d.tool /\ to(d).source = d.source
  BY <1>2 DEF CapField
<1>4. caps = {to(d) : d \in old}
  BY <1>2
<1>5. IsFiniteSet(caps)
  <2> DEFINE f == [d \in old |-> to(d)]
  <2>1. DOMAIN f = old /\ {f[d] : d \in old} = caps
    BY <1>4
  <2> HIDE DEF f
  <2> QED BY <1>1, <2>1, ValuesAreFinite
<1>6. Keyed(caps)
  <2>1. ASSUME NEW c \in caps, NEW d \in caps, c.id = d.id, c.tool = d.tool, c.source = d.source PROVE c = d
    <3>1. PICK x \in old, y \in old : c = to(x) /\ d = to(y)
      BY <1>2
    <3>2. x.id = y.id /\ x.tool = y.tool /\ x.source = y.source
      BY <1>3, <2>1, <3>1
    <3> QED BY <1>1, <3>1, <3>2 DEF Keyed
  <2> QED BY <1>2, <2>1 DEF Keyed
<1>7. \A c \in caps : c.id \in CapId /\ c.tool \in {t.name : t \in T}
  BY <1>1, <1>2, <1>3
<1>8. \A c, d \in caps : c.id \in Scoped /\ c.id = d.id /\ c.tool = d.tool => c.scope = d.scope
  <2> TAKE c, d \in caps
  <2>1. PICK x \in old, y \in old : c = to(x) /\ d = to(y)
    BY <1>2
  <2> QED BY <1>2, <1>3, <2>1
<1> QED BY <1>5, <1>6, <1>7, <1>8

----------------------------------------------------------------------------
(* What a scan builds is consistent *)

\* A capability of every key can be chosen.
LEMMA SomeRepresentatives == ASSUME NEW caps PROVE Representatives(caps) # {}
<1> DEFINE pick(k) == CHOOSE d \in caps : Key(d) = k
           judged == {pick(Key(c)) : c \in caps}
<1>1. \A c \in caps : pick(Key(c)) \in caps /\ Key(pick(Key(c))) = Key(c)
  OBVIOUS
<1> HIDE DEF pick
<1>2. judged \in SUBSET caps
  BY <1>1
<1>3. ASSUME NEW c \in caps
      PROVE  \E d \in judged : \A e \in judged : Key(e) = Key(c) <=> e = d
  <2>1. pick(Key(c)) \in judged
    OBVIOUS
  <2>2. ASSUME NEW e \in judged PROVE Key(e) = Key(c) <=> e = pick(Key(c))
    <3>1. PICK b \in caps : e = pick(Key(b))
      OBVIOUS
    <3>2. Key(e) = Key(b)
      BY <1>1, <3>1
    <3> QED BY <1>1, <3>1, <3>2
  <2> QED BY <2>1, <2>2
<1>4. judged \in Representatives(caps)
  BY <1>2, <1>3 DEF Representatives
<1> QED BY <1>4

\* A policy that says what to do with an unknown scope.
Decided(p) == p.unknown \in {"deny", "review", "ignore"}

\* What the policy finds is about the capabilities and tools of the inventory.
LEMMA FindingsAbout ==
    ASSUME NEW caps, NEW p, Decided(p)
    PROVE  \A f \in FindingsOf(caps, p) : f.cap \in {c.id : c \in caps} \cup {None}
                                          /\ f.tool \in {c.tool : c \in caps} \cup {None}
<1> DEFINE seen == ForPolicy(caps)
           ids == {c.id : c \in caps} \cup {None}
           names == {c.tool : c \in caps} \cup {None}
           judged == CHOOSE j \in Representatives(seen) : TRUE
           all == IdentityFindings(p, seen) \cup RiskFindings(p, RiskScore(caps))
                  \cup UNION {Judge(p, seen, c) : c \in judged}
           is(f) == f.cap \in ids /\ f.tool \in names /\ DOMAIN f = {"severity", "rule", "cap", "tool"}
<1>1. judged \subseteq seen
  <2>1. judged \in Representatives(seen)
    BY SomeRepresentatives
  <2> QED BY <2>1 DEF Representatives
<1>2. \A c \in seen : c.id \in ids /\ c.tool \in names
  BY DEF ForPolicy
<1> HIDE DEF judged
<1>3. \A f \in IdentityFindings(p, seen) : is(f)
  <2>1. \A t \in Ambiguous(p, seen) : t \in names
    BY <1>2 DEF Ambiguous
  <2> HIDE DEF seen
  <2>2. None \in ids /\ None \in names
    OBVIOUS
  <2> HIDE DEF ids, names
  <2> QED BY <2>1, <2>2 DEF IdentityFindings
<1>4. \A f \in RiskFindings(p, RiskScore(caps)) : is(f)
  BY DEF RiskFindings
<1>5. ASSUME NEW c \in seen PROVE \A f \in Judge(p, seen, c) : is(f)
  <2>1. \A s, r : is(Found(s, r, c))
    <3> HIDE DEF ids, names
    <3> QED BY <1>2 DEF Found
  <2> HIDE DEF ids, names, seen, is
  <2>2. \A f \in ScopeFindings(p, c) : \E s, r : f = Found(s, r, c)
    BY Zenon DEF ScopeFindings, Decided
  <2>3. \A f \in Reviewed(p, c) : \E s, r : f = Found(s, r, c)
    BY DEF Reviewed
  <2>4. \A f \in Judge(p, seen, c) : \E s, r : f = Found(s, r, c)
    BY <2>2, <2>3, Zenon DEF Judge
  <2> QED BY <2>1, <2>4
<1>6. \A f \in all : is(f)
  BY <1>1, <1>3, <1>4, <1>5
<1>7. FindingsOf(caps, p) = ApplySuppressions(p, all)
  BY DEF FindingsOf, Outcome, judged
<1> HIDE DEF all
<1>8. \A f : is(f) => is([f EXCEPT !.severity = "INFO"])
  OBVIOUS
<1>9. \A f \in ApplySuppressions(p, all) : is(f)
  <2> HIDE DEF is
  <2> QED BY <1>6, <1>8 DEF ApplySuppressions
<1> QED BY <1>7, <1>9

\* What scan makes of tools and a policy.
Built(r) ==
    /\ OneToolPerFile(r.tools) /\ r.caps = Reconciled(InferCapabilities(r.tools))
    /\ r.graph = Graph(r.caps) /\ Decided(r.policy) /\ r.findings = FindingsOf(r.caps, r.policy)

\* A list mentions the capabilities and tools that are there.
LEMMA KnownIn ==
    ASSUME NEW s, NEW ids, NEW names, Has(s, "capabilities") => s["capabilities"] = ids,
           Has(s, "tools") => s["tools"] = names,
           NEW C, NEW N, C \subseteq ids, N \subseteq names
    PROVE  Known(s, C, N)
BY DEF Known

\* The snapshot of what a scan builds agrees with itself.
LEMMA BuiltIsConsistent == ASSUME NEW r, Built(r) PROVE Consistent(Payload(r))
<1> DEFINE s == Payload(r)
           caps == r.caps
           ids == {c.id : c \in caps}
           names == {t.name : t \in r.tools}
<1>0. /\ s["capabilities"] = ids /\ s["records"] = caps /\ s["tools"] = names
      /\ s["scopes"] = ScopeRecords(caps) /\ s["graph"] = Graph(caps) /\ s["risk"] = RiskScore(caps)
      /\ s["severity"] = MaxSeverity(r.findings) /\ s["findings"] = FindingsOf(caps, r.policy)
      /\ r.findings = FindingsOf(caps, r.policy)
  BY DEF Payload, Built
<1>1. /\ Keyed(caps)
      /\ \A c \in caps : c.id \in CapId /\ c.tool \in names
      /\ \A c, d \in caps : c.id \in Scoped /\ c.id = d.id /\ c.tool = d.tool => c.scope = d.scope
  BY CapabilitiesOfTools DEF Built
<1>2. Decided(r.policy)
  BY DEF Built
<1> HIDE DEF s, caps
<1>3. \A C, N : C \subseteq ids /\ N \subseteq names => Known(s, C, N)
  <2> HIDE DEF ids, names
  <2> QED BY <1>0, KnownIn
<1>4. {c.tool : c \in caps} \subseteq names
  BY <1>1
<1>5. RecordsAgree(s)
  BY <1>0, <1>1, <1>4 DEF RecordsAgree, Keyed
<1>6. ScopesAgree(s)
  <2>1. {x.capability : x \in ScopeRecords(caps)} \subseteq ids /\ {x.tool : x \in ScopeRecords(caps)} \subseteq names
    BY <1>4 DEF ScopeRecords
  <2>2. OneScopePerTool(ScopeRecords(caps))
    BY <1>1 DEF OneScopePerTool, ScopeRecords
  <2>3. ScopesKnown(s)
    BY <1>0, <1>3, <2>1, <2>2 DEF ScopesKnown
  <2> QED BY <1>0, <2>3 DEF ScopesAgree
<1>7. GraphAgrees(s)
  <2> DEFINE applied == {rule \in PathRules : ToSet(rule.required) \subseteq ids}
             g == Graph(caps)
  <2>1. /\ g.edges = {rule.required : rule \in applied} /\ g.paths = {PathOf(rule, caps) : rule \in applied}
        /\ g.nodes = {[capability |-> i, tools |-> {c.tool : c \in With(caps, {i})},
                       risk |-> Max({c.risk : c \in With(caps, {i})})] : i \in ids}
    BY DEF Graph
  <2>2. \A rule \in applied : /\ PathOf(rule, caps).id = rule.id /\ PathOf(rule, caps).capabilities = rule.required
                              /\ PathOf(rule, caps).tools \subseteq names /\ ToSet(rule.required) \subseteq ids
    BY <1>4 DEF PathOf, With
  <2> HIDE DEF g
  <2>3. \A p, q \in g.paths : p.id = q.id => p = q
    <3> TAKE p, q \in g.paths
    <3>1. PICK x \in applied, y \in applied : p = PathOf(x, caps) /\ q = PathOf(y, caps)
      BY <2>1
    <3>2. x.id = y.id => x = y
      BY DEF PathRules
    <3> QED BY <2>2, <3>1, <3>2
  <2>4. {n.capability : n \in g.nodes} \subseteq ids /\ UNION {n.tools : n \in g.nodes} \subseteq names
    <3> DEFINE risk(i) == Max({c.risk : c \in With(caps, {i})})
               of(i) == {c.tool : c \in With(caps, {i})}
    <3>1. g.nodes = {[capability |-> i, tools |-> of(i), risk |-> risk(i)] : i \in ids}
      BY <2>1
    <3>2. \A i : of(i) \subseteq names
      BY <1>4 DEF With
    <3> HIDE DEF risk, of, ids, names
    <3>3. \A n \in g.nodes : n.capability \in ids /\ n.tools \subseteq names
      BY <3>1, <3>2
    <3> QED BY <3>3
  <2>5. UNION {ToSet(e) : e \in g.edges} \subseteq ids
    BY <2>1
  <2>6. UNION {ToSet(p.capabilities) : p \in g.paths} \subseteq ids /\ UNION {p.tools : p \in g.paths} \subseteq names
    BY <2>1, <2>2
  <2> HIDE DEF applied, ids, names
  <2>7. /\ Known(s, {n.capability : n \in g.nodes}, UNION {n.tools : n \in g.nodes})
        /\ Known(s, UNION {ToSet(e) : e \in g.edges}, {})
        /\ Known(s, UNION {ToSet(p.capabilities) : p \in g.paths}, UNION {p.tools : p \in g.paths})
    BY <1>3, <2>4, <2>5, <2>6
  <2> QED BY <1>0, <2>3, <2>7 DEF GraphAgrees, g
<1>8. FindingsAgree(s)
  <2> DEFINE F == FindingsOf(caps, r.policy)
  <2>1. \A f \in F : f.cap \in ids \cup {None} /\ f.tool \in {c.tool : c \in caps} \cup {None}
    BY <1>2, FindingsAbout
  <2> HIDE DEF F
  <2>2. {f.cap : f \in F} \ {None} \subseteq ids /\ {f.tool : f \in F} \ {None} \subseteq names
    BY <1>4, <2>1
  <2> HIDE DEF ids, names
  <2>3. Known(s, {f.cap : f \in F} \ {None}, {f.tool : f \in F} \ {None})
    BY <1>3, <2>2
  <2>4. s["findings"] = F /\ s["severity"] = MaxSeverity(F)
    BY <1>0 DEF F
  <2> QED BY <2>3, <2>4 DEF FindingsAgree
<1> QED BY <1>5, <1>6, <1>7, <1>8 DEF Consistent, s

\* What a scan builds is a projection unless a schema holds what JSON does not.
LEMMA BuiltIsProjection ==
    ASSUME NEW r, Built(r), \A t \in r.tools : \A n \in ToSet(t.schema) : IsJson(n) PROVE IsProjection(r)
<1>1. {c.tool : c \in r.caps} \subseteq {t.name : t \in r.tools}
  BY CapabilitiesOfTools DEF Built
<1>2. r.caps = Reconciled(InferCapabilities(r.tools)) /\ r.graph = Graph(r.caps)
  BY DEF Built
<1>3. Consistent(Payload(r))
  BY BuiltIsConsistent
<1> QED BY <1>1, <1>2, <1>3 DEF IsProjection

\* Every scope is of one of three kinds.
LEMMA ScopesHaveKinds ==
    ASSUME NEW i, NEW text, NEW nodes
    PROVE  ScopeForCapability(i, text, nodes).kind \in {"restricted", "broad", "unknown"}
<1>1. \A e, d, f : ScopeFrom(e, d, f).kind \in {"restricted", "broad", "unknown"}
  BY DEF ScopeFrom, ScopeOf
<1>2. \A k, v, r : ScopeOf(k, v, r).kind = k
  BY DEF ScopeOf
<1> QED BY <1>1, <1>2 DEF ScopeForCapability, FilesystemScope, NetworkScope

\* What a scan builds has strings for the confidence and the kind of scope of its records.
LEMMA BuiltIsHashable == ASSUME NEW r, Built(r) PROVE Hashable(Payload(r))
<1> DEFINE old == InferCapabilities(r.tools)
<1>1. Keyed(old) /\ r.caps = Reconciled(old)
  BY InferenceOf DEF Keyed, Built
<1>2. ASSUME NEW o \in old PROVE o.confidence \in Confidence /\ o.scope.kind \in ScopeKind
  <2>1. PICK t \in r.tools : \E s : o \in Inferred(t, s)
    BY DEF InferCapabilities
  <2>2. o.confidence \in {"low", "medium"} /\ o.scope = ScopeForCapability(o.id, t.text, t.schema)
    BY <2>1 DEF Inferred
  <2> QED BY <2>2, ScopesHaveKinds DEF Confidence, ScopeKind
<1> HIDE DEF old
<1>3. ASSUME NEW c \in r.caps PROVE c.confidence \in Confidence /\ c.scope.kind \in ScopeKind
  <2>1. PICK o \in old : c = Rescoped(old, o)
    BY <1>1, ReconciledOf
  <2>2. c.confidence = o.confidence
    BY <1>1, <2>1, ReconciledOf DEF CapField
  <2>3. c.scope = o.scope \/ \E S : c.scope = MergedScope(S)
    <3>1. \A s : [o EXCEPT !.scope = s].scope = s
      BY <1>1 DEF Keyed, CapField
    <3> QED BY <2>1, <3>1 DEF Rescoped
  <2>4. \A S : MergedScope(S).kind \in ScopeKind
    BY DEF MergedScope, ScopeOf, ScopeKind
  <2> QED BY <1>2, <2>2, <2>3, <2>4
<1>4. Payload(r)["records"] = r.caps
  BY DEF Payload
<1> QED BY <1>3, <1>4, SnapshotsAssumption DEF Hashable

\* Tools found are one of a name in a file.
LEMMA GroupedOf == ASSUME NEW f \in Seq(ToolRecord) PROVE OneToolPerFile(Grouped(f))
<1>1. PICK n \in Nat : n = Len(f) /\ DOMAIN f = 1..n
  BY LenProperties
<1> DEFINE to(j) == Merged(f, SameTool(f, j))
<1>2. \A j \in 1..n : /\ SameTool(f, j) \in SUBSET (1..Len(f)) /\ j \in SameTool(f, j)
                      /\ \A k \in SameTool(f, j) : f[k].name = f[j].name /\ f[k].source = f[j].source
  BY <1>1 DEF SameTool
<1>4. ASSUME NEW j \in 1..n
      PROVE  to(j) \in ToolRecord /\ to(j).name = f[j].name /\ to(j).source = f[j].source
  <2>1. PICK K : K = SameTool(f, j)
    OBVIOUS
  <2>2. K \in SUBSET (1..Len(f)) /\ j \in K
        /\ \A k \in K : f[k].name = f[j].name /\ f[k].source = f[j].source
    BY <1>2, <2>1
  <2>3. Merged(f, K) \in ToolRecord /\ Merged(f, K).name = f[j].name /\ Merged(f, K).source = f[j].source
    BY <2>2, MergedOf
  <2> QED BY <2>1, <2>3
<1>5. Grouped(f) = {to(j) : j \in 1..n}
  BY <1>1 DEF Grouped
<1>6. IsFiniteSet(Grouped(f))
  <2> DEFINE g == [j \in 1..n |-> to(j)]
  <2>1. DOMAIN g = 1..n /\ {g[j] : j \in 1..n} = Grouped(f)
    BY <1>5
  <2> HIDE DEF g
  <2>2. IsFiniteSet(1..n)
    BY FS_Interval
  <2>3. IsFiniteSet({g[j] : j \in 1..n})
    BY <2>1, <2>2, ValuesAreFinite
  <2> QED BY <2>1, <2>3
<1>7. ASSUME NEW t \in Grouped(f), NEW u \in Grouped(f), t.name = u.name, t.source = u.source PROVE t = u
  <2> HIDE DEF to
  <2>1. PICK j \in 1..n, k \in 1..n : t = to(j) /\ u = to(k)
    BY <1>5
  <2>2. f[j].name = f[k].name /\ f[j].source = f[k].source
    BY <1>4, <1>7, <2>1
  <2>3. SameTool(f, j) = SameTool(f, k)
    BY <2>2 DEF SameTool
  <2> QED BY <2>1, <2>3 DEF to
<1> HIDE DEF to
<1> QED BY <1>4, <1>5, <1>6, <1>7 DEF OneToolPerFile

----------------------------------------------------------------------------
(* What scan has built at each of its steps *)

\* Once the policy is loaded it says what to do with an unknown scope.
LEMMA PolicyStaysDecided == ASSUME Decided(policy), [Next]_vars PROVE Decided(policy')
<1>1. CASE CheckPolicy /\ Valid(raw)
  <2>1. policy' = PolicyOf(raw)
    BY <1>1 DEF CheckPolicy
  <2>2. Get(raw, "unknown_scope", "review") \in {"deny", "review", "ignore"}
    BY <1>1, Zenon DEF Valid, ValidWith
  <2>3. PolicyOf(raw).unknown = Get(raw, "unknown_scope", "review")
    BY DEF PolicyOf
  <2> QED BY <2>1, <2>2, <2>3 DEF Decided
<1>2. CASE ~(CheckPolicy /\ Valid(raw))
  <2>1. policy' = policy
    <3>1. CASE LoadPolicy
      BY <1>2, <3>1 DEF LoadPolicy, BeginLoad, Enter, ReadPolicy, ReadWithin, Inherit, ReturnPolicy, CheckPolicy,
                        RejectPolicy
    <3>2. CASE UNCHANGED loadVars
      BY <3>2 DEF loadVars
    <3> QED BY <3>1, <3>2, OnlyLoadingLoads
  <2> QED BY <2>1
<1> QED BY <1>1, <1>2

\* The tools and capabilities of a scan, as its steps leave them.
Inferring ==
    /\ OneToolPerFile(result.tools)
    /\ scan = "reconciling" => result.caps = InferCapabilities(result.tools)
    /\ scan \in {"drawing", "loading"} => result.caps = Reconciled(InferCapabilities(result.tools))
    /\ scan = "loading" => result.graph = Graph(result.caps)

BuildInv ==
    /\ DOMAIN result = Part /\ Decided(policy)
    /\ scan \in {"discovering", "reconciling", "drawing"} => loading = "start"
    /\ scan \in {"reconciling", "drawing", "loading"} => Inferring
    /\ scan = "sealing" => Built(result)
    /\ scan = "rejected" /\ loading = "loaded" => Built(result) /\ ~IsProjection(result)
    /\ scan \in Sealed => Built(seal)
    /\ scan = "unwritten" => result # seal
    /\ scan \in {"written", "refused", "crashed", "compared"} => result = seal
    /\ scan = "refused" => ~Accepts(BaseFile) \/ ~Accepts(file)

\* Nothing is built when a scan starts.
LEMMA BuildStarts == ASSUME Init PROVE BuildInv
<1>1. scan = "discovering" /\ loading = "start" /\ result = NoResult /\ policy = DefaultPolicy
  BY DEF Init, LoadInit
<1>2. DOMAIN NoResult = Part /\ Decided(DefaultPolicy)
  BY DEF NoResult, Part, Decided, DefaultPolicy
<1> QED BY <1>1, <1>2 DEF BuildInv, Sealed

\* A step that leaves the result and what is made of it alone.
LEMMA BuildStays ==
    ASSUME BuildInv, Decided(policy'), UNCHANGED <<input, scan, result, seal, file>>,
           loading' = loading \/ scan = "loading"
    PROVE  BuildInv'
BY DEF BuildInv, Inferring, BaseFile, Sealed

\* Every step of scan builds on what the steps before built.
LEMMA BuildInductive == ASSUME BuildInv, DiscoveryInv, ArtifactInv, [Next]_vars PROVE BuildInv'
<1>0. Decided(policy')
  BY PolicyStaysDecided DEF BuildInv
<1>1. CASE Discovering
  BY <1>0, <1>1, BuildStays DEF Discovering, pipelineVars, loadVars
<1>2. CASE Infer
  <2>1. CASE discovery = "failed"
    <3>1. scan' = "rejected" /\ loading' = "start" /\ result' = result
      BY <1>2, <2>1 DEF Infer, loadVars, BuildInv
    <3> QED BY <1>0, <3>1 DEF BuildInv, Sealed
  <2>2. CASE discovery = "found"
    <3>1. /\ scan' = "reconciling" /\ loading' = "start"
          /\ result' = [result EXCEPT !.tools = tools, !.caps = InferCapabilities(tools)]
      BY <1>2, <2>2 DEF Infer, loadVars, BuildInv
    <3>2. tools = Grouped(found) /\ found \in Seq(ToolRecord)
      BY <2>2 DEF DiscoveryInv, FoundInv, WalkInv
    <3>3. OneToolPerFile(tools)
      BY <3>2, GroupedOf
    <3>4. DOMAIN result' = Part /\ result'.tools = tools /\ result'.caps = InferCapabilities(tools)
      BY <3>1 DEF BuildInv, Part
    <3> QED BY <1>0, <3>1, <3>3, <3>4 DEF BuildInv, Inferring, Sealed
  <2> QED BY <1>2, <2>1, <2>2 DEF Infer
<1>3. CASE Reconcile
  <2>1. /\ scan = "reconciling" /\ scan' = "drawing" /\ loading' = loading
        /\ result' = [result EXCEPT !.caps = Reconciled(result.caps)]
    BY <1>3 DEF Reconcile, loadVars
  <2>2. DOMAIN result' = Part /\ result'.tools = result.tools /\ result'.caps = Reconciled(result.caps)
    BY <2>1 DEF BuildInv, Part
  <2> QED BY <1>0, <2>1, <2>2 DEF BuildInv, Inferring, Sealed
<1>4. CASE DrawGraph
  <2>1. /\ scan = "drawing" /\ scan' = "loading" /\ loading' = loading
        /\ result' = [result EXCEPT !.graph = Graph(result.caps)]
    BY <1>4 DEF DrawGraph, loadVars
  <2>2. /\ DOMAIN result' = Part /\ result'.tools = result.tools /\ result'.caps = result.caps
        /\ result'.graph = Graph(result.caps)
    BY <2>1 DEF BuildInv, Part
  <2> QED BY <1>0, <2>1, <2>2 DEF BuildInv, Inferring, Sealed
<1>5. CASE Loading
  <2>1. scan = "loading" /\ UNCHANGED <<input, scan, result, seal, file>>
    BY <1>5 DEF Loading, pipelineVars
  <2> QED BY <1>0, <2>1, BuildStays
<1>6. CASE Evaluate
  <2>1. CASE loading = "failed"
    <3>1. scan' = "rejected" /\ loading' = "failed" /\ result' = result
      BY <1>6, <2>1 DEF Evaluate, loadVars
    <3> QED BY <1>0, <3>1 DEF BuildInv, Sealed
  <2>2. CASE loading # "failed"
    <3>1. /\ scan = "loading" /\ scan' = "sealing"
          /\ result' = [result EXCEPT !.policy = policy, !.findings = FindingsOf(result.caps, policy)]
      BY <1>6, <2>2 DEF Evaluate
    <3>2. /\ DOMAIN result' = Part /\ result'.tools = result.tools /\ result'.caps = result.caps
          /\ result'.graph = result.graph /\ result'.policy = policy
          /\ result'.findings = FindingsOf(result.caps, policy)
      BY <3>1 DEF BuildInv, Part
    <3>3. Built(result')
      BY <3>1, <3>2 DEF BuildInv, Inferring, Built
    <3> QED BY <1>0, <3>1, <3>2, <3>3 DEF BuildInv, Sealed
  <2> QED BY <2>1, <2>2
<1>7. CASE Seal
  <2>1. scan = "sealing" /\ Built(result) /\ UNCHANGED <<result, input, file>>
    BY <1>7 DEF Seal, BuildInv
  <2>2. CASE IsProjection(result)
    BY <1>0, <1>7, <2>1, <2>2 DEF Seal, BuildInv, Sealed
  <2>3. CASE ~IsProjection(result)
    <3>1. scan' = "rejected" /\ ~IsProjection(result')
      BY <1>7, <2>1, <2>3 DEF Seal
    <3> QED BY <1>0, <2>1, <3>1 DEF BuildInv, Sealed
  <2> QED BY <2>2, <2>3
<1>8. CASE WriteSnapshot
  <2>1. /\ scan = "sealed" /\ UNCHANGED <<result, seal>>
        /\ \/ scan' = "written" /\ result = seal
           \/ scan' = "unwritten" /\ ~(IsProjection(result) /\ result = seal)
    BY <1>8 DEF WriteSnapshot, WriteIf
  <2>2. IsProjection(seal)
    BY <2>1 DEF ArtifactInv, Sealed
  <2>3. scan' = "unwritten" => result # seal
    BY <2>1, <2>2
  <2> QED BY <1>0, <2>1, <2>3 DEF BuildInv, Sealed
<1>9. CASE Compare
  <2>1. /\ scan = "written" /\ UNCHANGED <<result, seal, file, input>>
        /\ \/ scan' = "refused" /\ (~Accepts(BaseFile) \/ ~Accepts(file))
           \/ scan' \in {"crashed", "compared"}
    BY <1>9 DEF Compare
  <2> QED BY <1>0, <2>1 DEF BuildInv, Sealed, BaseFile
<1>10. ASSUME NEW part \in Part, Tamper(part) PROVE BuildInv'
  <2>1. scan = "sealed" /\ scan' = "sealed" /\ seal' = seal /\ DOMAIN result' = DOMAIN result
    BY <1>10 DEF Tamper
  <2> QED BY <1>0, <2>1 DEF BuildInv, Sealed
<1>11. ASSUME scan = "written", UNCHANGED <<input, scan, result, seal>> PROVE BuildInv'
  BY <1>0, <1>11 DEF BuildInv, Sealed
<1>12. CASE UNCHANGED <<loadVars, pipelineVars>>
  BY <1>0, <1>12, BuildStays DEF loadVars, pipelineVars
<1>13. CASE Environment
  BY <1>10, <1>11, <1>12, <1>13 DEF Environment, EditFile, ReplaceFile
<1>14. CASE UNCHANGED vars
  BY <1>12, <1>14 DEF vars
<1> QED BY <1>1, <1>2, <1>3, <1>4, <1>5, <1>6, <1>7, <1>8, <1>9, <1>13, <1>14 DEF Next, Program

\* A snapshot holds a proper value in every field that was sealed; neither JSON null nor a
\* value of the wrong shape is one.
ProperSeal == scan \in Sealed => \A f \in Field : Payload(seal)[f] \notin {JsonNull, Misshapen}

\* What was inferred, reconciled, drawn and found at one step after the other is sealed,
\* unless a schema is no JSON data; what is sealed is written exactly if nobody changed
\* it, and is accepted within the limits.
THEOREM SealHoldsAlways == Spec => [](ProperSeal => SealHolds)
<1>1. Init => BuildInv
  BY BuildStarts
<1>2. BuildInv /\ DiscoveryInv /\ ArtifactInv /\ [Next]_vars => BuildInv'
  BY BuildInductive
<1>3. BuildInv /\ ArtifactInv => (ProperSeal => SealHolds)
  <2> SUFFICES ASSUME BuildInv, ArtifactInv, ProperSeal PROVE SealHolds
    OBVIOUS
  <2>1. scan = "rejected" /\ loading = "loaded" =>
            \E t \in result.tools : \E n \in ToSet(t.schema) : ~IsJson(n)
    BY BuiltIsProjection DEF BuildInv
  <2>2. scan = "unwritten" => result # seal
    BY DEF BuildInv
  <2>3. scan \in {"written", "refused", "crashed", "compared"} => result = seal
    BY DEF BuildInv
  <2>4. ASSUME scan = "refused", edit = None
        PROVE  \E s \in {Payload(seal), input.base} : Size(s) > MaxSnapshotSize
    <3> DEFINE own == Payload(seal)
               base == input.base
    <3>1. file = [kind |-> "text", snapshot |-> own]
      BY <2>4 DEF ArtifactInv, FileHolds
    <3>2. IsProjection(seal) /\ Built(seal)
      BY <2>4 DEF ArtifactInv, BuildInv, Sealed
    <3>3. Consistent(own)
      BY <3>2 DEF IsProjection
    <3>4. DOMAIN own = Field /\ \A f \in Field : own[f] # JsonNull /\ own[f] # Misshapen
      BY <2>4, PayloadFields DEF ProperSeal, Sealed
    <3>5. own["fingerprint"] = own["capabilities"] /\ own["records"] = seal.caps
      BY DEF Payload
    <3>6. IsFiniteSet(seal.caps)
      BY <3>2, CapabilitiesOfTools DEF Built
    <3>7. WellFormed(base) /\ Hashable(base) /\ Consistent(base) /\ IsFiniteSet(base["records"])
      BY PipelineAssumption DEF ArtifactInv, ScanType
    <3>8. BaseFile = [kind |-> "text", snapshot |-> base] /\ Hashable(own)
      BY <3>2, BuiltIsHashable DEF BaseFile
    <3> HIDE DEF own, base
    <3>9. WellFormed(own)
      BY <3>4, <3>5 DEF WellFormed, WellShaped, Given, Has, Stored, Field
    <3>10. Accepts(file) <=> Size(own) <= MaxSnapshotSize
      BY <3>1, <3>3, <3>8, <3>9 DEF Accepts, Opens
    <3>11. Accepts(BaseFile) <=> Size(base) <= MaxSnapshotSize
      BY <3>7, <3>8 DEF Accepts, Opens
    <3>12. Size(own) \in Nat /\ Size(base) \in Nat
      BY <3>5, <3>6, <3>7, FS_CardinalityType DEF Size
    <3>13. ~Accepts(BaseFile) \/ ~Accepts(file)
      BY <2>4 DEF BuildInv
    <3>14. Size(own) > MaxSnapshotSize \/ Size(base) > MaxSnapshotSize
      BY <3>10, <3>11, <3>12, <3>13, SnapshotsAssumption
    <3> QED BY <3>14 DEF own, base
  <2> QED BY <2>1, <2>2, <2>3, <2>4 DEF SealHolds
<1> QED BY <1>1, <1>2, <1>3, DiscoveryInvAlways, ArtifactAlways, SpecIsSafe, PTL

----------------------------------------------------------------------------
(* The walks over schemas that bounds are proved by *)

\* The keywords of an object lead to objects.
LEMMA KeywordsTyped ==
    ASSUME NEW n \in SchemaNode, NEW k, k = Schema[n]
    PROVE  /\ ToSet(k.allOf) \subseteq Branch /\ ToSet(k.anyOf) \subseteq Branch /\ ToSet(k.oneOf) \subseteq Branch
           /\ {k.items, k.if, k.then, k.else, k.not} \subseteq Branch
           /\ \A p \in ToSet(k.properties) \cup ToSet(k.other) : p[2] \in Branch
           /\ k.literals \subseteq Literal /\ {k.conditional, k.list} \subseteq BOOLEAN
           /\ DecidingBranches(k) \subseteq Branch /\ DecidingBranches(k) # {}
<1>1. k \in SchemaType
  BY SchemaAssumption
<1>2. /\ k.allOf \in Seq(Branch) /\ k.anyOf \in Seq(Branch) /\ k.oneOf \in Seq(Branch)
      /\ k.properties \in Seq(STRING \X Branch) /\ {k.items, k.if, k.then, k.else, k.not} \subseteq Branch
      /\ k.literals \subseteq Literal /\ {k.conditional, k.list} \subseteq BOOLEAN
      /\ k.other \in Seq((STRING \cup {None}) \X Branch)
  BY <1>1 DEF SchemaType
<1>3. ToSet(k.allOf) \subseteq Branch /\ ToSet(k.anyOf) \subseteq Branch /\ ToSet(k.oneOf) \subseteq Branch
      /\ ToSet(k.properties) \subseteq STRING \X Branch /\ ToSet(k.other) \subseteq (STRING \cup {None}) \X Branch
  BY <1>2, MembersOf
<1>4. DecidingBranches(k) \subseteq Branch
  BY <1>2, <1>3 DEF DecidingBranches, Branch
<1>5. \A s \in Seq(Branch) : s # <<>> => ToSet(s) # {}
  <2> TAKE s \in Seq(Branch)
  <2> HAVE s # <<>>
  <2>1. Len(s) \in Nat /\ Len(s) # 0
    BY EmptySeq, LenProperties
  <2>2. s[1] \in {s[j] : j \in 1..Len(s)}
    BY <2>1
  <2>3. ToSet(s) = {s[j] : j \in 1..Len(s)}
    BY MembersOf
  <2> QED BY <2>2, <2>3
<1>6. DecidingBranches(k) # {}
  BY <1>2, <1>5 DEF DecidingBranches
<1> QED BY <1>2, <1>3, <1>4, <1>6

\* The objects that are not on the way yet.
VisitsLeft == [v \in Visits |-> Cardinality(SchemaNode \ v[2])]
VisitBelow == LexBelow(Visits, VisitsLeft, [v \in Visits |-> 0])

\* What is left to visit is counted.
LEMMA VisitsLeftIsNat == VisitsLeft \in [Visits -> Nat]
<1>1. \A S : Cardinality(SchemaNode \ S) \in Nat
  BY SchemaAssumption, FS_Subset, FS_CardinalityType
<1> QED BY <1>1 DEF VisitsLeft

\* Walks from an object to one below it end.
LEMMA VisitsEnd ==
    /\ IsWellFoundedOn(VisitBelow, Visits)
    /\ \A n \in SchemaNode : \A A \in SUBSET SchemaNode : \A b \in Branch :
          n \notin A => /\ <<b, A \cup {n}>> \in Visits /\ <<n, A>> \in Visits
                        /\ <<<<b, A \cup {n}>>, <<n, A>>>> \in VisitBelow
<1>1. \A S : IsFiniteSet(SchemaNode \ S) /\ Cardinality(SchemaNode \ S) \in Nat
  BY SchemaAssumption, FS_Subset, FS_CardinalityType
<1>2. VisitsLeft \in [Visits -> Nat]
  BY VisitsLeftIsNat
<1>3. [v \in Visits |-> 0] \in [Visits -> Nat]
  OBVIOUS
<1>4. IsWellFoundedOn(VisitBelow, Visits)
  BY <1>2, <1>3, LexIsWellFounded DEF VisitBelow
<1>5. ASSUME NEW n \in SchemaNode, NEW A \in SUBSET SchemaNode, NEW b \in Branch, n \notin A
      PROVE  /\ <<b, A \cup {n}>> \in Visits /\ <<n, A>> \in Visits
             /\ <<<<b, A \cup {n}>>, <<n, A>>>> \in VisitBelow
  <2>1. PICK x \in Visits, y \in Visits : x = <<b, A \cup {n}>> /\ y = <<n, A>>
    BY DEF Visits, Branch
  <2>2. VisitsLeft[x] < VisitsLeft[y]
    <3>1. VisitsLeft[x] = Cardinality(SchemaNode \ (A \cup {n})) /\ VisitsLeft[y] = Cardinality(SchemaNode \ A)
      BY <2>1 DEF VisitsLeft
    <3>2. (SchemaNode \ A) \ {n} = SchemaNode \ (A \cup {n}) /\ n \in SchemaNode \ A
      BY <1>5
    <3>3. Cardinality((SchemaNode \ A) \ {n}) = Cardinality(SchemaNode \ A) - 1
      BY <1>1, <3>2, FS_RemoveElement
    <3>4. Cardinality(SchemaNode \ (A \cup {n})) = Cardinality(SchemaNode \ A) - 1
      BY <3>2, <3>3
    <3>5. Cardinality(SchemaNode \ A) \in Nat
      BY <1>1
    <3>6. PICK m \in Nat : m = Cardinality(SchemaNode \ A)
      BY <3>5
    <3>7. VisitsLeft[y] = m /\ VisitsLeft[x] = m - 1
      BY <3>1, <3>4, <3>6
    <3> QED BY <3>7
  <2>3. <<x, y>> \in VisitBelow
    BY <2>2 DEF VisitBelow, LexBelow
  <2> QED BY <2>1, <2>3
<1> QED BY <1>4, <1>5

\* What the values of a property prove, given what the objects below do.
ValueFrom(k, of) ==
    LET hard == k.literals \cup (UNION {of[b].values : b \in ToSet(k.allOf)})
                           \cup (IF k.items = None THEN {} ELSE of[k.items].values)
    IN  IF hard # {} THEN Proven(hard) ELSE AlternativesOf({of[b] : b \in DecidingBranches(k)})

OfBranches(g, n, active) == [b \in Branch |-> g[<<b, active \cup {n}>>]]

ValueStep(g, v) ==
    IF v[1] = None \/ v[1] \in v[2] THEN Unproven
    ELSE ValueFrom(Schema[v[1]], OfBranches(g, v[1], v[2]))

\* What ValueEvidence is at v, if it is g below.
ValueBody(g, v) ==
    LET n == v[1]
        active == v[2]
        k == Schema[n]
        of(b) == g[<<b, active \cup {n}>>]
        hard == k.literals \cup (UNION {of(b).values : b \in ToSet(k.allOf)})
                           \cup (IF k.items = None THEN {} ELSE of(k.items).values)
    IN  IF n = None \/ n \in active THEN Unproven
        ELSE IF hard # {} THEN Proven(hard) ELSE AlternativesOf({of(b) : b \in DecidingBranches(k)})

\* It looks at the objects below only.
LEMMA ValueLooksBelow == ASSUME NEW g, NEW v \in Visits PROVE ValueBody(g, v) = ValueStep(g, v)
<1>1. CASE v[1] = None \/ v[1] \in v[2]
  BY <1>1 DEF ValueStep, ValueBody
<1>2. CASE ~(v[1] = None \/ v[1] \in v[2])
  <2>0. PICK k : k = Schema[v[1]]
    OBVIOUS
  <2>1. PICK n \in SchemaNode : n = v[1] /\ k = Schema[n]
    BY <1>2, <2>0 DEF Visits, Branch
  <2> DEFINE of(b) == g[<<b, v[2] \cup {n}>>]
             f == OfBranches(g, n, v[2])
  <2>2. \A b \in Branch : of(b) = f[b]
    BY DEF OfBranches
  <2>3. ToSet(k.allOf) \subseteq Branch /\ k.items \in Branch /\ DecidingBranches(k) \subseteq Branch
    BY <2>1, KeywordsTyped
  <2> HIDE DEF of, f
  <2>4. {of(b).values : b \in ToSet(k.allOf)} = {f[b].values : b \in ToSet(k.allOf)}
    BY <2>2, <2>3
  <2>5. {of(b) : b \in DecidingBranches(k)} = {f[b] : b \in DecidingBranches(k)}
    BY <2>2, <2>3
  <2>6. of(k.items) = f[k.items]
    BY <2>2, <2>3
  <2>7. ValueStep(g, v) = ValueFrom(k, f)
    BY <1>2, <2>1 DEF ValueStep, f
  <2>8. ValueFrom(k, f) =
           LET hard == k.literals \cup (UNION {of(b).values : b \in ToSet(k.allOf)})
                                \cup (IF k.items = None THEN {} ELSE of(k.items).values)
           IN  IF hard # {} THEN Proven(hard) ELSE AlternativesOf({of(b) : b \in DecidingBranches(k)})
    BY <2>4, <2>5, <2>6 DEF ValueFrom
  <2> QED BY <1>2, <2>1, <2>7, <2>8 DEF of, ValueBody
<1> QED BY <1>1, <1>2

\* What a property's schema proves: values, or that it may be anything.
Bound == {e \in [values : SUBSET Literal, mentioned : BOOLEAN, ambiguous : BOOLEAN] :
             e.mentioned /\ (e.ambiguous <=> e.values = {})}

\* What the values of a property prove is a bound.
LEMMA ValueIsBound ==
    ASSUME NEW n \in SchemaNode, NEW of \in [Branch -> Bound] PROVE ValueFrom(Schema[n], of) \in Bound
<1> DEFINE k == Schema[n]
           hard == k.literals \cup (UNION {of[b].values : b \in ToSet(k.allOf)})
                              \cup (IF k.items = None THEN {} ELSE of[k.items].values)
           E == {of[b] : b \in DecidingBranches(k)}
<1>1. /\ ToSet(k.allOf) \subseteq Branch /\ k.items \in Branch /\ k.literals \subseteq Literal
      /\ DecidingBranches(k) \subseteq Branch /\ DecidingBranches(k) # {}
  BY KeywordsTyped
<1>2. \A b \in Branch : of[b].values \subseteq Literal
  BY DEF Bound
<1> HIDE DEF k
<1>3. hard \subseteq Literal
  BY <1>1, <1>2
<1>4. E \subseteq Bound /\ E # {}
  BY <1>1
<1> HIDE DEF hard, E
<1>5. hard # {} => Proven(hard) \in Bound
  BY <1>3 DEF Proven, Bound
<1>6. AlternativesOf(E) \in Bound
  <2>1. \A e \in E : e.mentioned /\ e.values \subseteq Literal
    BY <1>4 DEF Bound
  <2>2. ValuesOf(E) \subseteq Literal
    BY <2>1 DEF ValuesOf
  <2>3. PICK e \in E : TRUE
    BY <1>4
  <2>4. CASE \A x \in E : x.values # {} /\ ~x.ambiguous
    <3>1. ValuesOf(E) # {}
      BY <2>3, <2>4 DEF ValuesOf
    <3>2. AlternativesOf(E) = Proven(ValuesOf(E))
      BY <2>1, <2>3, <2>4 DEF AlternativesOf
    <3> QED BY <2>2, <3>1, <3>2 DEF Proven, Bound
  <2>5. CASE ~\A x \in E : x.values # {} /\ ~x.ambiguous
    <3>1. AlternativesOf(E) = Unproven
      BY <2>1, <2>3, <2>5 DEF AlternativesOf
    <3> QED BY <3>1 DEF Unproven, Bound
  <2> QED BY <2>4, <2>5
<1> QED BY <1>5, <1>6 DEF ValueFrom, hard, E, k

\* The branches below an object are below its place in the walk.
LEMMA BranchesBelow ==
    ASSUME NEW v \in Visits, v[1] # None, v[1] \notin v[2]
    PROVE  /\ v[1] \in SchemaNode /\ v = <<v[1], v[2]>>
           /\ \A b \in Branch : /\ <<b, v[2] \cup {v[1]}>> \in Visits
                                /\ <<<<b, v[2] \cup {v[1]}>>, v>> \in VisitBelow
<1>1. PICK n \in SchemaNode, A \in SUBSET SchemaNode : v = <<n, A>>
  BY DEF Visits, Branch
<1> QED BY <1>1, VisitsEnd

\* The evidence for a property is defined, and a bound.
LEMMA ValueEvidenceIs ==
    \A v \in Visits : ValueEvidence[v] = ValueStep(ValueEvidence, v) /\ ValueEvidence[v] \in Bound
<1> DEFINE F == [Visits -> Bound]
           step == [p \in F \X Visits |-> ValueStep(p[1], p[2])]
<1>1. IsWellFoundedOn(VisitBelow, Visits)
  BY VisitsEnd
<1>0. Unproven \in Bound
  BY DEF Unproven, Bound
<1>2. ASSUME NEW g, NEW v \in Visits, \A w \in Visits : <<w, v>> \in VisitBelow => g[w] \in Bound
      PROVE  ValueStep(g, v) \in Bound
  <2>1. CASE v[1] = None \/ v[1] \in v[2]
    BY <1>0, <2>1 DEF ValueStep
  <2>2. CASE ~(v[1] = None \/ v[1] \in v[2])
    <3>1. OfBranches(g, v[1], v[2]) \in [Branch -> Bound] /\ v[1] \in SchemaNode
      BY <1>2, <2>2, BranchesBelow DEF OfBranches
    <3> QED BY <2>2, <3>1, ValueIsBound DEF ValueStep
  <2> QED BY <2>1, <2>2
<1>3. ASSUME NEW g, NEW h, NEW v \in Visits, \A w \in Visits : <<w, v>> \in VisitBelow => g[w] = h[w]
      PROVE  ValueStep(g, v) = ValueStep(h, v)
  <2>1. CASE v[1] = None \/ v[1] \in v[2]
    BY <2>1 DEF ValueStep
  <2>2. CASE ~(v[1] = None \/ v[1] \in v[2])
    <3>1. OfBranches(g, v[1], v[2]) = OfBranches(h, v[1], v[2])
      BY <1>3, <2>2, BranchesBelow DEF OfBranches
    <3> QED BY <2>2, <3>1 DEF ValueStep
  <2> QED BY <2>1, <2>2
<1>4. \A g \in F : \A v \in Visits : step[<<g, v>>] = ValueStep(g, v)
  <2> TAKE g \in F
  <2> TAKE v \in Visits
  <2>1. <<g, v>> \in F \X Visits
    OBVIOUS
  <2> HIDE DEF F
  <2> QED BY <2>1
<1>5. \A g \in F : \A v \in Visits : ValueStep(g, v) \in Bound
  BY <1>2
<1>6. step \in [F \X Visits -> Bound]
  <2> HIDE DEF F
  <2> QED BY <1>5
<1>7. Local(step, VisitBelow, Visits, Bound)
  <2> HIDE DEF step
  <2> QED BY <1>3, <1>4 DEF Local
<1>8. Recursion(step, VisitBelow, Visits, Bound)
  BY <1>0, <1>1, <1>6, <1>7 DEF Recursion
<1>9. PICK g \in F : \A v \in Visits : g[v] = step[<<g, v>>]
  <2> HIDE DEF step
  <2> QED BY <1>8, RecursionIsDefined
<1> HIDE DEF step
<1>10. g = [v \in Visits |-> ValueBody(g, v)]
  BY <1>4, <1>9, ValueLooksBelow
<1>11. ValueEvidence = [v \in Visits |-> ValueBody(ValueEvidence, v)]
  <2>1. ValueEvidence = CHOOSE f : f = [v \in Visits |-> ValueBody(f, v)]
    BY Zenon DEF ValueEvidence, ValueBody
  <2> QED BY <1>10, <2>1
<1>12. \A v \in Visits : ValueEvidence[v] = ValueStep(ValueEvidence, v)
  <2> DEFINE m == ValueEvidence
  <2>1. m = [v \in Visits |-> ValueBody(m, v)]
    BY <1>11
  <2> HIDE DEF m
  <2>2. \A v \in Visits : m[v] = ValueStep(m, v)
    BY <2>1, ValueLooksBelow
  <2> QED BY <2>2 DEF m
<1> DEFINE P == {v \in Visits : ValueEvidence[v] \in Bound}
<1>13. \A v \in Visits : (\A w \in Visits : <<w, v>> \in VisitBelow => w \in P) => v \in P
  BY <1>2, <1>12
<1>14. Visits \subseteq P
  <2> HIDE DEF P
  <2> QED BY <1>1, <1>13, Descent
<1> QED BY <1>12, <1>14

\* What Admits is at v, if it is g below.
AdmitsBody(g, v) ==
    LET l == v[1]
        n == v[2][1]
        active == v[2][2]
        k == Schema[n]
        of(b) == g[<<l, <<b, active \cup {n}>>>>]
    IN  n = None \/ n \in active \/
        /\ k.literals # {} => l \in k.literals
        /\ \A b \in ToSet(k.allOf) : of(b)
        /\ k.anyOf # <<>> => \E b \in ToSet(k.anyOf) : of(b)
        /\ k.oneOf # <<>> => \E j \in DOMAIN k.oneOf : \A i \in DOMAIN k.oneOf : of(k.oneOf[i]) <=> i = j
        /\ k.list => \E b \in {k.items} \cup {p[2] : p \in Applied(k)} : of(b)
        /\ k.conditional => of(IF of(k.if) THEN k.then ELSE k.else)
        /\ k.not # None => ~of(k.not)

\* What an object admits, given what the objects below it do.
AdmitsFrom(k, l, of) ==
    /\ k.literals # {} => l \in k.literals
    /\ \A b \in ToSet(k.allOf) : of[b]
    /\ k.anyOf # <<>> => \E b \in ToSet(k.anyOf) : of[b]
    /\ k.oneOf # <<>> => \E j \in DOMAIN k.oneOf : \A i \in DOMAIN k.oneOf : of[k.oneOf[i]] <=> i = j
    /\ k.list => \E b \in {k.items} \cup {p[2] : p \in Applied(k)} : of[b]
    /\ k.conditional => of[IF of[k.if] THEN k.then ELSE k.else]
    /\ k.not # None => ~of[k.not]

AdmitsOf(g, l, w) == [b \in Branch |-> g[<<l, <<b, w[2] \cup {w[1]}>>>>]]

\* What is asked of the places of a walk, and the places below.
Asked(K) == K \X Visits
AskedBelow(K) == LexBelow(Asked(K), [p \in Asked(K) |-> VisitsLeft[p[2]]], [p \in Asked(K) |-> 0])

\* Asking the same of an object and of those below it ends.
LEMMA AskingEnds ==
    ASSUME NEW K
    PROVE  /\ IsWellFoundedOn(AskedBelow(K), Asked(K))
           /\ \A x \in K : \A w \in Visits : w[1] # None /\ w[1] \notin w[2] =>
                 \A b \in Branch : /\ <<x, <<b, w[2] \cup {w[1]}>>>> \in Asked(K)
                                   /\ <<<<x, <<b, w[2] \cup {w[1]}>>>>, <<x, w>>>> \in AskedBelow(K)
<1> DEFINE m == [p \in Asked(K) |-> VisitsLeft[p[2]]]
           z == [p \in Asked(K) |-> 0]
<1>1. VisitsLeft \in [Visits -> Nat]
  BY VisitsLeftIsNat
<1>2. m \in [Asked(K) -> Nat] /\ z \in [Asked(K) -> Nat]
  BY <1>1 DEF Asked
<1> HIDE DEF m, z
<1>3. IsWellFoundedOn(AskedBelow(K), Asked(K))
  BY <1>2, LexIsWellFounded DEF AskedBelow, m, z
<1>4. ASSUME NEW l \in K, NEW w \in Visits, w[1] # None, w[1] \notin w[2], NEW b \in Branch
      PROVE  /\ <<l, <<b, w[2] \cup {w[1]}>>>> \in Asked(K)
             /\ <<<<l, <<b, w[2] \cup {w[1]}>>>>, <<l, w>>>> \in AskedBelow(K)
  <2>1. PICK x \in Visits : x = <<b, w[2] \cup {w[1]}>>
    BY <1>4, BranchesBelow
  <2>2. <<x, w>> \in VisitBelow
    BY <1>4, <2>1, BranchesBelow
  <2>3. VisitsLeft[x] < VisitsLeft[w]
    BY <2>2, <1>1 DEF VisitBelow, LexBelow
  <2>4. <<l, x>> \in Asked(K) /\ <<l, w>> \in Asked(K)
    BY DEF Asked
  <2>5. m[<<l, x>>] = VisitsLeft[x] /\ m[<<l, w>>] = VisitsLeft[w]
    BY <2>4 DEF m
  <2>6. <<<<l, x>>, <<l, w>>>> \in LexBelow(Asked(K), m, z)
    BY <2>3, <2>4, <2>5 DEF LexBelow
  <2>7. <<<<l, x>>, <<l, w>>>> \in AskedBelow(K)
    BY <2>6 DEF AskedBelow, m, z
  <2> QED BY <2>1, <2>4, <2>7
<1> QED BY <1>3, <1>4

\* Admits looks at the objects below only.
LEMMA AdmitsLooksBelow ==
    ASSUME NEW g, NEW l \in Literal, NEW w \in Visits
    PROVE  AdmitsBody(g, <<l, w>>) <=> w[1] = None \/ w[1] \in w[2] \/ AdmitsFrom(Schema[w[1]], l, AdmitsOf(g, l, w))
<1>1. CASE w[1] = None \/ w[1] \in w[2]
  BY <1>1 DEF AdmitsBody
<1>2. CASE ~(w[1] = None \/ w[1] \in w[2])
  <2>0. PICK k : k = Schema[w[1]]
    OBVIOUS
  <2>1. PICK n \in SchemaNode : n = w[1] /\ k = Schema[n]
    BY <1>2, <2>0, BranchesBelow
  <2> DEFINE of(b) == g[<<l, <<b, w[2] \cup {w[1]}>>>>]
             f == AdmitsOf(g, l, w)
  <2>2. \A b \in Branch : of(b) = f[b]
    BY DEF AdmitsOf
  <2>3. /\ ToSet(k.allOf) \subseteq Branch /\ ToSet(k.anyOf) \subseteq Branch
        /\ {k.items, k.if, k.then, k.else, k.not} \subseteq Branch
        /\ \A j \in DOMAIN k.oneOf : k.oneOf[j] \in Branch
        /\ \A p \in Applied(k) : p[2] \in Branch
    <3>1. /\ ToSet(k.allOf) \subseteq Branch /\ ToSet(k.anyOf) \subseteq Branch /\ ToSet(k.oneOf) \subseteq Branch
          /\ {k.items, k.if, k.then, k.else, k.not} \subseteq Branch
      BY <2>1, KeywordsTyped
    <3>2. \A j \in DOMAIN k.oneOf : k.oneOf[j] \in ToSet(k.oneOf)
      BY DEF ToSet
    <3>3. \A p \in Applied(k) : p[2] \in Branch
      BY <2>1, KeywordsTyped DEF Applied
    <3> QED BY <3>1, <3>2, <3>3
  <2> HIDE DEF of, f
  <2>4. (IF of(k.if) THEN k.then ELSE k.else) = (IF f[k.if] THEN k.then ELSE k.else)
    BY <2>2, <2>3
  <2>5. (\E j \in DOMAIN k.oneOf : \A i \in DOMAIN k.oneOf : of(k.oneOf[i]) <=> i = j)
        <=> (\E j \in DOMAIN k.oneOf : \A i \in DOMAIN k.oneOf : f[k.oneOf[i]] <=> i = j)
    BY <2>2, <2>3
  <2>6. AdmitsFrom(k, l, f) <=>
        /\ k.literals # {} => l \in k.literals
        /\ \A b \in ToSet(k.allOf) : of(b)
        /\ k.anyOf # <<>> => \E b \in ToSet(k.anyOf) : of(b)
        /\ k.oneOf # <<>> => \E j \in DOMAIN k.oneOf : \A i \in DOMAIN k.oneOf : of(k.oneOf[i]) <=> i = j
        /\ k.list => \E b \in {k.items} \cup {p[2] : p \in Applied(k)} : of(b)
        /\ k.conditional => of(IF of(k.if) THEN k.then ELSE k.else)
        /\ k.not # None => ~of(k.not)
    <3>1. /\ (\A b \in ToSet(k.allOf) : of(b)) <=> (\A b \in ToSet(k.allOf) : f[b])
          /\ (\E b \in ToSet(k.anyOf) : of(b)) <=> (\E b \in ToSet(k.anyOf) : f[b])
          /\ (\E b \in {k.items} \cup {p[2] : p \in Applied(k)} : of(b))
             <=> (\E b \in {k.items} \cup {p[2] : p \in Applied(k)} : f[b])
          /\ of(k.not) = f[k.not]
          /\ of(IF f[k.if] THEN k.then ELSE k.else) = f[IF f[k.if] THEN k.then ELSE k.else]
      BY <2>2, <2>3
    <3> QED BY <2>4, <2>5, <3>1 DEF AdmitsFrom
  <2> DEFINE body == AdmitsBody(g, <<l, w>>)
             from == AdmitsFrom(k, l, f)
  <2>7. body <=>
        /\ k.literals # {} => l \in k.literals
        /\ \A b \in ToSet(k.allOf) : of(b)
        /\ k.anyOf # <<>> => \E b \in ToSet(k.anyOf) : of(b)
        /\ k.oneOf # <<>> => \E j \in DOMAIN k.oneOf : \A i \in DOMAIN k.oneOf : of(k.oneOf[i]) <=> i = j
        /\ k.list => \E b \in {k.items} \cup {p[2] : p \in Applied(k)} : of(b)
        /\ k.conditional => of(IF of(k.if) THEN k.then ELSE k.else)
        /\ k.not # None => ~of(k.not)
    <3> DEFINE kk == Schema[w[1]]
    <3>1. body <=> w[1] = None \/ w[1] \in w[2] \/
        /\ kk.literals # {} => l \in kk.literals
        /\ \A b \in ToSet(kk.allOf) : of(b)
        /\ kk.anyOf # <<>> => \E b \in ToSet(kk.anyOf) : of(b)
        /\ kk.oneOf # <<>> => \E j \in DOMAIN kk.oneOf : \A i \in DOMAIN kk.oneOf : of(kk.oneOf[i]) <=> i = j
        /\ kk.list => \E b \in {kk.items} \cup {p[2] : p \in Applied(kk)} : of(b)
        /\ kk.conditional => of(IF of(kk.if) THEN kk.then ELSE kk.else)
        /\ kk.not # None => ~of(kk.not)
      BY DEF AdmitsBody, of
    <3>2. kk = k
      BY <2>0
    <3> HIDE DEF kk, body
    <3> QED BY <1>2, <3>1, <3>2
  <2>8. from <=> AdmitsFrom(Schema[w[1]], l, AdmitsOf(g, l, w))
    BY <2>1 DEF f
  <2>9. body <=> from
    BY <2>6, <2>7
  <2> HIDE DEF body, from
  <2>10. body <=> w[1] = None \/ w[1] \in w[2] \/ AdmitsFrom(Schema[w[1]], l, AdmitsOf(g, l, w))
    BY <1>2, <2>8, <2>9
  <2> QED BY <2>10 DEF body
<1> QED BY <1>1, <1>2

\* Admits is defined, and a literal is admitted by an object as its keywords say.
LEMMA AdmitsIs ==
    \A l \in Literal : \A w \in Visits :
       Admits[<<l, w>>] <=> w[1] = None \/ w[1] \in w[2] \/ AdmitsFrom(Schema[w[1]], l, AdmitsOf(Admits, l, w))
<1> DEFINE is(g, v) == v[2][1] = None \/ v[2][1] \in v[2][2]
                       \/ AdmitsFrom(Schema[v[2][1]], v[1], AdmitsOf(g, v[1], v[2]))
           F == [Asked(Literal) -> BOOLEAN]
           step == [p \in F \X Asked(Literal) |-> AdmitsBody(p[1], p[2])]
<1>1. \A v \in Asked(Literal) : v[1] \in Literal /\ v[2] \in Visits /\ v = <<v[1], v[2]>>
  BY DEF Asked
<1>2. \A g : \A v \in Asked(Literal) : AdmitsBody(g, v) <=> is(g, v)
  BY <1>1, AdmitsLooksBelow
<1>3. \A g : \A v \in Asked(Literal) : AdmitsBody(g, v) \in BOOLEAN
  BY DEF AdmitsBody
<1>4. ASSUME NEW g, NEW h, NEW v \in Asked(Literal), \A w \in Asked(Literal) : <<w, v>> \in AskedBelow(Literal) => g[w] = h[w]
      PROVE  AdmitsBody(g, v) = AdmitsBody(h, v)
  <2>1. CASE v[2][1] = None \/ v[2][1] \in v[2][2]
    BY <1>2, <1>3, <2>1
  <2>2. CASE ~(v[2][1] = None \/ v[2][1] \in v[2][2])
    <3>1. AdmitsOf(g, v[1], v[2]) = AdmitsOf(h, v[1], v[2])
      BY <1>1, <1>4, <2>2, AskingEnds DEF AdmitsOf
    <3>2. is(g, v) <=> is(h, v)
      BY <3>1
    <3> HIDE DEF is
    <3> QED BY <1>2, <1>3, <3>2
  <2> QED BY <2>1, <2>2
<1>5. \A g \in F : \A v \in Asked(Literal) : step[<<g, v>>] = AdmitsBody(g, v)
  <2> TAKE g \in F
  <2> TAKE v \in Asked(Literal)
  <2>1. <<g, v>> \in F \X Asked(Literal)
    OBVIOUS
  <2> HIDE DEF F
  <2> QED BY <2>1
<1>6. step \in [F \X Asked(Literal) -> BOOLEAN]
  <2> HIDE DEF F
  <2> QED BY <1>3
<1> HIDE DEF is
<1>7. Local(step, AskedBelow(Literal), Asked(Literal), BOOLEAN)
  <2> HIDE DEF step
  <2> QED BY <1>4, <1>5 DEF Local
<1>8. Recursion(step, AskedBelow(Literal), Asked(Literal), BOOLEAN)
  BY <1>6, <1>7, AskingEnds DEF Recursion
<1>9. PICK g \in F : \A v \in Asked(Literal) : g[v] = step[<<g, v>>]
  <2> HIDE DEF step
  <2> QED BY <1>8, RecursionIsDefined
<1> HIDE DEF step
<1>10. g = [v \in Literal \X Visits |-> AdmitsBody(g, v)]
  BY <1>5, <1>9 DEF Asked
<1>11. Admits = [v \in Literal \X Visits |-> AdmitsBody(Admits, v)]
  <2>1. Admits = CHOOSE f : f = [v \in Literal \X Visits |-> AdmitsBody(f, v)]
    BY Zenon DEF Admits, AdmitsBody
  <2> QED BY <1>10, <2>1
<1> QED
  <2> DEFINE m == Admits
  <2>1. m = [v \in Asked(Literal) |-> AdmitsBody(m, v)]
    BY <1>11 DEF Asked
  <2> HIDE DEF m
  <2>2. ASSUME NEW l \in Literal, NEW w \in Visits
        PROVE  m[<<l, w>>] <=> w[1] = None \/ w[1] \in w[2] \/ AdmitsFrom(Schema[w[1]], l, AdmitsOf(m, l, w))
    <3>1. m[<<l, w>>] = AdmitsBody(m, <<l, w>>)
      BY <2>1 DEF Asked
    <3> QED BY <3>1, AdmitsLooksBelow
  <2> QED BY <2>2 DEF m

\* What an object holds stands below it.
LEMMA BelowIs ==
    ASSUME NEW n \in SchemaNode, NEW k, k = Schema[n]
    PROVE  /\ Below(n) \subseteq SchemaNode
           /\ \A p \in ToSet(k.properties) \cup ToSet(k.other) : p[2] \in Below(n) \cup {None}
           /\ {k.items, k.then, k.else} \cup ToSet(k.allOf) \cup ToSet(k.anyOf) \cup ToSet(k.oneOf)
              \subseteq Below(n) \cup {None}
           /\ DecidingBranches(k) \subseteq Below(n) \cup {None}
<1> DEFINE held == {p[2] : p \in ToSet(k.properties) \cup ToSet(k.other)}
                   \cup {k.items, k.if, k.then, k.else, k.not}
                   \cup ToSet(k.allOf) \cup ToSet(k.anyOf) \cup ToSet(k.oneOf) \cup ToSet(k.dependent)
<1>1. k.dependent \in Seq(Branch)
  BY SchemaAssumption DEF SchemaType
<1>2. ToSet(k.dependent) \subseteq Branch
  BY <1>1, MembersOf
<1>3. held \subseteq Branch
  BY <1>2, KeywordsTyped
<1>4. Below(n) = held \ {None}
  BY DEF Below
<1>5. {k.items, k.then, k.else} \cup ToSet(k.allOf) \cup ToSet(k.anyOf) \cup ToSet(k.oneOf) \subseteq held
  OBVIOUS
<1>6. DecidingBranches(k) \subseteq held \cup {None}
  BY DEF DecidingBranches
<1>7. \A p \in ToSet(k.properties) \cup ToSet(k.other) : p[2] \in held
  OBVIOUS
<1> HIDE DEF held
<1> QED BY <1>3, <1>4, <1>5, <1>6, <1>7 DEF Branch

\* A set that holds what stands below its objects.
Downward(T) == \A n \in T : Below(n) \subseteq T

WithBelow(S) == S \cup UNION {Below(n) : n \in S}

\* All below some objects is such a set, with them in it.
LEMMA AllBelowIs ==
    \A S \in SUBSET SchemaNode :
       AllBelow[S] \in SUBSET SchemaNode /\ S \subseteq AllBelow[S] /\ Downward(AllBelow[S])
<1> DEFINE D == SUBSET SchemaNode
           F == [D -> D]
           Body(g, S) == LET T == S \cup UNION {Below(n) : n \in S} IN IF T = S THEN S ELSE g[T]
           step == [p \in F \X D |-> Body(p[1], p[2])]
           rest == [S \in D |-> Cardinality(SchemaNode \ S)]
           R == LexBelow(D, rest, [S \in D |-> 0])
<1>1. \A S \in D : WithBelow(S) \in D
  BY BelowIs DEF WithBelow
<1>2. \A g, S : Body(g, S) = IF WithBelow(S) = S THEN S ELSE g[WithBelow(S)]
  BY DEF WithBelow
<1>3. IsFiniteSet(SchemaNode)
  BY SchemaAssumption
<1>4. rest \in [D -> Nat]
  <2>1. \A S \in D : Cardinality(SchemaNode \ S) \in Nat
    BY <1>3, FS_Subset, FS_CardinalityType
  <2> QED BY <2>1
<1>5. [S \in D |-> 0] \in [D -> Nat]
  OBVIOUS
<1>6. ASSUME NEW S \in D, NEW T \in D, S \subseteq T, T # S PROVE <<T, S>> \in R
  <2>1. IsFiniteSet(SchemaNode \ S) /\ SchemaNode \ T \subseteq SchemaNode \ S /\ SchemaNode \ T # SchemaNode \ S
    BY <1>3, <1>6, FS_Subset
  <2>2. PICK a, b : a = Cardinality(SchemaNode \ T) /\ b = Cardinality(SchemaNode \ S)
    OBVIOUS
  <2>3. a \in Nat /\ b \in Nat
    BY <1>3, <2>2, FS_Subset, FS_CardinalityType
  <2>4. a <= b /\ a # b
    BY <2>1, <2>2, FS_Subset
  <2>5. rest[T] = a /\ rest[S] = b
    BY <2>2
  <2>6. rest[T] < rest[S]
    BY <2>3, <2>4, <2>5
  <2> HIDE DEF rest
  <2> QED BY <2>6 DEF LexBelow
<1> HIDE DEF Body, rest
<1>7. IsWellFoundedOn(R, D)
  BY <1>4, <1>5, LexIsWellFounded
<1> HIDE DEF R, D, F, step
<1>8. \A g \in F : \A S \in D : step[<<g, S>>] = Body(g, S)
  <2> TAKE g \in F
  <2> TAKE S \in D
  <2>1. <<g, S>> \in F \X D /\ <<g, S>>[1] = g /\ <<g, S>>[2] = S
    OBVIOUS
  <2> QED BY <2>1 DEF step
<1>9. \A g \in F : \A S \in D : Body(g, S) \in D
  BY <1>1, <1>2 DEF F
<1>10. step \in [F \X D -> D]
  BY <1>9 DEF step
<1>11. \A S \in D : WithBelow(S) # S => <<WithBelow(S), S>> \in R
  BY <1>1, <1>6 DEF WithBelow
<1>12. Local(step, R, D, D)
  <2>1. ASSUME NEW g \in F, NEW h \in F, NEW S \in D, \A T \in D : <<T, S>> \in R => g[T] = h[T]
        PROVE  step[<<g, S>>] = step[<<h, S>>]
    BY <1>1, <1>2, <1>8, <1>11, <2>1
  <2> QED BY <2>1 DEF Local, F
<1>13. \E g \in F : \A S \in D : g[S] = step[<<g, S>>]
  <2>1. step \in [[D -> D] \X D -> D] /\ D # {}
    BY <1>10 DEF F, D
  <2>2. Recursion(step, R, D, D)
    BY <1>7, <1>12, <2>1 DEF Recursion
  <2>3. \E g \in [D -> D] : \A S \in D : g[S] = step[<<g, S>>]
    BY <2>2, RecursionIsDefined
  <2> QED BY <2>3 DEF F
<1>14. PICK g \in F : \A S \in D : g[S] = Body(g, S)
  BY <1>8, <1>13
<1>15. g = [S \in D |-> Body(g, S)]
  BY <1>14 DEF F
<1>16. AllBelow = CHOOSE c : c = [S \in D |-> Body(c, S)]
  BY Zenon DEF AllBelow, D, Body
<1>17. AllBelow = [S \in D |-> Body(AllBelow, S)]
  BY <1>15, <1>16
<1>18. \A S \in D : AllBelow[S] = IF WithBelow(S) = S THEN S ELSE AllBelow[WithBelow(S)]
  BY <1>2, <1>17
<1> DEFINE P == {S \in D : AllBelow[S] \in D /\ S \subseteq AllBelow[S] /\ Downward(AllBelow[S])}
<1>19. ASSUME NEW S \in D, \A T \in D : <<T, S>> \in R => T \in P PROVE S \in P
  <2>1. CASE WithBelow(S) = S
    BY <1>18, <2>1 DEF WithBelow, Downward
  <2>2. CASE WithBelow(S) # S
    <3>1. WithBelow(S) \in P /\ AllBelow[S] = AllBelow[WithBelow(S)]
      BY <1>1, <1>11, <1>18, <1>19, <2>2
    <3>2. S \subseteq WithBelow(S)
      BY DEF WithBelow
    <3> QED BY <3>1, <3>2
  <2> QED BY <2>1, <2>2
<1>20. D \subseteq P
  <2> HIDE DEF P
  <2> QED BY <1>7, <1>19, Descent
<1> QED BY <1>20 DEF D

\* n holds a value to the keywords that the code reads for it: items is for lists, and
\* nothing else is said of their elements.
Strict(n) == Schema[n].items # None => Schema[n].list /\ Applied(Schema[n]) = {}

\* e does not exclude l.
Leaves(e, l) == e.ambiguous \/ l \in e.values

\* If one of the branches that may decide leaves l, their alternatives do.
LEMMA OneAlternativeLeaves ==
    ASSUME NEW E, \A e \in E : e.mentioned, NEW x \in E, NEW l, Leaves(x, l)
    PROVE  Leaves(AlternativesOf(E), l)
<1>1. CASE \A e \in E : e.values # {} /\ ~e.ambiguous
  <2>1. AlternativesOf(E) = Proven(ValuesOf(E))
    BY <1>1 DEF AlternativesOf
  <2>2. l \in ValuesOf(E)
    BY <1>1 DEF Leaves, ValuesOf
  <2> QED BY <2>1, <2>2 DEF Leaves, Proven
<1>2. CASE ~\A e \in E : e.values # {} /\ ~e.ambiguous
  <2>1. AlternativesOf(E) = Unproven
    BY <1>2 DEF AlternativesOf
  <2> QED BY <2>1 DEF Leaves, Unproven
<1> QED BY <1>1, <1>2

\* What an object admits is what its keywords and one of its deciding branches admit.
LEMMA AdmittedByKeywords ==
    ASSUME NEW n \in SchemaNode, NEW k, k = Schema[n], NEW l, NEW f, AdmitsFrom(k, l, f)
    PROVE  /\ k.literals # {} => l \in k.literals
           /\ \A b \in ToSet(k.allOf) : f[b]
           /\ k.list => \E b \in {k.items} \cup {p[2] : p \in Applied(k)} : f[b]
           /\ DecidingBranches(k) = {None} \/ \E b \in DecidingBranches(k) : f[b]
<1>1. k.oneOf # <<>> => \E b \in ToSet(k.oneOf) : f[b]
  <2> SUFFICES ASSUME k.oneOf # <<>> PROVE \E b \in ToSet(k.oneOf) : f[b]
    OBVIOUS
  <2>1. PICK j \in DOMAIN k.oneOf : f[k.oneOf[j]]
    BY DEF AdmitsFrom
  <2>2. k.oneOf[j] \in ToSet(k.oneOf)
    BY DEF ToSet
  <2> QED BY <2>1, <2>2
<1>2. k.conditional => \E b \in {k.then, k.else} : f[b]
  BY DEF AdmitsFrom
<1>3. k.anyOf # <<>> => \E b \in ToSet(k.anyOf) : f[b]
  BY DEF AdmitsFrom
<1>4. DecidingBranches(k) = {None} \/ \E b \in DecidingBranches(k) : f[b]
  BY <1>1, <1>2, <1>3 DEF DecidingBranches
<1> QED BY <1>4 DEF AdmitsFrom

\* One step of the walk: what holds below an object holds of it.
LEMMA ValueStepBounds ==
    ASSUME NEW n \in SchemaNode, NEW k, k = Schema[n], Strict(n), NEW l \in Literal,
           NEW of \in [Branch -> Bound], Leaves(of[None], l), of[None].values = {}, NEW f, AdmitsFrom(k, l, f),
           \A b \in Below(n) \cup {None} : f[b] => Leaves(of[b], l)
    PROVE  Leaves(ValueFrom(k, of), l)
<1> DEFINE hard == k.literals \cup (UNION {of[b].values : b \in ToSet(k.allOf)})
                              \cup (IF k.items = None THEN {} ELSE of[k.items].values)
           E == {of[b] : b \in DecidingBranches(k)}
<1>1. /\ ToSet(k.allOf) \subseteq Branch /\ k.items \in Branch
      /\ DecidingBranches(k) \subseteq Branch /\ DecidingBranches(k) # {}
  BY KeywordsTyped
<1>2. /\ k.literals # {} => l \in k.literals
      /\ \A b \in ToSet(k.allOf) : f[b]
      /\ k.items # None => f[k.items]
      /\ DecidingBranches(k) = {None} \/ \E b \in DecidingBranches(k) : f[b]
  <2>1. /\ k.literals # {} => l \in k.literals
        /\ \A b \in ToSet(k.allOf) : f[b]
        /\ k.list => \E b \in {k.items} \cup {p[2] : p \in Applied(k)} : f[b]
        /\ DecidingBranches(k) = {None} \/ \E b \in DecidingBranches(k) : f[b]
    BY AdmittedByKeywords
  <2>2. k.items # None => k.list /\ Applied(k) = {}
    BY DEF Strict
  <2> QED BY <2>1, <2>2
<1>20. {k.items} \cup ToSet(k.allOf) \cup DecidingBranches(k) \subseteq Below(n) \cup {None}
  BY BelowIs
<1>3. \A b \in Branch : of[b].mentioned /\ (of[b].ambiguous <=> of[b].values = {})
  BY DEF Bound
<1>4. hard # {} => l \in hard
  <2>1. CASE k.literals # {}
    BY <1>2, <2>1
  <2>2. CASE \E b \in ToSet(k.allOf) : of[b].values # {}
    <3>1. PICK b \in ToSet(k.allOf) : of[b].values # {}
      BY <2>2
    <3>2. l \in of[b].values
      BY <1>1, <1>2, <1>20, <1>3, <3>1 DEF Leaves
    <3> QED BY <3>2
  <2>3. CASE k.items # None /\ of[k.items].values # {}
    <3>1. f[k.items]
      BY <1>2, <2>3
    <3>2. l \in of[k.items].values
      BY <1>1, <1>20, <1>3, <2>3, <3>1 DEF Leaves
    <3> QED BY <2>3, <3>2
  <2>4. CASE ~(k.literals # {}) /\ ~(\E b \in ToSet(k.allOf) : of[b].values # {})
             /\ ~(k.items # None /\ of[k.items].values # {})
    BY <2>4
  <2> QED BY <2>1, <2>2, <2>3, <2>4
<1>5. \A e \in E : e.mentioned
  BY <1>1, <1>3
<1>6. \E b \in DecidingBranches(k) : Leaves(of[b], l)
  BY <1>1, <1>2, <1>20
<1>7. PICK x \in E : Leaves(x, l)
  BY <1>6
<1> HIDE DEF hard, E
<1>8. Leaves(AlternativesOf(E), l)
  BY <1>5, <1>7, OneAlternativeLeaves
<1>9. hard # {} => Leaves(Proven(hard), l)
  BY <1>4 DEF Leaves, Proven
<1> QED BY <1>8, <1>9 DEF ValueFrom, hard, E

\* What a property's schema admits is what it was taken to prove, however far the walk
\* over it had come.
LEMMA ValuesAreBounds ==
    ASSUME NEW T \in SUBSET SchemaNode, Downward(T), \A n \in T : Strict(n)
    PROVE  \A v \in Visits : v[1] \in T \cup {None} => \A l \in Literal : \A A \in SUBSET v[2] :
              Admits[<<l, <<v[1], A>>>>] => Leaves(ValueEvidence[v], l)
<1> DEFINE P == {v \in Visits : v[1] \in T \cup {None} => \A l \in Literal : \A A \in SUBSET v[2] :
                                   Admits[<<l, <<v[1], A>>>>] => Leaves(ValueEvidence[v], l)}
<1>1. ASSUME NEW v \in Visits, \A w \in Visits : <<w, v>> \in VisitBelow => w \in P PROVE v \in P
  <2>1. CASE v[1] = None \/ v[1] \in v[2]
    <3>1. ValueEvidence[v] = Unproven
      BY <2>1, ValueEvidenceIs DEF ValueStep
    <3> QED BY <3>1 DEF Leaves, Unproven
  <2>2. CASE ~(v[1] = None \/ v[1] \in v[2])
    <3> SUFFICES ASSUME v[1] \in T \cup {None}, NEW l \in Literal, NEW A \in SUBSET v[2], Admits[<<l, <<v[1], A>>>>]
                 PROVE  Leaves(ValueEvidence[v], l)
      OBVIOUS
    <3>1. PICK n \in SchemaNode : n = v[1] /\ n \in T
      BY <2>2, BranchesBelow
    <3>2. PICK w \in Visits : w = <<n, A>>
      BY DEF Visits, Branch
    <3> DEFINE f == AdmitsOf(Admits, l, w)
               of == OfBranches(ValueEvidence, n, v[2])
    <3>3. AdmitsFrom(Schema[n], l, f)
      <4>1. n \notin w[2] /\ n # None /\ n = w[1]
        BY <2>2, <3>1, <3>2
      <4>2. Admits[<<l, w>>]
        BY <3>1, <3>2
      <4> QED BY <4>1, <4>2, AdmitsIs
    <3>4. ValueEvidence[v] = ValueFrom(Schema[n], of)
      BY <2>2, <3>1, ValueEvidenceIs DEF ValueStep
    <3>5. of \in [Branch -> Bound]
      BY <2>2, <3>1, BranchesBelow, ValueEvidenceIs DEF OfBranches
    <3>6. \A b \in Below(n) \cup {None} : f[b] => Leaves(of[b], l)
      <4> TAKE b \in Below(n) \cup {None}
      <4>0. b \in Branch /\ b \in T \cup {None}
        BY <3>1, BelowIs DEF Branch, Downward
      <4>1. PICK u \in Visits : u = <<b, v[2] \cup {n}>> /\ <<u, v>> \in VisitBelow
        BY <2>2, <3>1, <4>0, BranchesBelow
      <4>2. u \in P
        BY <1>1, <4>1
      <4>3. of[b] = ValueEvidence[u]
        BY <4>0, <4>1 DEF OfBranches
      <4>4. f[b] = Admits[<<l, <<b, A \cup {n}>>>>]
        BY <3>2, <4>0 DEF AdmitsOf
      <4>5. A \cup {n} \in SUBSET u[2] /\ u[1] = b
        BY <4>1
      <4> HIDE DEF f, of
      <4> QED BY <4>0, <4>2, <4>3, <4>4, <4>5
    <3>7. Leaves(of[None], l) /\ of[None].values = {}
      <4>1. of[None] = ValueEvidence[<<None, v[2] \cup {n}>>]
        BY DEF OfBranches, Branch
      <4>2. <<None, v[2] \cup {n}>> \in Visits
        BY <2>2, <3>1, BranchesBelow DEF Branch
      <4>3. of[None] = Unproven
        BY <4>1, <4>2, ValueEvidenceIs DEF ValueStep
      <4> HIDE DEF of
      <4> QED BY <4>3 DEF Leaves, Unproven
    <3> HIDE DEF f, of
    <3> QED BY <3>1, <3>3, <3>4, <3>5, <3>6, <3>7, ValueStepBounds
  <2> QED BY <2>1, <2>2
<1>2. Visits \subseteq P
  <2> HIDE DEF P
  <2> QED BY <1>1, VisitsEnd, Descent
<1> QED BY <1>2

\* What SchemaEvidence is at v, if it is g below.
SchemaBody(g, v) ==
    LET names == v[1]
        n == v[2][1]
        active == v[2][2]
        k == Schema[n]
        of(b) == g[<<names, <<b, active \cup {n}>>>>]
        alternatives(B) == IF B = <<>> THEN {} ELSE {AlternativesOf({of(b) : b \in ToSet(B)})}
        choice == AlternativesOf({of(k.then), of(k.else)})
    IN  IF n = None THEN Nothing
        ELSE IF n \in active THEN Unproven
        ELSE MergedEvidence(
                 {of(b) : b \in ToSet(k.allOf) \cup {k.items}}
                 \cup {IF p[1] \in names THEN ValueEvidence[<<p[2], active \cup {n}>>] ELSE of(p[2])
                          : p \in ToSet(k.properties)}
                 \cup alternatives(k.anyOf) \cup alternatives(k.oneOf)
                 \cup (IF ~k.conditional THEN {}
                       ELSE IF ~choice.mentioned /\ Mentions({k.if}, names) THEN {Unproven}
                       ELSE {choice})
                 \cup (IF k.ref \/ Mentions({k.not} \cup ToSet(k.dependent), names)
                       THEN {Unproven} ELSE {}))

\* The evidence of an object's keywords, given that of the objects below as schemas of
\* objects and as schemas of properties.
KeywordEvidence(k, names, of, value) ==
    LET alternatives(B) == IF B = <<>> THEN {} ELSE {AlternativesOf({of[b] : b \in ToSet(B)})}
        choice == AlternativesOf({of[k.then], of[k.else]})
    IN  {of[b] : b \in ToSet(k.allOf) \cup {k.items}}
        \cup {IF p[1] \in names THEN value[p[2]] ELSE of[p[2]] : p \in ToSet(k.properties)}
        \cup alternatives(k.anyOf) \cup alternatives(k.oneOf)
        \cup (IF ~k.conditional THEN {}
              ELSE IF ~choice.mentioned /\ Mentions({k.if}, names) THEN {Unproven} ELSE {choice})
        \cup (IF k.ref \/ Mentions({k.not} \cup ToSet(k.dependent), names) THEN {Unproven} ELSE {})

Under(g, x, w) == [b \in Branch |-> g[<<x, <<b, w[2] \cup {w[1]}>>>>]]

SchemaStep(g, v) ==
    LET n == v[2][1] IN
    IF n = None THEN Nothing
    ELSE IF n \in v[2][2] THEN Unproven
    ELSE MergedEvidence(KeywordEvidence(Schema[n], v[1], Under(g, v[1], v[2]),
                                        OfBranches(ValueEvidence, n, v[2][2])))

NameSets == {PathNames, NetNames}

\* SchemaEvidence looks at the objects below only.
LEMMA SchemaLooksBelow ==
    ASSUME NEW g, NEW names \in NameSets, NEW w \in Visits
    PROVE  SchemaBody(g, <<names, w>>) = SchemaStep(g, <<names, w>>)
<1>1. CASE w[1] = None \/ w[1] \in w[2]
  BY <1>1 DEF SchemaBody, SchemaStep
<1>2. CASE ~(w[1] = None \/ w[1] \in w[2])
  <2>0. PICK k : k = Schema[w[1]]
    OBVIOUS
  <2>1. PICK n \in SchemaNode : n = w[1] /\ k = Schema[n]
    BY <1>2, <2>0, BranchesBelow
  <2> DEFINE of(b) == g[<<names, <<b, w[2] \cup {w[1]}>>>>]
             f == Under(g, names, w)
             v(b) == ValueEvidence[<<b, w[2] \cup {w[1]}>>]
             value == OfBranches(ValueEvidence, w[1], w[2])
             alternatives(B) == IF B = <<>> THEN {} ELSE {AlternativesOf({of(b) : b \in ToSet(B)})}
             others(B) == IF B = <<>> THEN {} ELSE {AlternativesOf({f[b] : b \in ToSet(B)})}
             choice == AlternativesOf({of(k.then), of(k.else)})
             parts == {of(b) : b \in ToSet(k.allOf) \cup {k.items}}
                 \cup {IF p[1] \in names THEN v(p[2]) ELSE of(p[2]) : p \in ToSet(k.properties)}
                 \cup alternatives(k.anyOf) \cup alternatives(k.oneOf)
                 \cup (IF ~k.conditional THEN {}
                       ELSE IF ~choice.mentioned /\ Mentions({k.if}, names) THEN {Unproven}
                       ELSE {choice})
                 \cup (IF k.ref \/ Mentions({k.not} \cup ToSet(k.dependent), names)
                       THEN {Unproven} ELSE {})
  <2>2. \A b \in Branch : of(b) = f[b]
    BY DEF Under
  <2>3. \A b \in Branch : v(b) = value[b]
    BY DEF OfBranches
  <2>4. /\ ToSet(k.allOf) \subseteq Branch /\ ToSet(k.anyOf) \subseteq Branch /\ ToSet(k.oneOf) \subseteq Branch
        /\ {k.items, k.then, k.else} \subseteq Branch /\ \A p \in ToSet(k.properties) : p[2] \in Branch
    BY <2>1, KeywordsTyped
  <2>5. SchemaBody(g, <<names, w>>) = MergedEvidence(parts)
    <3>1. n = w[1] /\ k = Schema[n] /\ ~(w[1] = None \/ w[1] \in w[2])
      BY <1>2, <2>1
    <3> QED BY SMTT(60), <3>1 DEF SchemaBody
  <2>6. SchemaStep(g, <<names, w>>) = MergedEvidence(KeywordEvidence(k, names, f, value))
    BY <1>2, <2>1 DEF SchemaStep
  <2> HIDE DEF of, f, v, value
  <2>7. {of(b) : b \in ToSet(k.allOf) \cup {k.items}} = {f[b] : b \in ToSet(k.allOf) \cup {k.items}}
    BY <2>2, <2>4
  <2>8. {IF p[1] \in names THEN v(p[2]) ELSE of(p[2]) : p \in ToSet(k.properties)}
        = {IF p[1] \in names THEN value[p[2]] ELSE f[p[2]] : p \in ToSet(k.properties)}
    BY <2>2, <2>3, <2>4
  <2>9. /\ {of(b) : b \in ToSet(k.anyOf)} = {f[b] : b \in ToSet(k.anyOf)}
        /\ {of(b) : b \in ToSet(k.oneOf)} = {f[b] : b \in ToSet(k.oneOf)}
        /\ {of(k.then), of(k.else)} = {f[k.then], f[k.else]}
    BY <2>2, <2>4
  <2>10. parts = KeywordEvidence(k, names, f, value)
    BY <2>7, <2>8, <2>9 DEF KeywordEvidence
  <2> QED BY <2>5, <2>6, <2>10
<1> QED BY <1>1, <1>2

\* Evidence about alternatives, or joined, is evidence.
LEMMA EvidenceJoins ==
    ASSUME NEW E, E \subseteq Evidence PROVE AlternativesOf(E) \in Evidence /\ MergedEvidence(E) \in Evidence
<1>1. ValuesOf(E) \subseteq Literal
  BY DEF ValuesOf, Evidence
<1> QED BY <1>1 DEF AlternativesOf, MergedEvidence, Nothing, Unproven, Proven, Evidence

\* The evidence of an object's keywords is evidence.
LEMMA KeywordEvidenceTyped ==
    ASSUME NEW n \in SchemaNode, NEW k, k = Schema[n], NEW names, NEW of \in [Branch -> Evidence],
           NEW value \in [Branch -> Evidence]
    PROVE  KeywordEvidence(k, names, of, value) \subseteq Evidence
<1> DEFINE alternatives(B) == IF B = <<>> THEN {} ELSE {AlternativesOf({of[b] : b \in ToSet(B)})}
           choice == AlternativesOf({of[k.then], of[k.else]})
<1>1. /\ ToSet(k.allOf) \subseteq Branch /\ ToSet(k.anyOf) \subseteq Branch /\ ToSet(k.oneOf) \subseteq Branch
      /\ {k.items, k.then, k.else} \subseteq Branch /\ \A p \in ToSet(k.properties) : p[2] \in Branch
  BY KeywordsTyped
<1>2. Unproven \in Evidence
  BY DEF Unproven, Evidence
<1>3. \A B : ToSet(B) \subseteq Branch => alternatives(B) \subseteq Evidence
  <2> TAKE B
  <2> HAVE ToSet(B) \subseteq Branch
  <2>1. {of[b] : b \in ToSet(B)} \subseteq Evidence
    OBVIOUS
  <2> QED BY <2>1, EvidenceJoins
<1>4. choice \in Evidence
  <2>1. {of[k.then], of[k.else]} \subseteq Evidence
    BY <1>1
  <2> QED BY <2>1, EvidenceJoins
<1>5. {of[b] : b \in ToSet(k.allOf) \cup {k.items}} \subseteq Evidence
  BY <1>1
<1>6. {IF p[1] \in names THEN value[p[2]] ELSE of[p[2]] : p \in ToSet(k.properties)} \subseteq Evidence
  BY <1>1
<1>7. alternatives(k.anyOf) \subseteq Evidence /\ alternatives(k.oneOf) \subseteq Evidence
  BY <1>1, <1>3
<1> HIDE DEF alternatives, choice
<1>8. KeywordEvidence(k, names, of, value) =
        {of[b] : b \in ToSet(k.allOf) \cup {k.items}}
        \cup {IF p[1] \in names THEN value[p[2]] ELSE of[p[2]] : p \in ToSet(k.properties)}
        \cup alternatives(k.anyOf) \cup alternatives(k.oneOf)
        \cup (IF ~k.conditional THEN {}
              ELSE IF ~choice.mentioned /\ Mentions({k.if}, names) THEN {Unproven} ELSE {choice})
        \cup (IF k.ref \/ Mentions({k.not} \cup ToSet(k.dependent), names) THEN {Unproven} ELSE {})
  BY DEF KeywordEvidence, alternatives, choice
<1> QED BY <1>2, <1>4, <1>5, <1>6, <1>7, <1>8

\* The evidence of an object is defined, and evidence.
LEMMA SchemaEvidenceIs ==
    \A names \in NameSets : \A w \in Visits :
       SchemaEvidence[<<names, w>>] = SchemaStep(SchemaEvidence, <<names, w>>)
<1> DEFINE D == Asked(NameSets)
           R == AskedBelow(NameSets)
           F == [D -> Evidence]
           step == [p \in F \X D |-> SchemaBody(p[1], p[2])]
<1>1. \A v \in D : v[1] \in NameSets /\ v[2] \in Visits /\ v = <<v[1], v[2]>>
  BY DEF Asked
<1>2. \A g : \A v \in D : SchemaBody(g, v) = SchemaStep(g, v)
  BY <1>1, SchemaLooksBelow
<1>3. Nothing \in Evidence /\ Unproven \in Evidence
  BY DEF Nothing, Unproven, Evidence
<1>4. ASSUME NEW g \in F, NEW v \in D PROVE SchemaBody(g, v) \in Evidence
  <2>1. CASE v[2][1] = None \/ v[2][1] \in v[2][2]
    BY <1>2, <1>3, <2>1 DEF SchemaStep
  <2>2. CASE ~(v[2][1] = None \/ v[2][1] \in v[2][2])
    <3> DEFINE of == Under(g, v[1], v[2])
               value == OfBranches(ValueEvidence, v[2][1], v[2][2])
    <3>1. of \in [Branch -> Evidence]
      BY <1>1, <2>2, AskingEnds DEF Under
    <3>2. value \in [Branch -> Evidence]
      BY <1>1, <2>2, BranchesBelow, ValueEvidenceIs DEF OfBranches, Bound, Evidence
    <3>3. v[2][1] \in SchemaNode
      BY <1>1, <2>2, BranchesBelow
    <3>4. SchemaBody(g, v) = MergedEvidence(KeywordEvidence(Schema[v[2][1]], v[1], of, value))
      BY <1>2, <2>2 DEF SchemaStep
    <3> HIDE DEF of, value
    <3>5. KeywordEvidence(Schema[v[2][1]], v[1], of, value) \subseteq Evidence
      BY <3>1, <3>2, <3>3, KeywordEvidenceTyped
    <3> QED BY <3>4, <3>5, EvidenceJoins
  <2> QED BY <2>1, <2>2
<1>5. ASSUME NEW g, NEW h, NEW v \in D, \A w \in D : <<w, v>> \in R => g[w] = h[w]
      PROVE  SchemaBody(g, v) = SchemaBody(h, v)
  <2>1. CASE v[2][1] = None \/ v[2][1] \in v[2][2]
    BY <1>2, <2>1 DEF SchemaStep
  <2>2. CASE ~(v[2][1] = None \/ v[2][1] \in v[2][2])
    <3>1. Under(g, v[1], v[2]) = Under(h, v[1], v[2])
      BY <1>1, <1>5, <2>2, AskingEnds DEF Under
    <3> QED BY <1>2, <3>1 DEF SchemaStep
  <2> QED BY <2>1, <2>2
<1>6. \A g \in F : \A v \in D : step[<<g, v>>] = SchemaBody(g, v)
  <2> TAKE g \in F
  <2> TAKE v \in D
  <2>1. <<g, v>> \in F \X D
    OBVIOUS
  <2> HIDE DEF F, D
  <2> QED BY <2>1
<1>7. step \in [F \X D -> Evidence]
  <2> HIDE DEF F, D
  <2> QED BY <1>4
<1>8. Local(step, R, D, Evidence)
  <2> HIDE DEF step, D, R
  <2> QED BY <1>5, <1>6 DEF Local
<1>9. Recursion(step, R, D, Evidence)
  <2>1. IsWellFoundedOn(R, D)
    BY AskingEnds
  <2> HIDE DEF step, D, R
  <2> QED BY <1>3, <1>7, <1>8, <2>1 DEF Recursion
<1>10. PICK g \in F : \A v \in D : g[v] = step[<<g, v>>]
  <2> HIDE DEF step, D, R
  <2> QED BY <1>9, RecursionIsDefined
<1> HIDE DEF step
<1>11. g = [v \in {PathNames, NetNames} \X Visits |-> SchemaBody(g, v)]
  BY <1>6, <1>10 DEF Asked, NameSets
<1>12. SchemaEvidence = [v \in {PathNames, NetNames} \X Visits |-> SchemaBody(SchemaEvidence, v)]
  <2>1. SchemaEvidence = CHOOSE f : f = [v \in {PathNames, NetNames} \X Visits |-> SchemaBody(f, v)]
    BY Zenon DEF SchemaEvidence, SchemaBody
  <2> QED BY <1>11, <2>1
<1> QED
  <2> DEFINE m == SchemaEvidence
  <2>1. m = [v \in D |-> SchemaBody(m, v)]
    BY <1>12 DEF Asked, NameSets
  <2> HIDE DEF m
  <2>2. ASSUME NEW names \in NameSets, NEW w \in Visits
        PROVE  m[<<names, w>>] = SchemaStep(m, <<names, w>>)
    <3>1. <<names, w>> \in D
      BY DEF Asked
    <3> HIDE DEF D
    <3>2. m[<<names, w>>] = SchemaBody(m, <<names, w>>)
      BY <2>1, <3>1
    <3> QED BY <3>2, SchemaLooksBelow
  <2> QED BY <2>2 DEF m

\* What Settable is at v, if it is g below.
SettableBody(g, v) ==
    LET names == v[1][1]
        l == v[1][2]
        n == v[2][1]
        active == v[2][2]
        k == Schema[n]
        of(b) == g[<<v[1], <<b, active \cup {n}>>>>]
    IN  n # None /\ n \notin active /\
        \/ \E p \in ToSet(k.properties) \cup Applied(k) :
              IF p[1] \in names THEN Admits[<<l, <<p[2], {}>>>>] ELSE of(p[2])
        \/ \E b \in ToSet(k.allOf) \cup ToSet(k.anyOf) \cup ToSet(k.oneOf) \cup {k.items}
                    \cup (IF k.conditional THEN {k.then, k.else} ELSE {}) : of(b)

\* What an object lets a caller set, given what those below do.
SettableFrom(k, names, l, of) ==
    \/ \E p \in ToSet(k.properties) \cup Applied(k) :
          IF p[1] \in names THEN Admits[<<l, <<p[2], {}>>>>] ELSE of[p[2]]
    \/ \E b \in ToSet(k.allOf) \cup ToSet(k.anyOf) \cup ToSet(k.oneOf) \cup {k.items}
                \cup (IF k.conditional THEN {k.then, k.else} ELSE {}) : of[b]

\* Settable looks at the objects below only.
LEMMA SettableLooksBelow ==
    ASSUME NEW g, NEW x, NEW w \in Visits
    PROVE  SettableBody(g, <<x, w>>) <=>
              w[1] # None /\ w[1] \notin w[2] /\ SettableFrom(Schema[w[1]], x[1], x[2], Under(g, x, w))
<1>1. CASE w[1] = None \/ w[1] \in w[2]
  BY <1>1 DEF SettableBody
<1>2. CASE ~(w[1] = None \/ w[1] \in w[2])
  <2>0. PICK k : k = Schema[w[1]]
    OBVIOUS
  <2>1. PICK n \in SchemaNode : n = w[1] /\ k = Schema[n]
    BY <1>2, <2>0, BranchesBelow
  <2> DEFINE of(b) == g[<<x, <<b, w[2] \cup {w[1]}>>>>]
             f == Under(g, x, w)
             B == ToSet(k.allOf) \cup ToSet(k.anyOf) \cup ToSet(k.oneOf) \cup {k.items}
                  \cup (IF k.conditional THEN {k.then, k.else} ELSE {})
             body == \/ \E p \in ToSet(k.properties) \cup Applied(k) :
                           IF p[1] \in x[1] THEN Admits[<<x[2], <<p[2], {}>>>>] ELSE of(p[2])
                     \/ \E b \in B : of(b)
  <2>2. \A b \in Branch : of(b) = f[b]
    BY DEF Under
  <2>3. B \subseteq Branch /\ \A p \in ToSet(k.properties) \cup Applied(k) : p[2] \in Branch
    <3>1. B \subseteq Branch /\ \A p \in ToSet(k.properties) \cup ToSet(k.other) : p[2] \in Branch
      BY <2>1, KeywordsTyped
    <3> HIDE DEF B
    <3> QED BY <3>1 DEF Applied
  <2>4. SettableBody(g, <<x, w>>) <=> body
    <3> DEFINE kk == Schema[w[1]]
    <3>1. SettableBody(g, <<x, w>>) <=> w[1] # None /\ w[1] \notin w[2] /\
             \/ \E p \in ToSet(kk.properties) \cup Applied(kk) :
                   IF p[1] \in x[1] THEN Admits[<<x[2], <<p[2], {}>>>>] ELSE of(p[2])
             \/ \E b \in ToSet(kk.allOf) \cup ToSet(kk.anyOf) \cup ToSet(kk.oneOf) \cup {kk.items}
                         \cup (IF kk.conditional THEN {kk.then, kk.else} ELSE {}) : of(b)
      BY DEF SettableBody
    <3>2. kk = k
      BY <2>0
    <3> HIDE DEF kk, of
    <3> QED BY <1>2, <3>1, <3>2
  <2>5. SettableFrom(Schema[w[1]], x[1], x[2], f)
        <=> (\/ \E p \in ToSet(k.properties) \cup Applied(k) :
                   IF p[1] \in x[1] THEN Admits[<<x[2], <<p[2], {}>>>>] ELSE f[p[2]]
             \/ \E b \in B : f[b])
    BY <2>1 DEF SettableFrom
  <2> HIDE DEF of, f, B
  <2>6. (\E b \in B : of(b)) <=> (\E b \in B : f[b])
    BY <2>2, <2>3
  <2>7. (\E p \in ToSet(k.properties) \cup Applied(k) : IF p[1] \in x[1] THEN Admits[<<x[2], <<p[2], {}>>>>] ELSE of(p[2]))
        <=> (\E p \in ToSet(k.properties) \cup Applied(k) : IF p[1] \in x[1] THEN Admits[<<x[2], <<p[2], {}>>>>] ELSE f[p[2]])
    BY <2>2, <2>3
  <2>8. body <=> SettableFrom(Schema[w[1]], x[1], x[2], f)
    BY <2>5, <2>6, <2>7
  <2> HIDE DEF body
  <2> QED BY <1>2, <2>4, <2>8 DEF f
<1> QED BY <1>1, <1>2

\* Settable is defined, and an object lets a caller set what its keywords do.
LEMMA SettableIs ==
    \A x \in NameSets \X Literal : \A w \in Visits :
       Settable[<<x, w>>] <=>
          w[1] # None /\ w[1] \notin w[2] /\ SettableFrom(Schema[w[1]], x[1], x[2], Under(Settable, x, w))
<1> DEFINE K == NameSets \X Literal
           D == Asked(K)
           R == AskedBelow(K)
           is(g, v) == v[2][1] # None /\ v[2][1] \notin v[2][2]
                       /\ SettableFrom(Schema[v[2][1]], v[1][1], v[1][2], Under(g, v[1], v[2]))
           F == [D -> BOOLEAN]
           step == [p \in F \X D |-> SettableBody(p[1], p[2])]
<1>1. \A v \in D : v[1] \in K /\ v[2] \in Visits /\ v = <<v[1], v[2]>>
  BY DEF Asked
<1>2. \A g : \A v \in D : SettableBody(g, v) <=> is(g, v)
  BY <1>1, SettableLooksBelow
<1>3. \A g : \A v \in D : SettableBody(g, v) \in BOOLEAN
  BY DEF SettableBody
<1>4. ASSUME NEW g, NEW h, NEW v \in D, \A w \in D : <<w, v>> \in R => g[w] = h[w]
      PROVE  SettableBody(g, v) = SettableBody(h, v)
  <2>1. CASE v[2][1] = None \/ v[2][1] \in v[2][2]
    BY <1>2, <1>3, <2>1
  <2>2. CASE ~(v[2][1] = None \/ v[2][1] \in v[2][2])
    <3>1. Under(g, v[1], v[2]) = Under(h, v[1], v[2])
      BY <1>1, <1>4, <2>2, AskingEnds DEF Under
    <3>2. is(g, v) <=> is(h, v)
      BY <3>1
    <3> HIDE DEF is
    <3> QED BY <1>2, <1>3, <3>2
  <2> QED BY <2>1, <2>2
<1>5. \A g \in F : \A v \in D : step[<<g, v>>] = SettableBody(g, v)
  <2> TAKE g \in F
  <2> TAKE v \in D
  <2>1. <<g, v>> \in F \X D
    OBVIOUS
  <2> HIDE DEF F, D
  <2> QED BY <2>1
<1>6. step \in [F \X D -> BOOLEAN]
  <2> HIDE DEF F, D
  <2> QED BY <1>3
<1> HIDE DEF is
<1>7. Local(step, R, D, BOOLEAN)
  <2> HIDE DEF step, D, R
  <2> QED BY <1>4, <1>5 DEF Local
<1>8. Recursion(step, R, D, BOOLEAN)
  <2>1. IsWellFoundedOn(R, D)
    BY AskingEnds
  <2> HIDE DEF step, D, R
  <2> QED BY <1>6, <1>7, <2>1 DEF Recursion
<1>9. PICK g \in F : \A v \in D : g[v] = step[<<g, v>>]
  <2> HIDE DEF step, D, R
  <2> QED BY <1>8, RecursionIsDefined
<1> HIDE DEF step
<1> DEFINE dom == ({PathNames, NetNames} \X Literal) \X Visits
<1>10. g = [v \in dom |-> SettableBody(g, v)]
  BY <1>5, <1>9 DEF Asked, NameSets
<1>11. Settable = [v \in dom |-> SettableBody(Settable, v)]
  <2>1. Settable = CHOOSE f : f = [v \in dom |-> SettableBody(f, v)]
    BY Zenon DEF Settable, SettableBody
  <2> HIDE DEF dom
  <2> QED BY <1>10, <2>1
<1> QED
  <2> DEFINE m == Settable
  <2>1. m = [v \in D |-> SettableBody(m, v)]
    BY <1>11 DEF Asked, NameSets
  <2> HIDE DEF m
  <2>2. ASSUME NEW x \in K, NEW w \in Visits
        PROVE  m[<<x, w>>] <=> w[1] # None /\ w[1] \notin w[2]
                                /\ SettableFrom(Schema[w[1]], x[1], x[2], Under(m, x, w))
    <3>1. <<x, w>> \in D
      BY DEF Asked
    <3> HIDE DEF D
    <3>2. m[<<x, w>>] = SettableBody(m, <<x, w>>)
      BY <2>1, <3>1
    <3> QED BY <3>2, SettableLooksBelow
  <2> QED BY <2>2 DEF m

\* e knows of a scoped property and does not exclude l.
Allows(e, l) == e.mentioned /\ Leaves(e, l)

\* Evidence that is joined allows what one part allows.
LEMMA JoinedAllows ==
    ASSUME NEW E, NEW e \in E, NEW l, Allows(e, l) PROVE Allows(MergedEvidence(E), l)
<1>1. MergedEvidence(E).mentioned /\ (e.ambiguous => MergedEvidence(E).ambiguous)
      /\ MergedEvidence(E).values = ValuesOf(E)
  BY DEF MergedEvidence, Allows
<1>2. l \in e.values => l \in ValuesOf(E)
  BY DEF ValuesOf
<1> QED BY <1>1, <1>2 DEF Allows, Leaves

\* Alternatives allow what one of them allows.
LEMMA AlternativeAllows ==
    ASSUME NEW E, NEW e \in E, NEW l, Allows(e, l) PROVE Allows(AlternativesOf(E), l)
<1>1. CASE \A x \in E : x.values # {} /\ ~x.ambiguous
  <2>1. AlternativesOf(E) = Proven(ValuesOf(E))
    BY <1>1 DEF AlternativesOf, Allows
  <2>2. l \in ValuesOf(E)
    BY <1>1 DEF Allows, Leaves, ValuesOf
  <2> QED BY <2>1, <2>2 DEF Allows, Leaves, Proven
<1>2. CASE ~\A x \in E : x.values # {} /\ ~x.ambiguous
  <2>1. AlternativesOf(E) = Unproven
    BY <1>2 DEF AlternativesOf, Allows
  <2> QED BY <2>1 DEF Allows, Leaves, Unproven
<1> QED BY <1>1, <1>2

\* One step of the walk: what the keywords of an object let a caller set is allowed, if
\* nothing may be set by what stands under keywords that are passed over.
LEMMA KeywordsAllow ==
    ASSUME NEW k, NEW names, NEW l, NEW of, NEW value, NEW can, SettableFrom(k, names, l, can),
           \A p \in Applied(k) : p[1] \notin names /\ ~can[p[2]],
           \A p \in ToSet(k.properties) :
              IF p[1] \in names THEN Admits[<<l, <<p[2], {}>>>>] => Allows(value[p[2]], l)
              ELSE can[p[2]] => Allows(of[p[2]], l),
           \A b \in ToSet(k.allOf) \cup ToSet(k.anyOf) \cup ToSet(k.oneOf) \cup {k.items}
                    \cup (IF k.conditional THEN {k.then, k.else} ELSE {}) : can[b] => Allows(of[b], l)
    PROVE  Allows(MergedEvidence(KeywordEvidence(k, names, of, value)), l)
<1> DEFINE E == KeywordEvidence(k, names, of, value)
           alternatives(B) == IF B = <<>> THEN {} ELSE {AlternativesOf({of[b] : b \in ToSet(B)})}
           choice == AlternativesOf({of[k.then], of[k.else]})
           deciding == IF ~k.conditional THEN {}
                       ELSE IF ~choice.mentioned /\ Mentions({k.if}, names) THEN {Unproven} ELSE {choice}
<1>1. /\ {of[b] : b \in ToSet(k.allOf) \cup {k.items}} \subseteq E
      /\ {IF p[1] \in names THEN value[p[2]] ELSE of[p[2]] : p \in ToSet(k.properties)} \subseteq E
      /\ alternatives(k.anyOf) \subseteq E /\ alternatives(k.oneOf) \subseteq E /\ deciding \subseteq E
  BY DEF KeywordEvidence
<1>2. \A B : \A b \in ToSet(B) : Allows(of[b], l) => \E e \in alternatives(B) : Allows(e, l)
  <2> TAKE B
  <2> TAKE b \in ToSet(B)
  <2> HAVE Allows(of[b], l)
  <2>1. B # <<>>
    BY DEF ToSet
  <2>2. of[b] \in {of[x] : x \in ToSet(B)}
    OBVIOUS
  <2> QED BY <2>1, <2>2, AlternativeAllows
<1>3. k.conditional /\ (Allows(of[k.then], l) \/ Allows(of[k.else], l)) => \E e \in deciding : Allows(e, l)
  <2> SUFFICES ASSUME k.conditional, Allows(of[k.then], l) \/ Allows(of[k.else], l)
               PROVE  \E e \in deciding : Allows(e, l)
    OBVIOUS
  <2>1. \E x \in {of[k.then], of[k.else]} : Allows(x, l)
    OBVIOUS
  <2>2. Allows(choice, l)
    BY <2>1, AlternativeAllows
  <2> HIDE DEF choice
  <2> QED BY <2>2 DEF Allows
<1> HIDE DEF E, alternatives, choice, deciding
<1>4. \E e \in E : Allows(e, l)
  <2>1. CASE \E p \in ToSet(k.properties) :
               IF p[1] \in names THEN Admits[<<l, <<p[2], {}>>>>] ELSE can[p[2]]
    <3>1. PICK p \in ToSet(k.properties) : Allows(IF p[1] \in names THEN value[p[2]] ELSE of[p[2]], l)
      BY <2>1
    <3>2. (IF p[1] \in names THEN value[p[2]] ELSE of[p[2]]) \in E
      BY <1>1
    <3> QED BY <3>1, <3>2
  <2>2. CASE \E b \in ToSet(k.allOf) \cup ToSet(k.anyOf) \cup ToSet(k.oneOf) \cup {k.items}
                    \cup (IF k.conditional THEN {k.then, k.else} ELSE {}) : can[b]
    <3>1. PICK b \in ToSet(k.allOf) \cup ToSet(k.anyOf) \cup ToSet(k.oneOf) \cup {k.items}
                    \cup (IF k.conditional THEN {k.then, k.else} ELSE {}) : Allows(of[b], l)
      BY <2>2
    <3>2. CASE b \in ToSet(k.allOf) \cup {k.items}
      BY <1>1, <3>1, <3>2
    <3>3. CASE b \in ToSet(k.anyOf)
      BY <1>1, <1>2, <3>1, <3>3
    <3>4. CASE b \in ToSet(k.oneOf)
      BY <1>1, <1>2, <3>1, <3>4
    <3>5. CASE k.conditional /\ b \in {k.then, k.else}
      BY <1>1, <1>3, <3>1, <3>5
    <3> QED BY <3>2, <3>3, <3>4, <3>5
  <2>3. ~\E p \in Applied(k) : IF p[1] \in names THEN Admits[<<l, <<p[2], {}>>>>] ELSE can[p[2]]
    OBVIOUS
  <2> QED BY <2>1, <2>2, <2>3 DEF SettableFrom
<1> QED BY <1>4, JoinedAllows DEF E

\* No object of T has a property of these names, under whatever keyword.
Silent(T, names) == \A n \in T : \A p \in ToSet(Schema[n].properties) \cup Applied(Schema[n]) : p[1] \notin names

\* Where no property of these names stands, none can be set.
LEMMA SilentIsUnsettable ==
    ASSUME NEW names \in NameSets, NEW l \in Literal, NEW T \in SUBSET SchemaNode, Downward(T), Silent(T, names)
    PROVE  \A v \in Visits : v[1] \in T \cup {None} => ~Settable[<<<<names, l>>, v>>]
<1> DEFINE x == <<names, l>>
           P == {v \in Visits : v[1] \in T \cup {None} => ~Settable[<<x, v>>]}
<1>1. ASSUME NEW v \in Visits, \A w \in Visits : <<w, v>> \in VisitBelow => w \in P PROVE v \in P
  <2> SUFFICES ASSUME v[1] \in T \cup {None}, Settable[<<x, v>>] PROVE FALSE
    OBVIOUS
  <2> DEFINE can == Under(Settable, x, v)
  <2>0. PICK k : k = Schema[v[1]]
    OBVIOUS
  <2>1. v[1] # None /\ v[1] \notin v[2] /\ SettableFrom(k, names, l, can)
    BY <2>0, SettableIs
  <2>2. v[1] \in SchemaNode /\ v[1] \in T
    BY <2>1, BranchesBelow
  <2>3. \A b \in Below(v[1]) \cup {None} : ~can[b]
    <3> TAKE b \in Below(v[1]) \cup {None}
    <3>0. b \in Branch /\ b \in T \cup {None}
      BY <2>2, BelowIs DEF Branch, Downward
    <3>1. PICK u \in Visits : u = <<b, v[2] \cup {v[1]}>> /\ <<u, v>> \in VisitBelow
      BY <2>1, <3>0, BranchesBelow
    <3>2. u \in P
      BY <1>1, <3>1
    <3>3. can[b] = Settable[<<x, u>>]
      BY <3>0, <3>1 DEF Under
    <3> HIDE DEF can, x
    <3> QED BY <3>0, <3>1, <3>2, <3>3
  <2>4. /\ \A p \in ToSet(k.properties) \cup Applied(k) : p[2] \in Below(v[1]) \cup {None}
        /\ ToSet(k.allOf) \cup ToSet(k.anyOf) \cup ToSet(k.oneOf) \cup {k.items}
           \cup (IF k.conditional THEN {k.then, k.else} ELSE {}) \subseteq Below(v[1]) \cup {None}
    BY <2>0, <2>2, BelowIs DEF Applied
  <2>5. \A p \in ToSet(k.properties) \cup Applied(k) : p[1] \notin names
    BY <2>0, <2>2 DEF Silent
  <2> HIDE DEF can
  <2> QED BY <2>1, <2>3, <2>4, <2>5 DEF SettableFrom
<1>2. Visits \subseteq P
  <2> HIDE DEF P
  <2> QED BY <1>1, VisitsEnd, Descent
<1> QED BY <1>2

\* The code reads all that n says of properties of these names.
Understood(n, names) ==
    /\ \A p \in Applied(Schema[n]) : p[1] \notin names /\ ~Mentions({p[2]}, names)
    /\ \A p \in ToSet(Schema[n].properties) :
          p[1] \in names => \A m \in AllBelow[{p[2]} \ {None}] : Strict(m)

\* What a caller may set wherever a schema applies is allowed by its evidence.
LEMMA SchemasAreBounds ==
    ASSUME NEW names \in NameSets, NEW l \in Literal, NEW G \in SUBSET SchemaNode, Downward(G),
           \A n \in G : Understood(n, names)
    PROVE  \A v \in Visits : v[1] \in G /\ Settable[<<<<names, l>>, v>>] => Allows(SchemaEvidence[<<names, v>>], l)
<1> DEFINE x == <<names, l>>
           P == {v \in Visits : v[1] \in G /\ Settable[<<x, v>>] => Allows(SchemaEvidence[<<names, v>>], l)}
<1>1. ASSUME NEW v \in Visits, \A w \in Visits : <<w, v>> \in VisitBelow => w \in P PROVE v \in P
  <2> SUFFICES ASSUME v[1] \in G, Settable[<<x, v>>] PROVE Allows(SchemaEvidence[<<names, v>>], l)
    OBVIOUS
  <2> DEFINE can == Under(Settable, x, v)
             of == Under(SchemaEvidence, names, v)
             value == OfBranches(ValueEvidence, v[1], v[2])
  <2>0. PICK k : k = Schema[v[1]]
    OBVIOUS
  <2>1. v[1] # None /\ v[1] \notin v[2] /\ SettableFrom(k, names, l, can)
    BY <2>0, SettableIs
  <2>2. SchemaEvidence[<<names, v>>] = MergedEvidence(KeywordEvidence(k, names, of, value))
    BY <2>0, <2>1, SchemaEvidenceIs DEF SchemaStep
  <2>3. v[1] \in SchemaNode
    BY <2>1, BranchesBelow
  <2>11. \A b \in Below(v[1]) \cup {None} : b \in Branch /\ b \in G \cup {None}
    BY <2>3, BelowIs DEF Branch, Downward
  <2>4. \A b \in Below(v[1]) \cup {None} : can[b] => Allows(of[b], l)
    <3> TAKE b \in Below(v[1]) \cup {None}
    <3>1. PICK u \in Visits : u = <<b, v[2] \cup {v[1]}>> /\ <<u, v>> \in VisitBelow
      BY <2>1, <2>11, BranchesBelow
    <3>2. u \in P
      BY <1>1, <3>1
    <3>3. can[b] = Settable[<<x, u>>] /\ of[b] = SchemaEvidence[<<names, u>>]
      BY <2>11, <3>1 DEF Under
    <3>4. CASE b = None
      <4>1. ~Settable[<<x, u>>]
        BY <3>1, <3>4, SettableIs
      <4> HIDE DEF can, of, x
      <4> QED BY <3>3, <4>1
    <3>5. CASE b # None
      <4> HIDE DEF can, of, x
      <4> QED BY <2>11, <3>1, <3>2, <3>3, <3>5
    <3> QED BY <3>4, <3>5
  <2>5. ASSUME NEW p \in ToSet(k.properties), p[1] \in names, Admits[<<l, <<p[2], {}>>>>]
        PROVE  Allows(value[p[2]], l)
    <3> DEFINE b == p[2]
               T == AllBelow[{b} \ {None}]
    <3>0. b \in Branch
      BY <2>0, <2>3, KeywordsTyped
    <3>1. PICK u \in Visits : u = <<b, v[2] \cup {v[1]}>>
      BY <2>1, <3>0, BranchesBelow
    <3>2. value[b] = ValueEvidence[u]
      BY <3>0, <3>1 DEF OfBranches
    <3>3. u[1] = b /\ {} \in SUBSET u[2] /\ Admits[<<l, <<u[1], {}>>>>]
      BY <2>5, <3>1
    <3>4. {b} \ {None} \in SUBSET SchemaNode
      BY <3>0 DEF Branch
    <3>5. T \in SUBSET SchemaNode /\ b \in T \cup {None} /\ Downward(T)
      BY <3>4, AllBelowIs
    <3>6. \A m \in T : Strict(m)
      BY <2>0, <2>5 DEF Understood
    <3> HIDE DEF T
    <3>7. Leaves(ValueEvidence[u], l)
      BY <3>3, <3>5, <3>6, ValuesAreBounds
    <3>8. ValueEvidence[u].mentioned
      BY ValueEvidenceIs DEF Bound
    <3> QED BY <3>2, <3>7, <3>8 DEF Allows
  <2>6. ASSUME NEW p \in Applied(k) PROVE p[1] \notin names /\ ~can[p[2]]
    <3> DEFINE b == p[2]
               T == AllBelow[{b} \ {None}]
    <3>1. p[1] \notin names /\ ~Mentions({b}, names)
      BY <2>0, <2>6 DEF Understood
    <3>2. b \in Below(v[1]) \cup {None}
      BY <2>0, <2>3, <2>6, BelowIs DEF Applied
    <3>3. b \in Branch /\ b \in G \cup {None}
      BY <2>11, <3>2
    <3>4. {b} \ {None} \in SUBSET SchemaNode
      BY <3>3 DEF Branch
    <3>5. T \in SUBSET SchemaNode /\ b \in T \cup {None} /\ Downward(T)
      BY <3>4, AllBelowIs
    <3>6. Silent(T \cap G, names)
      BY <3>1 DEF Silent, Mentions, Understood
    <3> HIDE DEF T
    <3>7. Downward(T \cap G) /\ T \cap G \in SUBSET SchemaNode
      BY <3>5 DEF Downward
    <3>8. PICK u \in Visits : u = <<b, v[2] \cup {v[1]}>>
      BY <2>1, <3>3, BranchesBelow
    <3>9. ~Settable[<<x, u>>]
      <4>1. u[1] \in (T \cap G) \cup {None}
        BY <3>3, <3>5, <3>8
      <4> QED BY <3>6, <3>7, <4>1, SilentIsUnsettable
    <3>10. can[b] = Settable[<<x, u>>]
      BY <3>3, <3>8 DEF Under
    <3> QED BY <3>1, <3>9, <3>10
  <2>7. /\ \A p \in ToSet(k.properties) : p[2] \in Below(v[1]) \cup {None}
        /\ ToSet(k.allOf) \cup ToSet(k.anyOf) \cup ToSet(k.oneOf) \cup {k.items}
           \cup (IF k.conditional THEN {k.then, k.else} ELSE {}) \subseteq Below(v[1]) \cup {None}
    BY <2>0, <2>3, BelowIs
  <2> HIDE DEF can, of, value
  <2>8. \A p \in ToSet(k.properties) :
           IF p[1] \in names THEN Admits[<<l, <<p[2], {}>>>>] => Allows(value[p[2]], l)
           ELSE can[p[2]] => Allows(of[p[2]], l)
    BY <2>4, <2>5, <2>7
  <2>9. \A b \in ToSet(k.allOf) \cup ToSet(k.anyOf) \cup ToSet(k.oneOf) \cup {k.items}
                 \cup (IF k.conditional THEN {k.then, k.else} ELSE {}) : can[b] => Allows(of[b], l)
    BY <2>4, <2>7
  <2>10. Allows(MergedEvidence(KeywordEvidence(k, names, of, value)), l)
    BY <2>1, <2>6, <2>8, <2>9, KeywordsAllow
  <2> QED BY <2>2, <2>10
<1>2. Visits \subseteq P
  <2> HIDE DEF P
  <2> QED BY <1>1, VisitsEnd, Descent
<1> QED BY <1>2

\* A scope inferred as restricted holds what the schemas let a caller choose, those of them
\* in which no keyword is overlooked.
LEMMA InferredIsBound ==
    ASSUME NEW i \in Scoped, NEW text, NEW nodes \in Seq(SchemaNode), NEW l \in Literal,
           ScopeForCapability(i, text, nodes).kind = "restricted",
           NEW part \in SUBSET ToSet(nodes), ~Overlooked(NamesFor(i), part),
           NEW n \in part, Settable[<<<<NamesFor(i), l>>, <<n, {}>>>>]
    PROVE  Normal(i, l) \in ScopeForCapability(i, text, nodes).values
<1>1. PICK names \in NameSets : names = NamesFor(i)
  BY DEF NameSets, NamesFor
<1>2. Allows(AllSchemas(names, nodes), l)
  <2> DEFINE G == AllBelow[part \ {None}]
  <2>1. part \in SUBSET SchemaNode /\ part \ {None} = part
    BY MembersOf, SchemaAssumption
  <2>2. PICK v \in Visits : v = <<n, {}>>
    BY <2>1 DEF Visits, Branch
  <2>3. Allows(SchemaEvidence[<<names, <<n, {}>>>>], l)
    <3>1. G \in SUBSET SchemaNode /\ Downward(G) /\ n \in G
      BY <2>1, AllBelowIs
    <3>2. \A m \in G : Understood(m, names)
      BY <1>1 DEF Overlooked, Understood, Strict
    <3> HIDE DEF G
    <3>3. v[1] \in G /\ Settable[<<<<names, l>>, v>>]
      BY <1>1, <2>2, <3>1
    <3>4. Allows(SchemaEvidence[<<names, v>>], l)
      BY <3>1, <3>2, <3>3, SchemasAreBounds
    <3> QED BY <2>2, <3>4
  <2>4. SchemaEvidence[<<names, <<n, {}>>>>] \in {SchemaEvidence[<<names, <<m, {}>>>>] : m \in ToSet(nodes)}
    OBVIOUS
  <2> QED BY <2>3, <2>4, JoinedAllows DEF AllSchemas
<1>3. ASSUME NEW d, NEW f, ScopeFrom(AllSchemas(names, nodes), d, f).kind = "restricted"
      PROVE  f[l] \in ScopeFrom(AllSchemas(names, nodes), d, f).values
  <2> DEFINE e == AllSchemas(names, nodes)
             given == e.values \cup d
             values == {f[x] : x \in given}
  <2>1. ~(e.mentioned /\ e.ambiguous)
    BY <1>3 DEF ScopeFrom, ScopeOf
  <2>2. l \in given
    BY <1>2, <2>1 DEF Allows, Leaves
  <2>3. f[l] \in values
    BY <2>2
  <2>4. ScopeFrom(e, d, f) \in {ScopeOf("unknown", {}, "ambiguous"), ScopeOf("unknown", {}, "nothing"),
                                ScopeOf("unknown", {}, "unsafe"), ScopeOf("broad", values, "wide"),
                                ScopeOf("restricted", values, "finite")}
    BY DEF ScopeFrom
  <2> HIDE DEF e, values, given
  <2>5. ScopeFrom(e, d, f).values = values
    BY <1>3, <2>4 DEF ScopeOf, e
  <2> QED BY <2>3, <2>5 DEF e
<1>4. CASE i = "network.external"
  <2>1. names = NetNames /\ Normal(i, l) = Net[l]
    BY <1>1, <1>4 DEF NamesFor, Normal
  <2>2. ScopeForCapability(i, text, nodes) = NetworkScope(text, nodes)
    BY <1>4 DEF ScopeForCapability
  <2>3. ScopeOf("broad", {EveryHost}, "described").kind # "restricted"
    BY DEF ScopeOf
  <2>4. NetworkScope(text, nodes) = ScopeFrom(AllSchemas(names, nodes), text.hosts, Net)
    BY <2>1, <2>2, <2>3 DEF NetworkScope
  <2> QED BY <1>3, <2>1, <2>2, <2>4
<1>5. CASE i # "network.external"
  <2>1. names = PathNames /\ Normal(i, l) = Path[l]
    BY <1>1, <1>5 DEF NamesFor, Normal
  <2>2. ScopeForCapability(i, text, nodes) = FilesystemScope(text, nodes)
    BY <1>5 DEF ScopeForCapability, Scoped
  <2>3. ScopeOf("broad", {EveryPath}, "described").kind # "restricted"
    BY DEF ScopeOf
  <2>4. FilesystemScope(text, nodes) = ScopeFrom(AllSchemas(names, nodes), text.paths, Path)
    BY <2>1, <2>2, <2>3 DEF FilesystemScope
  <2> QED BY <1>3, <2>1, <2>2, <2>4
<1> QED BY <1>4, <1>5

\* One scope for several definitions is restricted only if each is, to what each admits.
LEMMA MergedIsBound ==
    ASSUME NEW S, NEW s \in S, s.kind \in {"restricted", "broad", "unknown"},
           MergedScope(S).kind = "restricted"
    PROVE  s.kind = "restricted" /\ s.values \subseteq MergedScope(S).values
<1> DEFINE values == UNION {x.values : x \in S}
           broad == {x \in S : x.kind = "broad"}
<1>1. broad = {} /\ ~(\E x \in S : x.kind = "unknown") /\ MergedScope(S) = ScopeOf("restricted", values, "union")
  BY DEF MergedScope, ScopeOf
<1>2. s.values \subseteq values
  OBVIOUS
<1> HIDE DEF values
<1> QED BY <1>1, <1>2 DEF ScopeOf

\* So is the scope a capability is reconciled to.
LEMMA ReconciledIsBound ==
    ASSUME NEW caps, Keyed(caps), NEW c \in caps, c.scope.kind \in {"restricted", "broad", "unknown"},
           Rescoped(caps, c).scope.kind = "restricted"
    PROVE  c.scope.kind = "restricted" /\ c.scope.values \subseteq Rescoped(caps, c).scope.values
<1>1. CASE c.id \in Scoped /\ SameKey(caps, c) # {c}
  <2> DEFINE S == {d.scope : d \in SameKey(caps, c)}
  <2>1. DOMAIN c = CapField
    BY DEF Keyed
  <2>2. Rescoped(caps, c).scope = MergedScope(S)
    BY <1>1, <2>1 DEF Rescoped, CapField
  <2>3. c.scope \in S
    BY DEF SameKey
  <2> HIDE DEF S
  <2> QED BY <2>2, <2>3, MergedIsBound
<1>2. CASE ~(c.id \in Scoped /\ SameKey(caps, c) # {c})
  BY <1>2 DEF Rescoped
<1> QED BY <1>1, <1>2

\* What is inferred of a tool has the scope inferred for its id.
LEMMA ScopeInferred ==
    ASSUME NEW t, NEW s PROVE \A c \in Inferred(t, s) : c.scope = ScopeForCapability(c.id, t.text, t.schema)
BY DEF Inferred

\* A restricted scope of tools is a bound on what any of their schemas let a caller choose.
LEMMA ScopesAreBounds ==
    ASSUME NEW T, OneToolPerFile(T), NEW caps, caps = Reconciled(InferCapabilities(T)),
           NEW c \in caps, NEW e \in caps, c.id \in Scoped, c.scope.kind = "restricted",
           e.id = c.id, e.tool = c.tool, NEW t \in T, t.name = e.tool, t.source = e.source,
           NEW part \in SUBSET ToSet(t.schema), ~Overlooked(NamesFor(c.id), part),
           NEW l \in Literal, NEW n \in part, Settable[<<<<NamesFor(c.id), l>>, <<n, {}>>>>]
    PROVE  Normal(c.id, l) \in c.scope.values
<1> DEFINE old == InferCapabilities(T)
<1>1. c.scope = e.scope
  BY CapabilitiesOfTools
<1>2. Keyed(old)
  BY InferenceOf DEF Keyed
<1>3. PICK o \in old : e = Rescoped(old, o)
  BY <1>2, ReconciledOf
<1>4. o.id = e.id /\ o.tool = e.tool /\ o.source = e.source
  BY <1>2, <1>3, ReconciledOf DEF CapField
<1>5. t \in ToolRecord
  BY DEF OneToolPerFile
<1>6. o.scope = ScopeForCapability(o.id, t.text, t.schema)
  <2>1. PICK u \in T : o \in Inferred(u, SchemaSignals(u.schema))
    BY DEF InferCapabilities
  <2>2. u \in ToolRecord
    BY DEF OneToolPerFile
  <2>3. SchemaSignals(u.schema).says \subseteq CapId
    BY <2>2, SignalsTyped DEF ToolRecord
  <2>4. o.tool = u.name /\ o.source = u.source
    BY <2>1, <2>2, <2>3, InferredOf
  <2>5. u = t
    BY <1>4, <2>4 DEF OneToolPerFile
  <2> QED BY <2>1, <2>5, ScopeInferred
<1> HIDE DEF old
<1>7. o.scope.kind = "restricted" /\ o.scope.values \subseteq e.scope.values
  BY <1>1, <1>2, <1>3, <1>6, ScopesHaveKinds, ReconciledIsBound
<1>8. Normal(o.id, l) \in o.scope.values
  <2>1. t.schema \in Seq(SchemaNode)
    BY <1>5 DEF ToolRecord
  <2> QED BY <1>4, <1>6, <1>7, <2>1, InferredIsBound
<1> QED BY <1>1, <1>4, <1>7, <1>8

\* A capability is of a tool of its name in its file.
LEMMA ToolOfCapability ==
    ASSUME NEW T, OneToolPerFile(T), NEW caps, caps = Reconciled(InferCapabilities(T)), NEW e \in caps
    PROVE  \E t \in T : t.name = e.tool /\ t.source = e.source
<1> DEFINE old == InferCapabilities(T)
<1>1. Keyed(old)
  BY InferenceOf DEF Keyed
<1>2. PICK o \in old : e = Rescoped(old, o)
  BY <1>1, ReconciledOf
<1>3. o.tool = e.tool /\ o.source = e.source
  BY <1>1, <1>2, ReconciledOf DEF CapField
<1>4. PICK u \in T : o \in Inferred(u, SchemaSignals(u.schema))
  BY DEF InferCapabilities
<1>5. u \in ToolRecord
  BY DEF OneToolPerFile
<1>6. SchemaSignals(u.schema).says \subseteq CapId
  BY <1>5, SignalsTyped DEF ToolRecord
<1>7. o.tool = u.name /\ o.source = u.source
  BY <1>4, <1>5, <1>6, InferredOf
<1> QED BY <1>3, <1>7

\* The tools judged and sealed are those that were found.
SealedTools ==
    /\ scan \in {"reconciling", "drawing", "loading", "sealing"} => discovery = "found" /\ result.tools = tools
    /\ seal # None => scan \in Sealed /\ discovery = "found" /\ seal.tools = tools

\* No step changes the tools that were found once scan goes on with them.
LEMMA SealedToolsInductive == ASSUME SealedTools, BuildInv, [Next]_vars PROVE SealedTools'
<1>1. CASE Discovering
  <2>1. scan = "discovering" /\ scan' = scan /\ seal' = seal
    BY <1>1 DEF Discovering, pipelineVars
  <2> QED BY <2>1 DEF SealedTools, Sealed
<1>2. CASE Infer
  <2>1. scan = "discovering" /\ UNCHANGED <<discovery, tools, seal>> /\ scan' \in {"rejected", "reconciling"}
    BY <1>2 DEF Infer, discoveryVars
  <2>2. scan' = "reconciling" => discovery = "found" /\ result'.tools = tools
    BY <1>2, <2>1 DEF Infer, BuildInv, Part
  <2> QED BY <2>1, <2>2 DEF SealedTools, Sealed
<1>3. CASE Reconcile \/ DrawGraph
  <2>1. /\ scan \in {"reconciling", "drawing"} /\ scan' \in {"drawing", "loading"}
        /\ UNCHANGED <<discovery, tools, seal>>
    BY <1>3 DEF Reconcile, DrawGraph, discoveryVars
  <2>2. result'.tools = result.tools
    BY <1>3 DEF Reconcile, DrawGraph, BuildInv, Part
  <2> QED BY <2>1, <2>2 DEF SealedTools, Sealed
<1>4. CASE Evaluate
  <2>1. scan = "loading" /\ scan' \in {"rejected", "sealing"} /\ UNCHANGED <<discovery, tools, seal>>
    BY <1>4 DEF Evaluate, discoveryVars
  <2>2. result'.tools = result.tools
    BY <1>4 DEF Evaluate, BuildInv, Part
  <2> QED BY <2>1, <2>2 DEF SealedTools, Sealed
<1>5. CASE Seal
  <2>1. /\ scan = "sealing" /\ UNCHANGED <<discovery, tools, result>>
        /\ \/ scan' = "sealed" /\ seal' = result
           \/ scan' = "rejected" /\ seal' = seal
    BY <1>5 DEF Seal, discoveryVars
  <2> QED BY <2>1 DEF SealedTools, Sealed
<1>6. CASE WriteSnapshot \/ Compare
  <2>1. UNCHANGED <<discovery, tools, result, seal>> /\ scan \in Sealed /\ scan' \in Sealed
    BY <1>6 DEF WriteSnapshot, WriteIf, Compare, discoveryVars, Sealed
  <2> QED BY <2>1 DEF SealedTools, Sealed
<1>7. CASE Loading \/ UNCHANGED vars
  <2>1. UNCHANGED <<discovery, tools, result, seal>> /\ scan' = scan
    BY <1>7 DEF Loading, vars, pipelineVars, discoveryVars
  <2> QED BY <2>1 DEF SealedTools, Sealed
<1>8. CASE Environment
  <2>1. CASE scan = "discovering" /\ UNCHANGED pipelineVars
    <3>1. scan = "discovering" /\ scan' = scan /\ seal' = seal
      BY <2>1 DEF pipelineVars
    <3> QED BY <3>1 DEF SealedTools, Sealed
  <2>2. ASSUME NEW part \in Part, Tamper(part) PROVE SealedTools'
    BY <2>2 DEF Tamper, discoveryVars, SealedTools, Sealed
  <2>3. ASSUME NEW e, EditFile(e) \/ ReplaceFile(e) PROVE SealedTools'
    <3>1. UNCHANGED <<discovery, tools, result, seal>> /\ scan' = scan
      BY <2>3 DEF EditFile, ReplaceFile, discoveryVars
    <3> QED BY <3>1 DEF SealedTools, Sealed
  <2> QED BY <1>8, <2>1, <2>2, <2>3 DEF Environment
<1> QED BY <1>1, <1>2, <1>3, <1>4, <1>5, <1>6, <1>7, <1>8 DEF Next, Program

\* Every scope of a sealed result that is called restricted admits whatever path or host the
\* schemas of a definition let a caller of the tool choose at the scoped properties they name, if
\* the code overlooks no keyword in them: through joined definitions, through references from
\* one object to another and back, through alternatives and through reconciling.
THEOREM BoundIsSoundAlways == Spec => []BoundIsSound
<1>1. Init => BuildInv /\ SealedTools
  <2> SUFFICES ASSUME Init PROVE BuildInv /\ SealedTools
    OBVIOUS
  <2>1. SealedTools
    BY DEF Init, SealedTools, Sealed
  <2> QED BY <2>1, BuildStarts
<1>2. BuildInv /\ SealedTools /\ DiscoveryInv /\ ArtifactInv /\ [Next]_vars => (BuildInv /\ SealedTools)'
  BY BuildInductive, SealedToolsInductive
<1>3. BuildInv /\ SealedTools /\ DiscoveryInv => BoundIsSound
  <2> SUFFICES ASSUME BuildInv, SealedTools, DiscoveryInv, seal # None, ~Changed,
                      NEW c \in seal.caps, c.id \in Scoped, c.scope.kind = "restricted",
                      NEW e \in seal.caps, e.id = c.id, e.tool = c.tool,
                      NEW d \in Definitions(e.source), d.name = c.tool,
                      ~Overlooked(NamesFor(c.id), ToSet(d.schema)),
                      NEW l \in Literal, Choosable(NamesFor(c.id), l, d)
               PROVE  Normal(c.id, l) \in c.scope.values
    BY DEF BoundIsSound
  <2>1. Built(seal) /\ seal.tools = tools /\ discovery = "found"
    BY DEF BuildInv, SealedTools
  <2>2. OneToolPerFile(tools) /\ seal.caps = Reconciled(InferCapabilities(tools))
    BY <2>1 DEF Built
  <2>3. PICK t \in tools : t.name = e.tool /\ t.source = e.source
    BY <2>2, ToolOfCapability
  <2>4. FindsWhatIsThere
    BY FoundIsThere DEF DiscoveryInv
  <2>5. t \in ToolRecord
    BY <2>2 DEF OneToolPerFile
  <2>6. t.source \in Candidates /\ ParsesWell(t.source) /\ t.name \in Tool
    BY <2>1, <2>4, <2>5 DEF FindsWhatIsThere, ToolRecord
  <2> DEFINE defined == {x \in Definitions(t.source) : x.name = t.name}
             same == {u \in tools : u.name = t.name /\ u.source = t.source}
  <2>7. IF defined = {} THEN same = {} ELSE \E u \in same : same = {u} /\ Joins(u, defined)
    BY <2>1, <2>4, <2>6 DEF FindsWhatIsThere
  <2>8. d \in defined /\ t \in same
    BY <2>3
  <2> HIDE DEF defined, same
  <2>9. Joins(t, defined)
    BY <2>7, <2>8
  <2>10. ToSet(d.schema) \subseteq ToSet(t.schema)
    BY <2>8, <2>9 DEF Joins
  <2>11. PICK n \in ToSet(d.schema) : Settable[<<<<NamesFor(c.id), l>>, <<n, {}>>>>]
    BY DEF Choosable
  <2>12. ToSet(d.schema) \in SUBSET ToSet(t.schema)
    BY <2>10
  <2> QED BY <2>2, <2>3, <2>11, <2>12, ScopesAreBounds
<1> QED BY <1>1, <1>2, <1>3, DiscoveryInvAlways, ArtifactAlways, SpecIsSafe, PTL

----------------------------------------------------------------------------
(* The sources of a policy *)

\* Each file once, after the files it inherits from directly: those below it.
Ordered(below, s) ==
    /\ \A j, k \in 1..Len(s) : s[j] = s[k] => j = k
    /\ \A k \in 1..Len(s) : \A p \in below[s[k]] : \E j \in 1..(k - 1) : s[j] = p

\* A file may be appended after those below it.
LEMMA AppendKeepsOrdered ==
    ASSUME NEW below, NEW s \in Seq(PolicyFile), Ordered(below, s), NEW x \in PolicyFile,
           x \notin ToSet(s), below[x] \subseteq ToSet(s)
    PROVE  /\ Append(s, x) \in Seq(PolicyFile) /\ Ordered(below, Append(s, x))
           /\ ToSet(Append(s, x)) = ToSet(s) \cup {x}
<1>1. PICK n \in Nat : n = Len(s)
  BY LenProperties
<1>2. PICK t : t = Append(s, x)
  OBVIOUS
<1>3. t \in Seq(PolicyFile) /\ Len(t) = n + 1 /\ t[n + 1] = x /\ \A k \in 1..n : t[k] = s[k]
  BY <1>1, <1>2, AppendProperties
<1>4. ToSet(s) = {s[k] : k \in 1..n} /\ ToSet(t) = {t[k] : k \in 1..(n + 1)}
  BY <1>1, <1>3, MembersOf
<1>5. 1..(n + 1) = 1..n \cup {n + 1}
  OBVIOUS
<1>6. ToSet(t) = ToSet(s) \cup {x}
  BY <1>3, <1>4, <1>5
<1>7. \A k \in 1..n : t[k] # x
  BY <1>3, <1>4
<1>8. \A j, k \in 1..n : t[j] = t[k] => j = k
  BY <1>1, <1>3 DEF Ordered
<1>9. \A j, k \in 1..(n + 1) : t[j] = t[k] => j = k
  BY <1>3, <1>5, <1>7, <1>8
<1>10. ASSUME NEW k \in 1..(n + 1), NEW p \in below[t[k]] PROVE \E j \in 1..(k - 1) : t[j] = p
  <2>1. CASE k = n + 1
    <3>1. PICK j \in 1..n : s[j] = p
      BY <1>3, <1>4, <1>10, <2>1
    <3> QED BY <1>3, <2>1, <3>1
  <2>2. CASE k # n + 1
    <3>1. k \in 1..n
      BY <2>2
    <3>2. PICK j \in 1..(k - 1) : s[j] = p
      BY <1>1, <1>3, <1>10, <3>1 DEF Ordered
    <3>3. j \in 1..n
      BY <3>1
    <3> QED BY <1>3, <3>2, <3>3
  <2> QED BY <2>1, <2>2
<1> QED BY <1>2, <1>3, <1>6, <1>9, <1>10 DEF Ordered

\* Adding sources whose parents come before them keeps the order and loses none.
LEMMA AddKeepsOrdered ==
    ASSUME NEW below, NEW s \in Seq(PolicyFile), Ordered(below, s), NEW more \in Seq(PolicyFile),
           \A k \in 1..Len(more) : \A p \in below[more[k]] :
               p \in ToSet(s) \/ \E j \in 1..(k - 1) : more[j] = p
    PROVE  /\ AddSources(s, more) \in Seq(PolicyFile) /\ Ordered(below, AddSources(s, more))
           /\ ToSet(AddSources(s, more)) = ToSet(s) \cup ToSet(more)
<1>1. PICK n \in Nat : n = Len(more)
  BY LenProperties
<1> DEFINE Val == Seq(PolicyFile)
           D == 0..n
           F == [D -> Val]
           Body(u, k) == IF k = 0 THEN s
                         ELSE IF more[k] \in ToSet(u[k - 1]) THEN u[k - 1] ELSE Append(u[k - 1], more[k])
           step == [p \in F \X D |-> Body(p[1], p[2])]
           upTo == CHOOSE u : u = [k \in D |-> Body(u, k)]
<1> HIDE DEF Val, F, D, Body, step, upTo
<1>2. \A k \in 1..n : more[k] \in PolicyFile /\ k - 1 \in D /\ k \in D
  BY <1>1, ElementOfSeq DEF D
<1>3. \A u \in F : \A k \in D : Body(u, k) \in Val
  <2> TAKE u \in F
  <2> TAKE k \in D
  <2>1. CASE k = 0
    BY <2>1 DEF Body, Val
  <2>2. CASE k # 0
    <3>1. k \in 1..n /\ k - 1 \in D
      BY <2>2 DEF D
    <3>2. PICK r \in Val : r = u[k - 1]
      BY <3>1 DEF F
    <3>3. PICK x \in PolicyFile : x = more[k]
      BY <1>2, <3>1
    <3>4. Append(r, x) \in Val
      BY AppendProperties DEF Val
    <3> QED BY <2>2, <3>2, <3>3, <3>4 DEF Body
  <2> QED BY <2>1, <2>2
<1>4. \A u \in F : \A k \in D : step[<<u, k>>] = Body(u, k)
  <2> TAKE u \in F
  <2> TAKE k \in D
  <2>1. <<u, k>> \in F \X D /\ <<u, k>>[1] = u /\ <<u, k>>[2] = k
    OBVIOUS
  <2> QED BY <2>1 DEF step
<1>5. step \in [F \X D -> Val]
  BY <1>3 DEF step
<1>6. Local(step, Less, D, Val)
  <2>1. ASSUME NEW g \in F, NEW h \in F, NEW k \in D, \A j \in D : <<j, k>> \in Less => g[j] = h[j]
        PROVE  step[<<g, k>>] = step[<<h, k>>]
    <3>1. CASE k = 0
      BY <1>4, <3>1 DEF Body
    <3>2. CASE k # 0
      <4>1. k - 1 \in D /\ k - 1 \in Nat /\ k \in Nat /\ k - 1 < k
        BY <3>2 DEF D
      <4>2. <<k - 1, k>> \in Less
        BY <4>1 DEF Less
      <4>3. g[k - 1] = h[k - 1]
        BY <2>1, <4>1, <4>2
      <4>4. Body(g, k) = Body(h, k)
        BY <4>3 DEF Body
      <4> QED BY <1>4, <4>4
    <3> QED BY <3>1, <3>2
  <2> QED BY <2>1 DEF Local, F
<1>7. IsWellFoundedOn(Less, D)
  BY UpToIsWellFounded DEF D
<1>8. Val # {}
  BY DEF Val
<1>9. \E u \in F : \A k \in D : u[k] = step[<<u, k>>]
  <2>1. step \in [[D -> Val] \X D -> Val]
    BY <1>5 DEF F
  <2>2. Recursion(step, Less, D, Val)
    BY <2>1, <1>6, <1>7, <1>8 DEF Recursion
  <2>3. \E u \in [D -> Val] : \A k \in D : u[k] = step[<<u, k>>]
    BY <2>2, RecursionIsDefined
  <2> QED BY <2>3 DEF F
<1>10. PICK v \in F : \A k \in D : v[k] = Body(v, k)
  BY <1>4, <1>9
<1>11. v = [k \in D |-> Body(v, k)]
  BY <1>10 DEF F
<1>12. upTo = [k \in D |-> Body(upTo, k)]
  BY <1>11 DEF upTo
<1>13. AddSources(s, more) = upTo[n]
  BY <1>1 DEF AddSources, upTo, D, Body
<1>14. /\ upTo[0] = s
       /\ \A k \in 1..n : upTo[k] = IF more[k] \in ToSet(upTo[k - 1]) THEN upTo[k - 1]
                                    ELSE Append(upTo[k - 1], more[k])
  <2>1. \A k \in D : upTo[k] = Body(upTo, k)
    BY <1>12
  <2>2. 0 \in D /\ \A k \in 1..n : k \in D /\ k # 0
    BY DEF D
  <2> QED BY <2>1, <2>2 DEF Body
<1> DEFINE Good(k) == /\ upTo[k] \in Val /\ Ordered(below, upTo[k])
                      /\ ToSet(upTo[k]) = ToSet(s) \cup {more[j] : j \in 1..k}
           Left == {k \in D : ~Good(k)}
<1> USE DEF Val, D
<1>15. Good(0)
  BY <1>14
<1>16. ASSUME NEW k \in 1..n, Good(k - 1) PROVE Good(k)
  <2>1. PICK r \in Val : /\ r = upTo[k - 1] /\ Ordered(below, r)
                         /\ ToSet(r) = ToSet(s) \cup {more[j] : j \in 1..(k - 1)}
    BY <1>16
  <2>2. PICK x \in PolicyFile : x = more[k]
    BY <1>2
  <2>3. upTo[k] = IF x \in ToSet(r) THEN r ELSE Append(r, x)
    BY <1>14, <2>1, <2>2
  <2>4. 1..k = 1..(k - 1) \cup {k}
    OBVIOUS
  <2>5. {more[j] : j \in 1..k} = {more[j] : j \in 1..(k - 1)} \cup {x}
    BY <2>2, <2>4
  <2>6. below[x] \subseteq ToSet(r)
    BY <1>1, <2>1, <2>2
  <2>7. CASE x \in ToSet(r)
    BY <2>1, <2>3, <2>5, <2>7
  <2>8. CASE x \notin ToSet(r)
    <3>1. /\ Append(r, x) \in Val /\ Ordered(below, Append(r, x))
          /\ ToSet(Append(r, x)) = ToSet(r) \cup {x}
      BY <2>1, <2>6, <2>8, AppendKeepsOrdered
    <3> QED BY <2>1, <2>3, <2>5, <2>8, <3>1
  <2> QED BY <2>7, <2>8
<1>17. Left = {}
  <2> SUFFICES ASSUME Left # {} PROVE FALSE
    OBVIOUS
  <2>1. Left \subseteq Nat
    BY <1>1
  <2>2. PICK k \in Left : \A j \in Left : k <= j
    <3> HIDE DEF Left
    <3> QED BY <2>1, SmallestOf
  <2>3. k # 0
    BY <1>15
  <2>4. k \in 1..n /\ k - 1 \in D /\ ~(k <= k - 1)
    BY <2>3
  <2>5. Good(k - 1)
    <3> HIDE DEF Good
    <3> QED BY <2>2, <2>4
  <2>6. Good(k)
    <3> HIDE DEF Good
    <3> QED BY <1>16, <2>4, <2>5
  <2> QED BY <2>6
<1>18. Good(n)
  <2>1. n \in D
    OBVIOUS
  <2> HIDE DEF Good
  <2> QED BY <1>17, <2>1
<1>19. ToSet(more) = {more[j] : j \in 1..n}
  BY <1>1, MembersOf
<1> QED BY <1>13, <1>18, <1>19

----------------------------------------------------------------------------
(* The files that a policy comes from *)

\* The folder holds policy files.
FolderOK == DOMAIN folder = PolicyFile /\ \A f \in PolicyFile : IsPolicyFile(folder[f])

\* A policy file that is there and says properly what it extends.
Extending(f) == folder[f] # Absent /\ folder[f].refs # Bad

\* The parents of a file are policy files, in the order it lists them.
LEMMA ParentsTyped ==
    ASSUME FolderOK, NEW f \in PolicyFile
    PROVE  /\ Parents(f) \in Seq(PolicyFile) /\ ToSet(Parents(f)) \subseteq PolicyFile
           /\ Extending(f) => /\ folder[f].refs \in Seq(Ref) /\ Len(Parents(f)) = Len(folder[f].refs)
                              /\ \A i \in 1..Len(folder[f].refs) : Parents(f)[i] = folder[f].refs[i].to
<1>1. CASE ~Extending(f)
  <2>1. Parents(f) = <<>>
    BY <1>1 DEF Parents, Extending
  <2>2. Parents(f) \in Seq(PolicyFile)
    BY <2>1
  <2> QED BY <1>1, <2>2, MembersOf
<1>2. CASE Extending(f)
  <2>1. PICK r : r = folder[f].refs
    OBVIOUS
  <2>2. r \in Seq(Ref) /\ Parents(f) = [k \in DOMAIN r |-> r[k].to]
    BY <1>2, <2>1 DEF Parents, Extending, FolderOK, IsPolicyFile
  <2>3. PICK n \in Nat : n = Len(r) /\ DOMAIN r = 1..n /\ \A k \in 1..n : r[k] \in Ref
    BY <2>2, LenProperties, ElementOfSeq
  <2>4. Parents(f) \in [1..n -> PolicyFile]
    BY <2>2, <2>3 DEF Ref
  <2>5. Parents(f) \in Seq(PolicyFile)
    BY <2>4, SeqDef
  <2>6. Len(Parents(f)) = n
    BY <2>4, <2>5, LenProperties
  <2> QED BY <2>1, <2>2, <2>3, <2>5, <2>6, MembersOf
<1> QED BY <1>1, <1>2

\* The files each file inherits from directly.
ParentsOf == [f \in PolicyFile |-> ToSet(Parents(f))]
WithParents(S) == S \cup UNION {ToSet(Parents(f)) : f \in S}

\* Whatever holds the root and the parents of its members holds all that is inherited, and that
\* is such a set.
LEMMA InheritedIs ==
    ASSUME FolderOK
    PROVE  /\ RootPolicy \in Inherited /\ Inherited \subseteq PolicyFile
           /\ \A f \in Inherited : ToSet(Parents(f)) \subseteq Inherited
           /\ \A U \in SUBSET PolicyFile :
                 RootPolicy \in U /\ (\A f \in U : ToSet(Parents(f)) \subseteq U) => Inherited \subseteq U
<1> DEFINE D == SUBSET PolicyFile
           F == [D -> D]
           Body(g, S) == LET T == S \cup UNION {ToSet(Parents(f)) : f \in S} IN IF T = S THEN S ELSE g[T]
           step == [p \in F \X D |-> Body(p[1], p[2])]
           rest == [S \in D |-> Cardinality(PolicyFile \ S)]
           R == LexBelow(D, rest, [S \in D |-> 0])
<1>1. \A S \in D : WithParents(S) \in D
  BY ParentsTyped DEF WithParents
<1>2. \A g, S : Body(g, S) = IF WithParents(S) = S THEN S ELSE g[WithParents(S)]
  BY DEF WithParents
<1>3. IsFiniteSet(PolicyFile)
  BY PolicyLoadAssumption
<1>4. rest \in [D -> Nat]
  <2>1. \A S \in D : Cardinality(PolicyFile \ S) \in Nat
    BY <1>3, FS_Subset, FS_CardinalityType
  <2> QED BY <2>1
<1>5. [S \in D |-> 0] \in [D -> Nat]
  OBVIOUS
<1>6. ASSUME NEW S \in D, NEW T \in D, S \subseteq T, T # S PROVE <<T, S>> \in R
  <2>1. IsFiniteSet(PolicyFile \ S) /\ PolicyFile \ T \subseteq PolicyFile \ S /\ PolicyFile \ T # PolicyFile \ S
    BY <1>3, <1>6, FS_Subset
  <2>2. PICK a, b : a = Cardinality(PolicyFile \ T) /\ b = Cardinality(PolicyFile \ S)
    OBVIOUS
  <2>3. a \in Nat /\ b \in Nat
    BY <1>3, <2>2, FS_Subset, FS_CardinalityType
  <2>4. a <= b /\ a # b
    BY <2>1, <2>2, FS_Subset
  <2>5. rest[T] = a /\ rest[S] = b
    BY <2>2
  <2>6. rest[T] < rest[S]
    BY <2>3, <2>4, <2>5
  <2> HIDE DEF rest
  <2> QED BY <2>6 DEF LexBelow
<1> HIDE DEF Body, rest
<1>7. IsWellFoundedOn(R, D)
  BY <1>4, <1>5, LexIsWellFounded
<1> HIDE DEF R, D, F, step
<1>8. \A g \in F : \A S \in D : step[<<g, S>>] = Body(g, S)
  <2> TAKE g \in F
  <2> TAKE S \in D
  <2>1. <<g, S>> \in F \X D /\ <<g, S>>[1] = g /\ <<g, S>>[2] = S
    OBVIOUS
  <2> QED BY <2>1 DEF step
<1>9. \A g \in F : \A S \in D : Body(g, S) \in D
  BY <1>1, <1>2 DEF F
<1>10. step \in [F \X D -> D]
  BY <1>9 DEF step
<1>11. \A S \in D : WithParents(S) # S => <<WithParents(S), S>> \in R
  BY <1>1, <1>6 DEF WithParents
<1>12. Local(step, R, D, D)
  <2>1. ASSUME NEW g \in F, NEW h \in F, NEW S \in D, \A T \in D : <<T, S>> \in R => g[T] = h[T]
        PROVE  step[<<g, S>>] = step[<<h, S>>]
    BY <1>1, <1>2, <1>8, <1>11, <2>1
  <2> QED BY <2>1 DEF Local, F
<1>13. \E g \in F : \A S \in D : g[S] = step[<<g, S>>]
  <2>1. step \in [[D -> D] \X D -> D] /\ D # {}
    BY <1>10 DEF F, D
  <2>2. Recursion(step, R, D, D)
    BY <1>7, <1>12, <2>1 DEF Recursion
  <2>3. \E g \in [D -> D] : \A S \in D : g[S] = step[<<g, S>>]
    BY <2>2, RecursionIsDefined
  <2> QED BY <2>3 DEF F
<1>14. PICK g \in F : \A S \in D : g[S] = Body(g, S)
  BY <1>8, <1>13
<1>15. g = [S \in D |-> Body(g, S)]
  BY <1>14 DEF F
<1>16. Closure = CHOOSE c : c = [S \in D |-> Body(c, S)]
  BY Zenon DEF Closure, D, Body
<1>17. Closure = [S \in D |-> Body(Closure, S)]
  BY <1>15, <1>16
<1>18. \A S \in D : Closure[S] = IF WithParents(S) = S THEN S ELSE Closure[WithParents(S)]
  BY <1>2, <1>17
<1> DEFINE Closed(U) == \A f \in U : ToSet(Parents(f)) \subseteq U
           P == {S \in D : /\ Closure[S] \in D /\ S \subseteq Closure[S] /\ Closed(Closure[S])
                           /\ \A U \in D : S \subseteq U /\ Closed(U) => Closure[S] \subseteq U}
<1>19. ASSUME NEW S \in D, \A T \in D : <<T, S>> \in R => T \in P PROVE S \in P
  <2>1. CASE WithParents(S) = S
    <3>1. Closure[S] = S
      BY <1>18, <2>1
    <3>2. Closed(S)
      BY <2>1 DEF WithParents
    <3> QED BY <3>1, <3>2
  <2>2. CASE WithParents(S) # S
    <3>1. WithParents(S) \in P /\ Closure[S] = Closure[WithParents(S)]
      BY <1>1, <1>11, <1>18, <1>19, <2>2
    <3>2. S \subseteq WithParents(S) /\ \A U : S \subseteq U /\ Closed(U) => WithParents(S) \subseteq U
      BY DEF WithParents
    <3> QED BY <3>1, <3>2
  <2> QED BY <2>1, <2>2
<1>20. D \subseteq P
  <2> HIDE DEF P
  <2> QED BY <1>7, <1>19, Descent
<1>21. {RootPolicy} \in P
  <2>1. {RootPolicy} \in D
    BY PolicyLoadAssumption DEF D
  <2> HIDE DEF P
  <2> QED BY <1>20, <2>1
<1>22. /\ Inherited \in SUBSET PolicyFile /\ {RootPolicy} \subseteq Inherited
       /\ \A f \in Inherited : ToSet(Parents(f)) \subseteq Inherited
  BY <1>21 DEF Inherited, D
<1>23. ASSUME NEW U \in SUBSET PolicyFile, RootPolicy \in U, \A f \in U : ToSet(Parents(f)) \subseteq U
      PROVE  Inherited \subseteq U
  BY <1>21, <1>23 DEF Inherited, D
<1> HIDE DEF P, Closed
<1> QED BY <1>22, <1>23

----------------------------------------------------------------------------
(* Merging, file by file *)

\* The names a mapping is from, and what it maps them to.
NamesOf(k) == IF k = "scope_constraints" THEN CapSpelling ELSE Tool
MappedTo(k) == CASE k = "allow_by_tool" -> CapList [] k = "scope_constraints" -> Constraint
                 [] k = "trust_boundaries" -> {"note"}

\* The inherited file f sets the field k, to a mapping that has s.
Sets(f, k) == f \in Inherited /\ folder[f] # Absent /\ k \in DOMAIN folder[f].fields
SetsKey(f, k, s) == Sets(f, k) /\ IsMapping(folder[f].fields[k]) /\ s \in DOMAIN folder[f].fields[k]

\* What a mapping is.
LEMMA MappingIs ==
    ASSUME NEW k \in MappingFields, NEW v
    PROVE  /\ IsSetting(k, v) <=> IsMappingTo(MappedTo(k), NamesOf(k), v)
           /\ NamesOf(k) \subseteq Selector
<1>1. k \in {"allow_by_tool", "scope_constraints", "trust_boundaries"}
  BY DEF MappingFields
<1> QED BY <1>1 DEF IsSetting, MappedTo, NamesOf, Selector

\* What a file sets has its type.
LEMMA SetsTyped ==
    ASSUME FolderOK, NEW f, NEW k, Sets(f, k)
    PROVE  /\ k \in FieldName
           /\ folder[f].fields[k] \in {Null, Bad} \/ IsSetting(k, folder[f].fields[k])
           /\ k \in MappingFields /\ IsMapping(folder[f].fields[k]) =>
                 /\ folder[f].fields[k] = [s \in DOMAIN folder[f].fields[k] |-> folder[f].fields[k][s]]
                 /\ DOMAIN folder[f].fields[k] \subseteq NamesOf(k)
                 /\ \A s \in DOMAIN folder[f].fields[k] :
                       folder[f].fields[k][s] \in MappedTo(k) \cup {Null, Bad}
<1>1. AreFields(folder[f].fields)
  BY InheritedIs DEF FolderOK, Sets, IsPolicyFile
<1>2. k \in FieldName /\ (folder[f].fields[k] \in {Null, Bad} \/ IsSetting(k, folder[f].fields[k]))
  BY <1>1 DEF AreFields, Sets
<1>3. ASSUME k \in MappingFields, NEW v, v = folder[f].fields[k], IsMapping(v)
      PROVE  /\ v = [s \in DOMAIN v |-> v[s]] /\ DOMAIN v \subseteq NamesOf(k)
             /\ \A s \in DOMAIN v : v[s] \in MappedTo(k) \cup {Null, Bad}
  <2>1. IsMappingTo(MappedTo(k), NamesOf(k), v)
    BY <1>2, <1>3, MappingIs DEF IsMapping
  <2>2. PICK D \in SUBSET NamesOf(k) : v \in [D -> MappedTo(k) \cup {Null, Bad}]
    BY <2>1 DEF IsMappingTo
  <2> QED BY <2>2
<1> QED BY <1>2, <1>3

\* Tables of which file decides a field or a key of a mapping, None for none.
MapsIn(d, k) == d[k] # None /\ k \in MappingFields /\ IsMapping(folder[d[k]].fields[k])
HidesIn(d, k) == d[k] # None /\ ~MapsIn(d, k)
Tables(d, e) ==
    /\ \A k \in FieldName : d[k] # None => Sets(d[k], k)
    /\ \A k \in MappingFields : \A s \in Selector :
          e[<<k, s>>] # None => SetsKey(e[<<k, s>>], k, s) /\ MapsIn(d, k)

\* The mapping of a field that the tables describe, and all they describe.
MappingBy(e, k) == [s \in {t \in Selector : e[<<k, t>>] # None} |-> folder[e[<<k, s>>]].fields[k][s]]
Reads(m, d, e) ==
    /\ DOMAIN m = {k \in FieldName : d[k] # None}
    /\ \A k \in DOMAIN m : m[k] = IF MapsIn(d, k) THEN MappingBy(e, k) ELSE folder[d[k]].fields[k]

\* A mapping put together from several files is one.
LEMMA JoinIsMapping ==
    ASSUME FolderOK, NEW d, NEW e, Tables(d, e), NEW k \in MappingFields
    PROVE  IsMapping(MappingBy(e, k)) /\ IsSetting(k, MappingBy(e, k))
<1> DEFINE D == {t \in Selector : e[<<k, t>>] # None}
<1>1. ASSUME NEW s \in D
      PROVE  s \in NamesOf(k) /\ folder[e[<<k, s>>]].fields[k][s] \in MappedTo(k) \cup {Null, Bad}
  <2>1. PICK g : g = e[<<k, s>>]
    OBVIOUS
  <2>2. SetsKey(g, k, s)
    BY <2>1 DEF Tables
  <2> QED BY <2>1, <2>2, SetsTyped DEF SetsKey
<1>2. MappingBy(e, k) \in [D -> MappedTo(k) \cup {Null, Bad}] /\ D \in SUBSET NamesOf(k)
  BY <1>1 DEF MappingBy
<1>3. IsMappingTo(MappedTo(k), NamesOf(k), MappingBy(e, k))
  BY <1>2 DEF IsMappingTo
<1>4. IsSetting(k, MappingBy(e, k))
  BY <1>3, MappingIs
<1> QED BY <1>4, MappingAssumption DEF IsMapping

\* The tables d and e are d1 and e1, and what d2 and e2 decide in their place.
Overridden(d1, e1, d2, e2, d, e) ==
    /\ \A k \in FieldName : d[k] = IF d2[k] # None THEN d2[k] ELSE d1[k]
    /\ \A k \in MappingFields : \A s \in Selector :
          e[<<k, s>>] = IF e2[<<k, s>>] # None THEN e2[<<k, s>>]
                        ELSE IF HidesIn(d2, k) THEN None ELSE e1[<<k, s>>]

\* Merging what two pairs of tables describe: the second decides where it can.
LEMMA MergeReads ==
    ASSUME FolderOK, NEW d1, NEW e1, Tables(d1, e1), NEW d2, NEW e2, Tables(d2, e2), NEW d, NEW e,
           NEW m1, Reads(m1, d1, e1), NEW m2, Reads(m2, d2, e2), Overridden(d1, e1, d2, e2, d, e)
    PROVE  Tables(d, e) /\ Reads(MergeRaw(m1, m2), d, e)
<1>0. /\ MappingFields \subseteq FieldName
      /\ \A k \in FieldName : d[k] = IF d2[k] # None THEN d2[k] ELSE d1[k]
      /\ \A k \in MappingFields : \A s \in Selector :
            e[<<k, s>>] = IF e2[<<k, s>>] # None THEN e2[<<k, s>>]
                          ELSE IF HidesIn(d2, k) THEN None ELSE e1[<<k, s>>]
  BY DEF FieldName, Overridden
<1> USE <1>0
<1>1. \A k \in FieldName : d[k] # None => Sets(d[k], k)
  BY DEF Tables
<1>2. \A k \in FieldName : MapsIn(d, k) <=> IF d2[k] # None THEN MapsIn(d2, k) ELSE MapsIn(d1, k)
  BY DEF MapsIn
<1>3. ASSUME NEW k \in MappingFields, NEW s \in Selector, e[<<k, s>>] # None
      PROVE  SetsKey(e[<<k, s>>], k, s) /\ MapsIn(d, k)
  <2>1. CASE e2[<<k, s>>] # None
    <3>1. SetsKey(e2[<<k, s>>], k, s) /\ MapsIn(d2, k) /\ d2[k] # None
      BY <2>1 DEF Tables, MapsIn
    <3> QED BY <1>0, <1>2, <2>1, <3>1
  <2>2. CASE e2[<<k, s>>] = None
    <3>1. ~HidesIn(d2, k) /\ e[<<k, s>>] = e1[<<k, s>>]
      BY <1>3, <2>2
    <3>2. SetsKey(e1[<<k, s>>], k, s) /\ MapsIn(d1, k)
      BY <1>3, <3>1 DEF Tables
    <3> QED BY <1>0, <1>2, <3>1, <3>2 DEF HidesIn
  <2> QED BY <2>1, <2>2
<1>4. Tables(d, e)
  BY <1>1, <1>3 DEF Tables
<1>5. PICK m : m = MergeRaw(m1, m2)
  OBVIOUS
<1>6. DOMAIN m = DOMAIN m1 \cup DOMAIN m2
  BY <1>5 DEF MergeRaw
<1>7. DOMAIN m = {k \in FieldName : d[k] # None}
  BY <1>6 DEF Reads
<1>8. ASSUME NEW k \in DOMAIN m PROVE m[k] = IF MapsIn(d, k) THEN MappingBy(e, k) ELSE folder[d[k]].fields[k]
  <2>0. k \in FieldName
    BY <1>7
  <2>1. CASE k \notin DOMAIN m2
    <3>1. d2[k] = None /\ d[k] = d1[k] /\ m[k] = m1[k] /\ k \in DOMAIN m1
      BY <1>5, <1>6, <2>0, <2>1 DEF MergeRaw, Reads
    <3>2. MapsIn(d, k) <=> MapsIn(d1, k)
      BY <1>2, <2>0, <3>1
    <3>3. ASSUME MapsIn(d, k) PROVE MappingBy(e, k) = MappingBy(e1, k)
      <4>1. k \in MappingFields /\ ~HidesIn(d2, k) /\ ~MapsIn(d2, k)
        BY <3>1, <3>3 DEF MapsIn, HidesIn
      <4>2. \A s \in Selector : e2[<<k, s>>] = None
        BY <4>1 DEF Tables
      <4>3. \A s \in Selector : e[<<k, s>>] = e1[<<k, s>>]
        BY <4>1, <4>2
      <4> QED BY <4>3 DEF MappingBy
    <3> QED BY <3>1, <3>2, <3>3 DEF Reads
  <2>2. CASE k \in DOMAIN m2 /\ ~MapsIn(d2, k)
    <3>1. d2[k] # None /\ d[k] = d2[k] /\ ~MapsIn(d, k) /\ m2[k] = folder[d[k]].fields[k]
      BY <1>2, <2>0, <2>2 DEF Reads
    <3>2. ~(k \in MappingFields /\ IsMapping(m2[k]))
      BY <2>2, <3>1 DEF MapsIn
    <3>3. m[k] = m2[k]
      BY <1>5, <1>6, <2>2, <3>2 DEF MergeRaw
    <3> QED BY <3>1, <3>3
  <2>3. CASE k \in DOMAIN m2 /\ MapsIn(d2, k)
    <3>1. /\ d2[k] # None /\ d[k] = d2[k] /\ MapsIn(d, k) /\ m2[k] = MappingBy(e2, k)
          /\ k \in MappingFields /\ IsMapping(m2[k]) /\ ~HidesIn(d2, k)
      BY <1>2, <2>0, <2>3, JoinIsMapping DEF Reads, MapsIn, HidesIn
    <3>2. \A s \in Selector : e[<<k, s>>] = IF e2[<<k, s>>] # None THEN e2[<<k, s>>] ELSE e1[<<k, s>>]
      BY <3>1
    <3>3. CASE k \in DOMAIN m1 /\ MapsIn(d1, k)
      <4>1. m1[k] = MappingBy(e1, k) /\ IsMapping(m1[k])
        BY <3>1, <3>3, JoinIsMapping DEF Reads
      <4>2. m[k] = Update(m1[k], m2[k])
        BY <1>5, <1>6, <2>3, <3>1, <3>3, <4>1 DEF MergeRaw
      <4> DEFINE D(t) == {s \in Selector : t[<<k, s>>] # None}
      <4>3. PICK a, b : a = MappingBy(e1, k) /\ b = MappingBy(e2, k)
        OBVIOUS
      <4>4. /\ DOMAIN a = D(e1) /\ \A s \in D(e1) : a[s] = folder[e1[<<k, s>>]].fields[k][s]
            /\ DOMAIN b = D(e2) /\ \A s \in D(e2) : b[s] = folder[e2[<<k, s>>]].fields[k][s]
        BY <4>3 DEF MappingBy
      <4>5. D(e) = D(e1) \cup D(e2)
        BY <3>2
      <4>6. \A s \in D(e) : (IF s \in D(e2) THEN b[s] ELSE a[s]) = folder[e[<<k, s>>]].fields[k][s]
        BY <3>2, <4>4
      <4>7. Update(a, b) = [s \in D(e1) \cup D(e2) |-> IF s \in D(e2) THEN b[s] ELSE a[s]]
        BY <4>4 DEF Update
      <4>8. Update(a, b) = [s \in D(e) |-> folder[e[<<k, s>>]].fields[k][s]]
        BY <4>5, <4>6, <4>7
      <4>9. Update(a, b) = MappingBy(e, k)
        BY <4>8 DEF MappingBy
      <4> QED BY <3>1, <4>1, <4>2, <4>3, <4>9
    <3>4. CASE ~(k \in DOMAIN m1 /\ MapsIn(d1, k))
      <4>1. ~MapsIn(d1, k)
        BY <2>0, <3>4 DEF Reads, MapsIn
      <4>2. k \in DOMAIN m1 => ~IsMapping(m1[k])
        BY <3>1, <4>1 DEF Reads, MapsIn
      <4>3. m[k] = m2[k]
        BY <1>5, <1>6, <2>3, <3>1, <4>2 DEF MergeRaw
      <4>4. \A s \in Selector : e1[<<k, s>>] = None
        BY <3>1, <4>1 DEF Tables
      <4>5. MappingBy(e, k) = MappingBy(e2, k)
        BY <3>2, <4>4 DEF MappingBy
      <4> QED BY <3>1, <4>3, <4>5
    <3> QED BY <3>3, <3>4
  <2> QED BY <2>1, <2>2, <2>3
<1> QED BY <1>4, <1>5, <1>7, <1>8 DEF Reads

----------------------------------------------------------------------------
(* The files do not change *)

\* What the files of a folder g extend, inherit and decide.
ParentsIn(g, f) ==
    IF g[f] = Absent \/ g[f].refs = Bad THEN <<>> ELSE [k \in DOMAIN g[f].refs |-> g[f].refs[k].to]
ClosureIn(g) ==
    CHOOSE c : c = [S \in SUBSET PolicyFile |->
        LET T == S \cup UNION {ToSet(ParentsIn(g, f)) : f \in S} IN IF T = S THEN S ELSE c[T]]
DeciderIn(g) ==
    CHOOSE d : d = [v \in ClosureIn(g)[{RootPolicy}] \X FieldName |->
        LET f == v[1]
            k == v[2]
            P == ParentsIn(g, f)
            of(j) == d[<<P[j], k>>]
            having == {j \in DOMAIN P : of(j) # None}
        IN  IF k \in DOMAIN g[f].fields THEN f ELSE IF having = {} THEN None ELSE of(Max(having))]
MapsOf(g, f, k) ==
    DeciderIn(g)[<<f, k>>] # None /\ k \in MappingFields /\ IsMapping(g[DeciderIn(g)[<<f, k>>]].fields[k])
KeyDeciderIn(g) ==
    CHOOSE e : e = [v \in ClosureIn(g)[{RootPolicy}] \X (MappingFields \X Selector) |->
        LET f == v[1]
            k == v[2][1]
            P == ParentsIn(g, f)
            of(j) == e[<<P[j], v[2]>>]
            deciding == {j \in DOMAIN P : of(j) # None \/ (DeciderIn(g)[<<P[j], k>>] # None /\ ~MapsOf(g, P[j], k))}
        IN  IF ~MapsOf(g, f, k) THEN None
            ELSE IF k \in DOMAIN g[f].fields /\ v[2][2] \in DOMAIN g[f].fields[k] THEN f
            ELSE IF deciding = {} THEN None ELSE of(Max(deciding))]

\* They are what PolicyLoad says of the folder at hand.
LEMMA SaidOfFolder ==
    /\ Inherited = ClosureIn(folder)[{RootPolicy}]
    /\ Decider = DeciderIn(folder) /\ KeyDecider = KeyDeciderIn(folder)
<1>1. Inherited = ClosureIn(folder)[{RootPolicy}]
  BY Zenon DEF Inherited, Closure, ClosureIn, Parents, ParentsIn
<1>2. Decider = DeciderIn(folder)
  BY Zenon DEF Decider, DeciderIn, Inherited, Closure, ClosureIn, Parents, ParentsIn
<1>3. KeyDecider = KeyDeciderIn(folder)
  BY Zenon DEF KeyDecider, KeyDeciderIn, Maps, MapsOf, ValueOf, Decider, DeciderIn, Inherited, Closure, ClosureIn, Parents, ParentsIn
<1> QED BY <1>1, <1>2, <1>3

\* The files do not change, nor what is said of them.
LEMMA FolderStays ==
    ASSUME folder' = folder
    PROVE  /\ FolderOK' <=> FolderOK
           /\ \A f : Parents(f)' = Parents(f)
           /\ ParentsOf' = ParentsOf /\ Inherited' = Inherited
           /\ Decider' = Decider /\ KeyDecider' = KeyDecider
<1>1. \A f : Parents(f)' = Parents(f)
  BY DEF Parents
<1>2. FolderOK' <=> FolderOK
  BY DEF FolderOK
<1>3. ParentsOf' = ParentsOf
  BY Zenon, <1>1 DEF ParentsOf
<1>4. Inherited' = ClosureIn(folder')[{RootPolicy}]
  BY Zenon DEF Inherited, Closure, ClosureIn, Parents, ParentsIn
<1>5. Decider' = DeciderIn(folder')
  BY Zenon DEF Decider, DeciderIn, Inherited, Closure, ClosureIn, Parents, ParentsIn
<1>6. KeyDecider' = KeyDeciderIn(folder')
  BY Zenon DEF KeyDecider, KeyDeciderIn, Maps, MapsOf, ValueOf, Decider, DeciderIn, Inherited, Closure, ClosureIn, Parents, ParentsIn
<1>7. Inherited' = Inherited /\ Decider' = Decider /\ KeyDecider' = KeyDecider
  BY <1>4, <1>5, <1>6, SaidOfFolder
<1> QED BY <1>1, <1>2, <1>3, <1>7

----------------------------------------------------------------------------
(* What a file and its first parents decide *)

\* The tables of an inherited file f, and those of its first n parents together.
FieldsOf(f) == [k \in FieldName |-> Decider[<<f, k>>]]
KeysOf(f) == [x \in MappingFields \X Selector |-> KeyDecider[<<f, x>>]]
Having(f, n, k) == {j \in 1..n : FieldsOf(Parents(f)[j])[k] # None}
Deciding(f, n, x) ==
    {j \in 1..n : KeysOf(Parents(f)[j])[x] # None \/ HidesIn(FieldsOf(Parents(f)[j]), x[1])}
PartFields(f, n) ==
    [k \in FieldName |-> IF Having(f, n, k) = {} THEN None ELSE FieldsOf(Parents(f)[Max(Having(f, n, k))])[k]]
PartKeys(f, n) ==
    [x \in MappingFields \X Selector |->
        IF Deciding(f, n, x) = {} THEN None ELSE KeysOf(Parents(f)[Max(Deciding(f, n, x))])[x]]

\* Those of a file that inherits nothing.
OwnFields(f) == [k \in FieldName |-> IF k \in DOMAIN folder[f].fields THEN f ELSE None]
OwnKeys(f) ==
    [x \in MappingFields \X Selector |->
        IF /\ x[1] \in DOMAIN folder[f].fields /\ IsMapping(folder[f].fields[x[1]])
           /\ x[2] \in DOMAIN folder[f].fields[x[1]]
        THEN f ELSE None]

\* What Decider and KeyDecider say of the file f is what their definitions say.
Decides(f) ==
    /\ \A k \in FieldName :
          FieldsOf(f)[k] = IF k \in DOMAIN folder[f].fields THEN f ELSE PartFields(f, Len(Parents(f)))[k]
    /\ \A k \in MappingFields : \A s \in Selector :
          KeysOf(f)[<<k, s>>] =
              IF ~MapsIn(FieldsOf(f), k) THEN None
              ELSE IF k \in DOMAIN folder[f].fields /\ s \in DOMAIN folder[f].fields[k] THEN f
              ELSE PartKeys(f, Len(Parents(f)))[<<k, s>>]

\* So it is for all that is inherited, and all of it is there.
Solved == \A f \in Inherited : folder[f] # Absent /\ Decides(f) /\ Tables(FieldsOf(f), KeysOf(f))

\* The greatest of the numbers up to n that are in a set.
LEMMA GreatestOf ==
    ASSUME NEW n \in Nat, NEW S \in SUBSET (1..(n + 1))
    PROVE  /\ n + 1 \in S => S # {} /\ Max(S) = n + 1
           /\ n + 1 \notin S => S = S \cap 1..n
<1>1. ASSUME n + 1 \in S PROVE Max(S) = n + 1
  <2>1. \A x \in S : (\A y \in S : x >= y) <=> x = n + 1
    BY <1>1
  <2> QED BY <1>1, <2>1 DEF Max
<1>2. 1..(n + 1) = 1..n \cup {n + 1}
  OBVIOUS
<1> QED BY <1>1, <1>2

\* Tables always describe something.
LEMMA SomethingReads == ASSUME NEW d, NEW e PROVE \E m : Reads(m, d, e)
<1> DEFINE m == [k \in {j \in FieldName : d[j] # None} |->
                    IF MapsIn(d, k) THEN MappingBy(e, k) ELSE folder[d[k]].fields[k]]
<1>1. Reads(m, d, e)
  BY DEF Reads
<1> QED BY <1>1

\* No parents decide nothing.
LEMMA PartStarts ==
    ASSUME NEW f
    PROVE  Tables(PartFields(f, 0), PartKeys(f, 0)) /\ Reads(<<>>, PartFields(f, 0), PartKeys(f, 0))
<1>1. \A k \in FieldName : PartFields(f, 0)[k] = None
  BY DEF PartFields, Having
<1>2. \A k \in MappingFields : \A s \in Selector : PartKeys(f, 0)[<<k, s>>] = None
  <2>1. \A x : Deciding(f, 0, x) = {}
    BY DEF Deciding
  <2> QED BY <2>1 DEF PartKeys
<1>3. DOMAIN <<>> = {}
  OBVIOUS
<1> QED BY <1>1, <1>2, <1>3 DEF Tables, Reads

\* The next parent decides where it can.
LEMMA PartGrows ==
    ASSUME FolderOK, NEW f, NEW n \in Nat, NEW p, p = Parents(f)[n + 1],
           Tables(FieldsOf(p), KeysOf(p)), Tables(PartFields(f, n), PartKeys(f, n)),
           NEW m1, Reads(m1, PartFields(f, n), PartKeys(f, n)), NEW m2, Reads(m2, FieldsOf(p), KeysOf(p))
    PROVE  /\ Tables(PartFields(f, n + 1), PartKeys(f, n + 1))
           /\ Reads(MergeRaw(m1, m2), PartFields(f, n + 1), PartKeys(f, n + 1))
<1>0. 1..(n + 1) = 1..n \cup {n + 1}
  OBVIOUS
<1>1. \A k \in FieldName : PartFields(f, n + 1)[k] = IF FieldsOf(p)[k] # None THEN FieldsOf(p)[k] ELSE PartFields(f, n)[k]
  <2> TAKE k \in FieldName
  <2>1. /\ Having(f, n + 1, k) \in SUBSET (1..(n + 1)) /\ Having(f, n, k) = Having(f, n + 1, k) \cap 1..n
        /\ n + 1 \in Having(f, n + 1, k) <=> FieldsOf(p)[k] # None
    BY <1>0 DEF Having
  <2>2. /\ n + 1 \in Having(f, n + 1, k) => Having(f, n + 1, k) # {} /\ Max(Having(f, n + 1, k)) = n + 1
        /\ n + 1 \notin Having(f, n + 1, k) => Having(f, n + 1, k) = Having(f, n, k)
    BY <2>1, GreatestOf
  <2>3. CASE FieldsOf(p)[k] # None
    BY <2>1, <2>2, <2>3 DEF PartFields
  <2>4. CASE FieldsOf(p)[k] = None
    BY <2>1, <2>2, <2>4 DEF PartFields
  <2> QED BY <2>3, <2>4
<1>2. ASSUME NEW k \in MappingFields, NEW s \in Selector
      PROVE  PartKeys(f, n + 1)[<<k, s>>] = IF KeysOf(p)[<<k, s>>] # None THEN KeysOf(p)[<<k, s>>]
                                            ELSE IF HidesIn(FieldsOf(p), k) THEN None ELSE PartKeys(f, n)[<<k, s>>]
  <2> DEFINE x == <<k, s>>
  <2>0. x \in MappingFields \X Selector /\ x[1] = k
    OBVIOUS
  <2> HIDE DEF x
  <2>1. /\ Deciding(f, n + 1, x) \in SUBSET (1..(n + 1)) /\ Deciding(f, n, x) = Deciding(f, n + 1, x) \cap 1..n
        /\ n + 1 \in Deciding(f, n + 1, x) <=> KeysOf(p)[x] # None \/ HidesIn(FieldsOf(p), k)
    BY <1>0, <2>0 DEF Deciding
  <2>2. /\ n + 1 \in Deciding(f, n + 1, x) => Deciding(f, n + 1, x) # {} /\ Max(Deciding(f, n + 1, x)) = n + 1
        /\ n + 1 \notin Deciding(f, n + 1, x) => Deciding(f, n + 1, x) = Deciding(f, n, x)
    BY <2>1, GreatestOf
  <2>3. \A i : PartKeys(f, i)[x] = IF Deciding(f, i, x) = {} THEN None ELSE KeysOf(Parents(f)[Max(Deciding(f, i, x))])[x]
    BY <2>0 DEF PartKeys
  <2>4. CASE KeysOf(p)[x] # None \/ HidesIn(FieldsOf(p), k)
    <3>1. PartKeys(f, n + 1)[x] = KeysOf(p)[x]
      BY <2>1, <2>2, <2>3, <2>4
    <3> QED BY <2>4, <3>1 DEF x
  <2>5. CASE ~(KeysOf(p)[x] # None \/ HidesIn(FieldsOf(p), k))
    <3>1. PartKeys(f, n + 1)[x] = PartKeys(f, n)[x]
      BY <2>1, <2>2, <2>3, <2>5
    <3> QED BY <2>5, <3>1 DEF x
  <2> QED BY <2>4, <2>5
<1>3. PICK d, d1, d2, e, e1, e2 :
          /\ d = PartFields(f, n + 1) /\ d1 = PartFields(f, n) /\ d2 = FieldsOf(p)
          /\ e = PartKeys(f, n + 1) /\ e1 = PartKeys(f, n) /\ e2 = KeysOf(p)
  OBVIOUS
<1>5. Overridden(d1, e1, d2, e2, d, e)
  BY <1>1, <1>2, <1>3 DEF Overridden
<1>6. Tables(d1, e1) /\ Tables(d2, e2) /\ Reads(m1, d1, e1) /\ Reads(m2, d2, e2)
  BY <1>3
<1>7. Tables(d, e) /\ Reads(MergeRaw(m1, m2), d, e)
  BY <1>5, <1>6, MergeReads
<1> QED BY <1>3, <1>7

\* A file's own fields describe themselves.
LEMMA OwnReads ==
    ASSUME FolderOK, NEW f \in Inherited, folder[f] # Absent
    PROVE  /\ Tables(OwnFields(f), OwnKeys(f)) /\ Reads(folder[f].fields, OwnFields(f), OwnKeys(f))
           /\ \A k \in MappingFields : HidesIn(OwnFields(f), k) <=>
                 k \in DOMAIN folder[f].fields /\ ~IsMapping(folder[f].fields[k])
<1>0. f # None /\ MappingFields \subseteq FieldName
  BY MappingAssumption, InheritedIs DEF FieldName
<1>1. \A k \in FieldName : OwnFields(f)[k] = IF k \in DOMAIN folder[f].fields THEN f ELSE None
  BY DEF OwnFields
<1>2. ASSUME NEW k \in MappingFields, NEW s \in Selector
      PROVE  OwnKeys(f)[<<k, s>>] = IF /\ k \in DOMAIN folder[f].fields /\ IsMapping(folder[f].fields[k])
                                       /\ s \in DOMAIN folder[f].fields[k]
                                    THEN f ELSE None
  <2> DEFINE x == <<k, s>>
  <2>1. x \in MappingFields \X Selector /\ x[1] = k /\ x[2] = s
    OBVIOUS
  <2> HIDE DEF x
  <2>2. OwnKeys(f)[x] = IF /\ x[1] \in DOMAIN folder[f].fields /\ IsMapping(folder[f].fields[x[1]])
                           /\ x[2] \in DOMAIN folder[f].fields[x[1]]
                        THEN f ELSE None
    BY <2>1 DEF OwnKeys
  <2> QED BY <2>1, <2>2 DEF x
<1>3. \A k : Sets(f, k) <=> k \in DOMAIN folder[f].fields
  BY DEF Sets
<1>4. \A k \in FieldName : MapsIn(OwnFields(f), k) <=>
          k \in DOMAIN folder[f].fields /\ k \in MappingFields /\ IsMapping(folder[f].fields[k])
  BY <1>0, <1>1 DEF MapsIn
<1>5. Tables(OwnFields(f), OwnKeys(f))
  BY <1>0, <1>1, <1>2, <1>3, <1>4 DEF Tables, SetsKey
<1>6. \A k \in MappingFields : HidesIn(OwnFields(f), k) <=>
          k \in DOMAIN folder[f].fields /\ ~IsMapping(folder[f].fields[k])
  BY <1>0, <1>1, <1>4 DEF HidesIn
<1>7. DOMAIN folder[f].fields = {k \in FieldName : OwnFields(f)[k] # None}
  BY <1>0, <1>1, <1>3, SetsTyped
<1>8. ASSUME NEW k \in DOMAIN folder[f].fields, MapsIn(OwnFields(f), k)
      PROVE  folder[f].fields[k] = MappingBy(OwnKeys(f), k)
  <2>1. k \in MappingFields /\ IsMapping(folder[f].fields[k])
    BY <1>4, <1>7, <1>8
  <2>2. PICK v : v = folder[f].fields[k]
    OBVIOUS
  <2>3. v = [s \in DOMAIN v |-> v[s]] /\ DOMAIN v \subseteq Selector
    BY <1>3, <2>1, <2>2, SetsTyped, MappingIs
  <2>4. \A s \in Selector : OwnKeys(f)[<<k, s>>] = IF s \in DOMAIN v THEN f ELSE None
    BY <1>2, <2>1, <2>2
  <2>5. {t \in Selector : OwnKeys(f)[<<k, t>>] # None} = DOMAIN v
    BY <1>0, <2>3, <2>4
  <2>6. MappingBy(OwnKeys(f), k) = [s \in DOMAIN v |-> v[s]]
    BY <2>2, <2>4, <2>3, <2>5 DEF MappingBy
  <2> QED BY <2>2, <2>3, <2>6
<1>9. Reads(folder[f].fields, OwnFields(f), OwnKeys(f))
  BY <1>1, <1>7, <1>8 DEF Reads
<1> QED BY <1>5, <1>6, <1>9

\* After its parents a file decides for itself.
LEMMA FileReads ==
    ASSUME FolderOK, NEW f \in Inherited, folder[f] # Absent, Decides(f), NEW n, n = Len(Parents(f)),
           Tables(PartFields(f, n), PartKeys(f, n)),
           NEW m, Reads(m, PartFields(f, n), PartKeys(f, n))
    PROVE  /\ Tables(FieldsOf(f), KeysOf(f))
           /\ Reads(MergeRaw(m, folder[f].fields), FieldsOf(f), KeysOf(f))
<1>1. PICK d, d1, d2, e, e1, e2 :
          /\ d = FieldsOf(f) /\ d1 = PartFields(f, n) /\ d2 = OwnFields(f)
          /\ e = KeysOf(f) /\ e1 = PartKeys(f, n) /\ e2 = OwnKeys(f)
  OBVIOUS
<1>2. f # None /\ MappingFields \subseteq FieldName
  BY MappingAssumption, InheritedIs DEF FieldName
<1>3. /\ Tables(d2, e2) /\ Reads(folder[f].fields, d2, e2)
      /\ \A k \in MappingFields : HidesIn(d2, k) <=>
            k \in DOMAIN folder[f].fields /\ ~IsMapping(folder[f].fields[k])
  BY <1>1, OwnReads
<1>4. \A k \in FieldName : d2[k] = IF k \in DOMAIN folder[f].fields THEN f ELSE None
  BY <1>1 DEF OwnFields
<1>5. \A k \in FieldName : d[k] = IF d2[k] # None THEN d2[k] ELSE d1[k]
  BY <1>1, <1>2, <1>4 DEF Decides
<1>6. ASSUME NEW k \in MappingFields, NEW s \in Selector
      PROVE  e[<<k, s>>] = IF e2[<<k, s>>] # None THEN e2[<<k, s>>]
                           ELSE IF HidesIn(d2, k) THEN None ELSE e1[<<k, s>>]
  <2>1. e2[<<k, s>>] = IF /\ k \in DOMAIN folder[f].fields /\ IsMapping(folder[f].fields[k])
                          /\ s \in DOMAIN folder[f].fields[k]
                       THEN f ELSE None
    <3> DEFINE x == <<k, s>>
    <3>1. x \in MappingFields \X Selector /\ x[1] = k /\ x[2] = s
      OBVIOUS
    <3> HIDE DEF x
    <3>2. e2[x] = IF /\ x[1] \in DOMAIN folder[f].fields /\ IsMapping(folder[f].fields[x[1]])
                     /\ x[2] \in DOMAIN folder[f].fields[x[1]]
                  THEN f ELSE None
      BY <1>1, <3>1 DEF OwnKeys
    <3> QED BY <3>1, <3>2 DEF x
  <2>2. e[<<k, s>>] = IF ~MapsIn(d, k) THEN None
                      ELSE IF k \in DOMAIN folder[f].fields /\ s \in DOMAIN folder[f].fields[k] THEN f
                      ELSE e1[<<k, s>>]
    BY <1>1 DEF Decides
  <2>3. CASE k \in DOMAIN folder[f].fields
    <3>1. MapsIn(d, k) <=> IsMapping(folder[f].fields[k])
      BY <1>2, <1>4, <1>5, <2>3 DEF MapsIn
    <3> QED BY <1>2, <1>3, <2>1, <2>2, <2>3, <3>1
  <2>4. CASE k \notin DOMAIN folder[f].fields
    <3>1. d[k] = d1[k] /\ ~HidesIn(d2, k) /\ e2[<<k, s>>] = None
      BY <1>2, <1>3, <1>4, <1>5, <2>1, <2>4
    <3>2. MapsIn(d, k) <=> MapsIn(d1, k)
      BY <3>1 DEF MapsIn
    <3>3. ~MapsIn(d1, k) => e1[<<k, s>>] = None
      BY <1>1 DEF Tables
    <3> QED BY <2>2, <2>4, <3>1, <3>2, <3>3
  <2> QED BY <2>3, <2>4
<1>7. Overridden(d1, e1, d2, e2, d, e)
  BY <1>5, <1>6 DEF Overridden
<1>8. Tables(d, e) /\ Reads(MergeRaw(m, folder[f].fields), d, e)
  <2>1. Tables(d1, e1) /\ Reads(m, d1, e1)
    BY <1>1
  <2> QED BY <1>3, <1>7, <2>1, MergeReads
<1> QED BY <1>1, <1>8

\* Together any first parents only decide what they set.
LEMMA PartTables ==
    ASSUME FolderOK, NEW f, NEW n \in Nat,
           \A j \in 1..n : Tables(FieldsOf(Parents(f)[j]), KeysOf(Parents(f)[j]))
    PROVE  Tables(PartFields(f, n), PartKeys(f, n))
<1> DEFINE Left == {i \in 0..n : ~Tables(PartFields(f, i), PartKeys(f, i))}
<1>1. ASSUME NEW i \in 1..n, Tables(PartFields(f, i - 1), PartKeys(f, i - 1))
      PROVE  Tables(PartFields(f, i), PartKeys(f, i))
  <2>1. PICK p : p = Parents(f)[i]
    OBVIOUS
  <2>2. Tables(FieldsOf(p), KeysOf(p))
    BY <2>1
  <2>3. PICK m1 : Reads(m1, PartFields(f, i - 1), PartKeys(f, i - 1))
    BY SomethingReads
  <2>4. PICK m2 : Reads(m2, FieldsOf(p), KeysOf(p))
    BY SomethingReads
  <2>5. PICK h \in Nat : h = i - 1 /\ i = h + 1
    OBVIOUS
  <2>6. Tables(PartFields(f, h + 1), PartKeys(f, h + 1))
    BY <1>1, <2>1, <2>2, <2>3, <2>4, <2>5, PartGrows
  <2> QED BY <2>5, <2>6
<1>2. Left = {}
  <2> SUFFICES ASSUME Left # {} PROVE FALSE
    OBVIOUS
  <2>1. PICK i \in Left : \A j \in Left : i <= j
    <3>1. Left \subseteq Nat
      OBVIOUS
    <3> HIDE DEF Left
    <3> QED BY <3>1, SmallestOf
  <2>2. i # 0
    BY PartStarts
  <2>3. i \in 1..n /\ i - 1 \in 0..n /\ ~(i <= i - 1)
    BY <2>2
  <2>4. Tables(PartFields(f, i - 1), PartKeys(f, i - 1))
    BY <2>1, <2>3
  <2> QED BY <1>1, <2>1, <2>3, <2>4
<1>3. n \in 0..n
  OBVIOUS
<1> QED BY <1>2, <1>3

----------------------------------------------------------------------------
(* The active calls of _load_raw_policy *)

\* Files merged so far: inherited, there, and each after those it extends.
Listed(s) ==
    /\ s \in Seq(PolicyFile) /\ Ordered(ParentsOf, s)
    /\ \A f \in ToSet(s) : f \in Inherited /\ Extending(f)

\* How many of its parents a call has gone to.
Taken(x) == Len(Parents(x.path)) - Len(x.refs)

\* A call has merged what its first n parents decide, and lists them.
FrameOK(x, n) ==
    /\ x.path \in Inherited /\ Extending(x.path)
    /\ x.refs \in Seq(Ref) /\ Len(x.refs) <= Len(Parents(x.path))
    /\ \A i \in 1..Len(x.refs) : x.refs[i].to = Parents(x.path)[Taken(x) + i]
    /\ n \in Nat /\ Listed(x.sources)
    /\ \A j \in 1..n : Parents(x.path)[j] \in ToSet(x.sources)
    /\ Solved => Reads(x.merged, PartFields(x.path, n), PartKeys(x.path, n))

\* The file that the k-th call is for: the root, or the parent that the call before it went to.
CalledFor(s, k) == IF k = 1 THEN RootPolicy ELSE Parents(s[k - 1].path)[Taken(s[k - 1])]

\* All calls but the last wait for the parent they went to last; the last one does when the
\* next file is entered.
StackOK(s, waits) ==
    \A k \in 1..Len(s) : /\ s[k].path = CalledFor(s, k)
                         /\ k # Len(s) \/ waits => FrameOK(s[k], Taken(s[k]) - 1)
                         /\ k = Len(s) /\ ~waits => FrameOK(s[k], Taken(s[k]))

\* What the merged mapping is to hold.
Gathered(srcs, fields) ==
    /\ Listed(srcs) /\ RootPolicy \in ToSet(srcs) /\ fields = [k \in DOMAIN fields |-> fields[k]]
    /\ Solved => Reads(fields, FieldsOf(RootPolicy), KeysOf(RootPolicy))

LoaderInv ==
    /\ FolderOK
    /\ loading = "start" => frames = <<>> /\ target = RootPolicy
    /\ loading \in {"enter", "read"} => StackOK(frames, TRUE) /\ target = CalledFor(frames, Len(frames) + 1)
    /\ loading = "loop" => StackOK(frames, FALSE) /\ Len(frames) # 0
    /\ loading = "check" \/ Loaded => Gathered(sources, raw)
    /\ Loaded => Valid(raw) /\ policy = PolicyOf(raw)

\* All this is about the files, which do not change.
LEMMA LoaderStays ==
    ASSUME folder' = folder
    PROVE  /\ \A x, n : FrameOK(x, n)' <=> FrameOK(x, n)
           /\ \A s, k : CalledFor(s, k)' = CalledFor(s, k)
           /\ \A s, w : StackOK(s, w)' <=> StackOK(s, w)
           /\ \A s, m : Gathered(s, m)' <=> Gathered(s, m)
<1>1. /\ \A f : Parents(f)' = Parents(f)
      /\ ParentsOf' = ParentsOf /\ Inherited' = Inherited
      /\ Decider' = Decider /\ KeyDecider' = KeyDecider
  BY FolderStays
<1>2. /\ \A f : Extending(f)' <=> Extending(f)
      /\ \A x : Taken(x)' = Taken(x)
      /\ \A f, k : Sets(f, k)' <=> Sets(f, k)
      /\ \A d, k : MapsIn(d, k)' <=> MapsIn(d, k)
      /\ \A e, k : MappingBy(e, k)' = MappingBy(e, k)
  BY <1>1 DEF Extending, Taken, Sets, MapsIn, MappingBy
<1>3. /\ \A f, k, s : SetsKey(f, k, s)' <=> SetsKey(f, k, s)
      /\ \A d, k : HidesIn(d, k)' <=> HidesIn(d, k)
      /\ \A s : Ordered(ParentsOf, s)' <=> Ordered(ParentsOf, s)
  BY <1>1, <1>2 DEF SetsKey, HidesIn, Ordered
<1>4. \A d, e : Tables(d, e)' <=> Tables(d, e)
  BY <1>2, <1>3 DEF Tables
<1>5. \A m, d, e : Reads(m, d, e)' <=> Reads(m, d, e)
  BY <1>2 DEF Reads
<1>6. \A f : FieldsOf(f)' = FieldsOf(f) /\ KeysOf(f)' = KeysOf(f)
  BY <1>1 DEF FieldsOf, KeysOf
<1>7. /\ \A f, n, k : Having(f, n, k)' = Having(f, n, k)
      /\ \A f, n, x : Deciding(f, n, x)' = Deciding(f, n, x)
  BY <1>1, <1>3, <1>6 DEF Having, Deciding
<1>8. \A f, n : PartFields(f, n)' = PartFields(f, n) /\ PartKeys(f, n)' = PartKeys(f, n)
  BY <1>1, <1>6, <1>7 DEF PartFields, PartKeys
<1>9. \A f : Decides(f)' <=> Decides(f)
  BY <1>1, <1>2, <1>6, <1>8 DEF Decides
<1>10. Solved' <=> Solved
  BY <1>1, <1>4, <1>6, <1>9 DEF Solved
<1>11. \A s : Listed(s)' <=> Listed(s)
  BY <1>1, <1>2, <1>3 DEF Listed
<1>12. \A x, n : FrameOK(x, n)' <=> FrameOK(x, n)
  BY <1>1, <1>2, <1>5, <1>8, <1>10, <1>11 DEF FrameOK
<1>13. \A s, k : CalledFor(s, k)' = CalledFor(s, k)
  BY <1>1, <1>2 DEF CalledFor
<1>14. \A s, m : Gathered(s, m)' <=> Gathered(s, m)
  BY <1>5, <1>6, <1>10, <1>11 DEF Gathered
<1>15. \A s, w : StackOK(s, w)' <=> StackOK(s, w)
  BY <1>2, <1>12, <1>13 DEF StackOK
<1> QED BY <1>12, <1>13, <1>14, <1>15

\* A call may do what the files allow: its file is inherited and so are the parents.
LEMMA ParentInherited ==
    ASSUME FolderOK, NEW f \in Inherited, NEW j \in 1..Len(Parents(f))
    PROVE  Parents(f)[j] \in Inherited
<1>1. f \in PolicyFile /\ ToSet(Parents(f)) \subseteq Inherited
  BY InheritedIs
<1>2. Parents(f) \in Seq(PolicyFile)
  BY <1>1, ParentsTyped
<1>3. Parents(f)[j] \in ToSet(Parents(f))
  BY <1>2, MembersOf
<1> QED BY <1>1, <1>3

\* The file to enter is inherited.
LEMMA CallIsInherited ==
    ASSUME FolderOK, NEW s, Len(s) \in Nat, StackOK(s, TRUE)
    PROVE  CalledFor(s, Len(s) + 1) \in Inherited
<1>1. PICK n \in Nat : n = Len(s)
  OBVIOUS
<1>2. CASE n = 0
  BY <1>1, <1>2, InheritedIs DEF CalledFor
<1>3. CASE n # 0
  <2>1. n \in 1..n /\ n + 1 # 1 /\ (n + 1) - 1 = n
    BY <1>3
  <2>2. PICK x : x = s[n]
    OBVIOUS
  <2>3. FrameOK(x, Taken(x) - 1)
    BY <1>1, <2>1, <2>2 DEF StackOK
  <2>4. /\ x.path \in Inherited /\ Len(x.refs) \in Nat /\ Len(x.refs) <= Len(Parents(x.path))
        /\ Taken(x) - 1 \in Nat
    BY <2>3, LenProperties DEF FrameOK
  <2>5. Len(Parents(x.path)) \in Nat
    <3>1. Parents(x.path) \in Seq(PolicyFile)
      BY <2>4, InheritedIs, ParentsTyped
    <3> QED BY <3>1, LenProperties
  <2>6. Taken(x) \in 1..Len(Parents(x.path))
    <3>1. PICK a, b : a = Len(Parents(x.path)) /\ b = Len(x.refs) /\ Taken(x) = a - b
      BY DEF Taken
    <3>2. a \in Nat /\ b \in Nat /\ (a - b) - 1 \in Nat
      BY <2>4, <2>5, <3>1
    <3>3. a - b \in 1..a
      BY <3>2
    <3> QED BY <3>1, <3>3
  <2>7. Parents(x.path)[Taken(x)] \in Inherited
    BY <2>4, <2>6, ParentInherited
  <2>8. CalledFor(s, n + 1) = Parents(x.path)[Taken(x)]
    BY <2>1, <2>2 DEF CalledFor
  <2> QED BY <1>1, <2>7, <2>8
<1> QED BY <1>2, <1>3

\* Nothing is listed at first.
LEMMA NothingListed == Listed(<<>>)
<1>1. Len(<<>>) = 0 /\ <<>> \in Seq(PolicyFile)
  OBVIOUS
<1>2. ToSet(<<>>) = {}
  BY DEF ToSet
<1> QED BY <1>1, <1>2 DEF Listed, Ordered

\* A new call has merged nothing.
LEMMA FreshIsOK ==
    ASSUME FolderOK, NEW f \in Inherited, Extending(f)
    PROVE  /\ FreshFrame(f).path = f /\ Taken(FreshFrame(f)) = 0
           /\ FrameOK(FreshFrame(f), Taken(FreshFrame(f)))
<1>1. PICK x : x = FreshFrame(f)
  OBVIOUS
<1>2. x.path = f /\ x.refs = folder[f].refs /\ x.merged = <<>> /\ x.sources = <<>>
  BY <1>1 DEF FreshFrame
<1>3. /\ f \in PolicyFile /\ x.refs \in Seq(Ref) /\ Len(Parents(f)) = Len(x.refs)
      /\ \A i \in 1..Len(x.refs) : Parents(f)[i] = x.refs[i].to
  BY <1>2, InheritedIs, ParentsTyped
<1>4. Len(x.refs) \in Nat
  BY <1>3, LenProperties
<1>5. Taken(x) = 0 /\ Taken(x) = 0
  BY <1>2, <1>3, <1>4 DEF Taken
<1>6. \A i \in 1..Len(x.refs) : 0 + i = i
  BY <1>4
<1>7. Reads(x.merged, PartFields(x.path, 0), PartKeys(x.path, 0))
  BY <1>2, PartStarts
<1>8. FrameOK(x, 0)
  BY <1>2, <1>3, <1>4, <1>5, <1>6, <1>7, NothingListed DEF FrameOK
<1> QED BY <1>1, <1>2, <1>5, <1>8

\* Going to the next parent.
LEMMA NextIsOK ==
    ASSUME FolderOK, NEW x, FrameOK(x, Taken(x)), x.refs # <<>>, NEW y,
           y.path = x.path, y.refs = Tail(x.refs), y.merged = x.merged, y.sources = x.sources
    PROVE  FrameOK(y, Taken(y) - 1) /\ Head(x.refs).to = Parents(y.path)[Taken(y)]
<1>1. PICK r \in Seq(Ref) : r = x.refs
  BY DEF FrameOK
<1>2. /\ r # <<>> /\ Tail(r) \in Seq(Ref) /\ Len(r) \in Nat /\ Len(r) # 0 /\ Len(Tail(r)) = Len(r) - 1
      /\ Head(r) = r[1] /\ \A i \in 1..Len(Tail(r)) : Tail(r)[i] = r[i + 1]
  BY <1>1, HeadTailProperties, EmptySeq, LenProperties
<1>3. PICK m \in Nat : m = Len(Parents(x.path))
  <2>1. Parents(x.path) \in Seq(PolicyFile)
    BY InheritedIs, ParentsTyped DEF FrameOK
  <2> QED BY <2>1, LenProperties
<1>4. Taken(x) = m - Len(r) /\ Taken(y) = m - Len(r) + 1 /\ Len(r) <= m
  <2>1. Len(y.refs) = Len(r) - 1 /\ Len(r) <= m
    BY <1>1, <1>2, <1>3 DEF FrameOK
  <2>2. Taken(x) = m - Len(r) /\ Taken(y) = m - (Len(r) - 1)
    BY <1>1, <1>3, <2>1 DEF Taken
  <2> QED BY <1>2, <2>1, <2>2
<1>5. Taken(y) - 1 = Taken(x) /\ Taken(x) = Taken(x)
  BY <1>2, <1>4
<1>6. \A i \in 1..Len(r) : r[i].to = Parents(x.path)[Taken(x) + i]
  BY <1>1 DEF FrameOK
<1>7. ASSUME NEW i \in 1..Len(Tail(r)) PROVE Tail(r)[i].to = Parents(x.path)[Taken(y) + i]
  <2>1. i + 1 \in 1..Len(r) /\ Taken(x) + (i + 1) = Taken(y) + i
    BY <1>2, <1>4
  <2> QED BY <1>2, <1>6, <2>1
<1>8. Head(r).to = Parents(x.path)[Taken(y)]
  <2>1. 1 \in 1..Len(r) /\ Taken(x) + 1 = Taken(y)
    BY <1>2, <1>4
  <2> QED BY <1>2, <1>6, <2>1
<1>9. FrameOK(y, Taken(x))
  <2>1. FrameOK(x, Taken(x))
    BY <1>5
  <2>2. Len(Tail(r)) <= Len(Parents(x.path))
    BY <1>2, <1>3, <1>4
  <2> QED BY <1>1, <1>2, <1>7, <2>1, <2>2 DEF FrameOK
<1> QED BY <1>1, <1>5, <1>8, <1>9

\* What is listed may be added to what is.
LEMMA ListedTogether ==
    ASSUME NEW s, Listed(s), NEW more, Listed(more)
    PROVE  Listed(AddSources(s, more)) /\ ToSet(AddSources(s, more)) = ToSet(s) \cup ToSet(more)
<1>0. PICK below : below = ParentsOf
  OBVIOUS
<1>1. \A k \in 1..Len(more) : \A p \in below[more[k]] : p \in ToSet(s) \/ \E j \in 1..(k - 1) : more[j] = p
  BY <1>0 DEF Listed, Ordered
<1>2. s \in Seq(PolicyFile) /\ Ordered(ParentsOf, s) /\ more \in Seq(PolicyFile)
  BY DEF Listed
<1>3. /\ AddSources(s, more) \in Seq(PolicyFile) /\ Ordered(below, AddSources(s, more))
      /\ ToSet(AddSources(s, more)) = ToSet(s) \cup ToSet(more)
  BY <1>0, <1>1, <1>2, AddKeepsOrdered
<1> QED BY <1>0, <1>3 DEF Listed

\* A file may be listed after its parents.
LEMMA ListedAfterParents ==
    ASSUME FolderOK, NEW s, Listed(s), NEW f \in Inherited, Extending(f), ToSet(Parents(f)) \subseteq ToSet(s)
    PROVE  Listed(AddSources(s, <<f>>)) /\ f \in ToSet(AddSources(s, <<f>>))
<1>1. f \in PolicyFile /\ ParentsOf[f] = ToSet(Parents(f))
  BY InheritedIs DEF ParentsOf
<1>0. PICK below : below = ParentsOf
  OBVIOUS
<1> DEFINE more == <<f>>
<1>2. more \in Seq(PolicyFile) /\ Len(more) = 1 /\ more[1] = f
  BY <1>1
<1> HIDE DEF more
<1>3. ToSet(more) = {f}
  <2>1. ToSet(more) = {more[k] : k \in 1..1}
    BY <1>2, MembersOf
  <2> QED BY <1>2, <2>1
<1>4. \A k \in 1..Len(more) : \A p \in below[more[k]] : p \in ToSet(s) \/ \E j \in 1..(k - 1) : more[j] = p
  BY <1>0, <1>1, <1>2
<1>5. s \in Seq(PolicyFile) /\ Ordered(ParentsOf, s)
  BY DEF Listed
<1>6. /\ AddSources(s, more) \in Seq(PolicyFile) /\ Ordered(below, AddSources(s, more))
      /\ ToSet(AddSources(s, more)) = ToSet(s) \cup {f}
  BY <1>0, <1>2, <1>3, <1>4, <1>5, AddKeepsOrdered
<1> QED BY <1>0, <1>6 DEF Listed, more

\* A call returns what its file decides, listed after all that it inherits.
LEMMA CallReturns ==
    ASSUME FolderOK, NEW x, FrameOK(x, Taken(x)), x.refs = <<>>
    PROVE  /\ Listed(AddSources(x.sources, <<x.path>>))
           /\ x.path \in ToSet(AddSources(x.sources, <<x.path>>))
           /\ Solved => Reads(MergeRaw(x.merged, folder[x.path].fields), FieldsOf(x.path), KeysOf(x.path))
<1>1. PICK f \in Inherited : f = x.path
  BY DEF FrameOK
<1>2. /\ f \in PolicyFile /\ Extending(f) /\ Parents(f) \in Seq(PolicyFile)
      /\ \A j \in 1..Len(Parents(f)) : Parents(f)[j] \in Inherited
  BY <1>1, InheritedIs, ParentsTyped, ParentInherited DEF FrameOK
<1>3. PICK n \in Nat : n = Len(Parents(f))
  BY <1>2, LenProperties
<1>4. Taken(x) = n
  BY <1>1, <1>3 DEF Taken
<1>5. /\ Listed(x.sources) /\ \A j \in 1..n : Parents(f)[j] \in ToSet(x.sources)
      /\ Solved => Reads(x.merged, PartFields(f, n), PartKeys(f, n))
  BY <1>1, <1>4 DEF FrameOK
<1>6. ToSet(Parents(f)) \subseteq ToSet(x.sources)
  BY <1>2, <1>3, <1>5, MembersOf
<1>7. ASSUME Solved PROVE Reads(MergeRaw(x.merged, folder[f].fields), FieldsOf(f), KeysOf(f))
  <2>1. folder[f] # Absent /\ Decides(f)
    BY <1>7 DEF Solved
  <2>2. \A j \in 1..n : Tables(FieldsOf(Parents(f)[j]), KeysOf(Parents(f)[j]))
    BY <1>2, <1>3, <1>7 DEF Solved
  <2>3. Tables(PartFields(f, n), PartKeys(f, n))
    BY <2>2, PartTables
  <2> QED BY <1>2, <1>3, <1>5, <1>7, <2>1, <2>3, FileReads
<1> QED BY <1>1, <1>2, <1>5, <1>6, <1>7, ListedAfterParents

\* Its caller merges what it returns.
LEMMA CallerReceives ==
    ASSUME FolderOK, NEW y, FrameOK(y, Taken(y) - 1), NEW p, p = Parents(y.path)[Taken(y)],
           NEW fields, Solved => Reads(fields, FieldsOf(p), KeysOf(p)),
           NEW listed, Listed(listed), p \in ToSet(listed),
           NEW z, z.path = y.path, z.refs = y.refs, z.merged = MergeRaw(y.merged, fields),
           z.sources = AddSources(y.sources, listed)
    PROVE  FrameOK(z, Taken(z)) /\ Taken(z) = Taken(y)
<1>1. PICK f \in Inherited : f = y.path
  BY DEF FrameOK
<1>2. f \in PolicyFile /\ Parents(f) \in Seq(PolicyFile)
  BY InheritedIs, ParentsTyped
<1>3. PICK m \in Nat, r \in Nat : m = Len(Parents(f)) /\ r = Len(y.refs) /\ r <= m
  BY <1>1, <1>2, LenProperties DEF FrameOK
<1>4. Taken(y) = m - r /\ Taken(z) = m - r
  BY <1>1, <1>3 DEF Taken
<1>5. PICK n \in Nat : n = m - r - 1 /\ Taken(y) - 1 = n /\ Taken(z) = n + 1 /\ Taken(y) = n + 1
  <2>1. Taken(y) - 1 = m - r - 1 /\ Taken(y) - 1 \in Nat
    BY <1>4 DEF FrameOK
  <2>2. m - r = (m - r - 1) + 1
    OBVIOUS
  <2> QED BY <1>4, <2>1, <2>2
<1>6. /\ Listed(y.sources) /\ \A j \in 1..n : Parents(f)[j] \in ToSet(y.sources)
      /\ Solved => Reads(y.merged, PartFields(f, n), PartKeys(f, n))
  BY <1>1, <1>5 DEF FrameOK
<1>7. Listed(z.sources) /\ ToSet(z.sources) = ToSet(y.sources) \cup ToSet(listed)
  BY <1>6, ListedTogether
<1>8. \A j \in 1..(n + 1) : Parents(f)[j] \in ToSet(z.sources)
  <2>1. 1..(n + 1) = 1..n \cup {n + 1}
    OBVIOUS
  <2> QED BY <1>1, <1>5, <1>6, <1>7, <2>1
<1>9. ASSUME Solved PROVE Reads(z.merged, PartFields(f, n + 1), PartKeys(f, n + 1))
  <2>0. n + 1 <= m
    BY <1>3, <1>5
  <2>1. \A j \in 1..(n + 1) : Tables(FieldsOf(Parents(f)[j]), KeysOf(Parents(f)[j]))
    <3>1. \A j \in 1..(n + 1) : Parents(f)[j] \in Inherited
      BY <1>3, <2>0, ParentInherited
    <3> QED BY <1>9, <3>1 DEF Solved
  <2>2. Tables(PartFields(f, n), PartKeys(f, n))
    <3>1. \A j \in 1..n : j \in 1..(n + 1)
      OBVIOUS
    <3> QED BY <2>1, <3>1, PartTables
  <2>3. Tables(FieldsOf(p), KeysOf(p)) /\ p = Parents(f)[n + 1]
    <3>1. n + 1 \in 1..(n + 1)
      OBVIOUS
    <3> QED BY <1>1, <1>5, <2>1, <3>1
  <2>4. Reads(MergeRaw(y.merged, fields), PartFields(f, n + 1), PartKeys(f, n + 1))
    BY <1>6, <1>9, <2>2, <2>3, PartGrows
  <2> QED BY <2>4
<1>10. FrameOK(z, n + 1)
  <2>1. FrameOK(y, n)
    BY <1>5
  <2>2. /\ z.refs \in Seq(Ref) /\ Len(z.refs) <= Len(Parents(z.path))
        /\ \A i \in 1..Len(z.refs) : z.refs[i].to = Parents(z.path)[Taken(z) + i]
    BY <1>4, <2>1 DEF FrameOK
  <2>3. z.path \in Inherited /\ Extending(z.path) /\ z.path = f
    BY <1>1, <2>1 DEF FrameOK
  <2>4. n + 1 \in Nat
    OBVIOUS
  <2> QED BY <1>7, <1>8, <1>9, <2>2, <2>3, <2>4 DEF FrameOK
<1> QED BY <1>4, <1>5, <1>10

\* Entering a file makes a call for it.
LEMMA StackGrows ==
    ASSUME FolderOK, NEW s, NEW n \in Nat, Len(s) = n, StackOK(s, TRUE), NEW f, f = CalledFor(s, n + 1),
           Extending(f), NEW t, Len(t) = n + 1, \A k \in 1..n : t[k] = s[k], t[n + 1] = FreshFrame(f)
    PROVE  StackOK(t, FALSE)
<1>1. f \in Inherited
  BY CallIsInherited
<1>2. FreshFrame(f).path = f /\ FrameOK(FreshFrame(f), Taken(FreshFrame(f)))
  BY <1>1, FreshIsOK
<1>3. ASSUME NEW k \in 1..(n + 1) PROVE CalledFor(t, k) = CalledFor(s, k)
  <2>1. k # 1 => k - 1 \in 1..n
    OBVIOUS
  <2> QED BY <2>1 DEF CalledFor
<1>4. ASSUME NEW k \in 1..n PROVE s[k].path = CalledFor(s, k) /\ FrameOK(s[k], Taken(s[k]) - 1)
  BY DEF StackOK
<1>5. ASSUME NEW k \in 1..(n + 1)
      PROVE  /\ t[k].path = CalledFor(t, k)
             /\ k # n + 1 => FrameOK(t[k], Taken(t[k]) - 1)
             /\ k = n + 1 => FrameOK(t[k], Taken(t[k]))
  <2>1. CASE k = n + 1
    BY <1>2, <1>3, <2>1
  <2>2. CASE k # n + 1
    <3>1. k \in 1..n /\ t[k] = s[k]
      BY <2>2
    <3> QED BY <1>3, <1>4, <2>2, <3>1
  <2> QED BY <2>1, <2>2
<1> QED BY <1>5 DEF StackOK

\* The last call goes to its next parent.
LEMMA StackWaits ==
    ASSUME FolderOK, NEW s, NEW n \in Nat \ {0}, Len(s) = n, StackOK(s, FALSE), s[n].refs # <<>>,
           NEW t, Len(t) = n, \A k \in 1..(n - 1) : t[k] = s[k],
           t[n].path = s[n].path, t[n].refs = Tail(s[n].refs),
           t[n].merged = s[n].merged, t[n].sources = s[n].sources
    PROVE  StackOK(t, TRUE) /\ CalledFor(t, n + 1) = Head(s[n].refs).to
<1>1. PICK x, y : x = s[n] /\ y = t[n]
  OBVIOUS
<1>2. FrameOK(x, Taken(x)) /\ x.path = CalledFor(s, n)
  BY <1>1 DEF StackOK
<1>3. FrameOK(y, Taken(y) - 1) /\ Head(x.refs).to = Parents(y.path)[Taken(y)]
  BY <1>1, <1>2, NextIsOK
<1>4. ASSUME NEW k \in 1..n PROVE CalledFor(t, k) = CalledFor(s, k)
  <2>1. k # 1 => k - 1 \in 1..(n - 1)
    OBVIOUS
  <2> QED BY <2>1 DEF CalledFor
<1>5. ASSUME NEW k \in 1..(n - 1) PROVE s[k].path = CalledFor(s, k) /\ FrameOK(s[k], Taken(s[k]) - 1)
  BY DEF StackOK
<1>6. ASSUME NEW k \in 1..n PROVE t[k].path = CalledFor(t, k) /\ FrameOK(t[k], Taken(t[k]) - 1)
  <2>1. CASE k = n
    BY <1>1, <1>2, <1>3, <1>4, <2>1
  <2>2. CASE k # n
    <3>1. k \in 1..(n - 1) /\ t[k] = s[k]
      BY <2>2
    <3> QED BY <1>4, <1>5, <3>1
  <2> QED BY <2>1, <2>2
<1>7. CalledFor(t, n + 1) = Parents(y.path)[Taken(y)]
  <2>1. n + 1 # 1 /\ (n + 1) - 1 = n
    OBVIOUS
  <2> QED BY <1>1, <2>1 DEF CalledFor
<1> QED BY <1>1, <1>3, <1>6, <1>7 DEF StackOK

\* The last call returns, to the one before it.
LEMMA StackReturns ==
    ASSUME FolderOK, NEW s, NEW n \in Nat \ {0}, Len(s) = n, StackOK(s, FALSE), s[n].refs = <<>>,
           NEW fields, fields = MergeRaw(s[n].merged, folder[s[n].path].fields),
           NEW listed, listed = AddSources(s[n].sources, <<s[n].path>>)
    PROVE  /\ n = 1 => Gathered(listed, fields)
           /\ \A t : /\ n # 1 /\ Len(t) = n - 1 /\ \A k \in 1..(n - 2) : t[k] = s[k]
                     /\ t[n - 1].path = s[n - 1].path /\ t[n - 1].refs = s[n - 1].refs
                     /\ t[n - 1].merged = MergeRaw(s[n - 1].merged, fields)
                     /\ t[n - 1].sources = AddSources(s[n - 1].sources, listed)
                     => StackOK(t, FALSE)
<1>1. PICK x : x = s[n]
  OBVIOUS
<1>2. FrameOK(x, Taken(x)) /\ x.path = CalledFor(s, n)
  BY <1>1 DEF StackOK
<1>3. /\ Listed(listed) /\ x.path \in ToSet(listed)
      /\ Solved => Reads(fields, FieldsOf(x.path), KeysOf(x.path))
  BY <1>1, <1>2, CallReturns
<1>4. n = 1 => Gathered(listed, fields)
  <2>1. fields = [k \in DOMAIN fields |-> fields[k]]
    BY DEF MergeRaw
  <2> QED BY <1>2, <1>3, <2>1 DEF CalledFor, Gathered
<1>5. ASSUME NEW t, n # 1, Len(t) = n - 1, \A k \in 1..(n - 2) : t[k] = s[k],
             t[n - 1].path = s[n - 1].path, t[n - 1].refs = s[n - 1].refs,
             t[n - 1].merged = MergeRaw(s[n - 1].merged, fields),
             t[n - 1].sources = AddSources(s[n - 1].sources, listed)
      PROVE  StackOK(t, FALSE)
  <2>1. PICK y, z : y = s[n - 1] /\ z = t[n - 1]
    OBVIOUS
  <2>2. \A k \in 1..(n - 1) : s[k].path = CalledFor(s, k) /\ FrameOK(s[k], Taken(s[k]) - 1)
    BY DEF StackOK
  <2>3. n - 1 \in 1..(n - 1)
    BY <1>5
  <2>4. FrameOK(y, Taken(y) - 1) /\ x.path = Parents(y.path)[Taken(y)] /\ y.path = CalledFor(s, n - 1)
    BY <1>2, <1>5, <2>1, <2>2, <2>3 DEF CalledFor
  <2>5. FrameOK(z, Taken(z))
    <3>1. /\ z.path = y.path /\ z.refs = y.refs /\ z.merged = MergeRaw(y.merged, fields)
          /\ z.sources = AddSources(y.sources, listed)
      BY <1>5, <2>1
    <3>2. PICK p : p = x.path
      OBVIOUS
    <3>3. /\ p = Parents(y.path)[Taken(y)] /\ p \in ToSet(listed) /\ Listed(listed)
          /\ Solved => Reads(fields, FieldsOf(p), KeysOf(p))
      BY <1>3, <2>4, <3>2
    <3>4. /\ FolderOK /\ FrameOK(y, Taken(y) - 1) /\ p = Parents(y.path)[Taken(y)]
          /\ p \in ToSet(listed) /\ Listed(listed)
          /\ z.path = y.path /\ z.refs = y.refs /\ z.merged = MergeRaw(y.merged, fields)
          /\ z.sources = AddSources(y.sources, listed)
      BY <2>4, <3>1, <3>3
    <3>5. Solved => Reads(fields, FieldsOf(p), KeysOf(p))
      BY <3>3
    <3>6. FrameOK(z, Taken(z)) /\ Taken(z) = Taken(y)
      BY ONLY <3>4, <3>5, CallerReceives
    <3> QED BY <3>6
  <2>6. ASSUME NEW k \in 1..(n - 1) PROVE CalledFor(t, k) = CalledFor(s, k)
    <3>1. k # 1 => k - 1 \in 1..(n - 2)
      OBVIOUS
    <3> QED BY <1>5, <3>1 DEF CalledFor
  <2>7. ASSUME NEW k \in 1..(n - 1)
        PROVE  /\ t[k].path = CalledFor(t, k)
               /\ k # n - 1 => FrameOK(t[k], Taken(t[k]) - 1)
               /\ k = n - 1 => FrameOK(t[k], Taken(t[k]))
    <3>1. CASE k = n - 1
      BY <1>5, <2>1, <2>4, <2>5, <2>6, <3>1
    <3>2. CASE k # n - 1
      <4>1. k \in 1..(n - 2) /\ t[k] = s[k]
        BY <1>5, <3>2
      <4> QED BY <2>2, <2>6, <3>2, <4>1
    <3> QED BY <3>1, <3>2
  <2> QED BY <1>5, <2>7 DEF StackOK
<1> QED BY <1>4, <1>5

\* What the invariant says of the next state, as long as the files do not change.
LEMMA NextLoader ==
    ASSUME LoaderInv, folder' = folder,
           loading' = "start" => frames' = <<>> /\ target' = RootPolicy,
           loading' \in {"enter", "read"} =>
               StackOK(frames', TRUE) /\ target' = CalledFor(frames', Len(frames') + 1),
           loading' = "loop" => StackOK(frames', FALSE) /\ Len(frames') # 0,
           loading' = "check" \/ (loading' = "loaded" /\ folder[RootPolicy] # Absent) =>
               Gathered(sources', raw'),
           loading' = "loaded" /\ folder[RootPolicy] # Absent => Valid(raw') /\ policy' = PolicyOf(raw')
    PROVE  LoaderInv'
<1>1. FolderOK'
  BY FolderStays DEF LoaderInv
<1>2. Loaded' <=> loading' = "loaded" /\ folder[RootPolicy] # Absent
  BY DEF Loaded
<1> QED BY <1>1, <1>2, LoaderStays DEF LoaderInv

\* Every step of load_policy keeps what its calls have gathered.
LEMMA LoaderInductive == ASSUME LoaderInv, BudgetInv, [Next]_vars PROVE LoaderInv'
<1>0. PICK n \in Nat : frames = [k \in 1..n |-> frames[k]] /\ n <= MaxInheritance
  BY DEF BudgetInv, WellStacked
<1>1. /\ Len(frames) = n /\ DOMAIN frames = 1..n /\ FolderOK
      /\ \A k \in 1..n : DOMAIN frames[k] = FrameField
  BY <1>0, LengthOf DEF BudgetInv, WellStacked, LoaderInv
<1>2. CASE RejectPolicy
  BY <1>2, NextLoader DEF RejectPolicy
<1>3. CASE BeginLoad
  <2>1. frames = <<>> /\ target = RootPolicy /\ UNCHANGED <<folder, frames, target>>
    BY <1>3 DEF BeginLoad, LoaderInv
  <2>2. StackOK(<<>>, TRUE) /\ CalledFor(<<>>, Len(<<>>) + 1) = RootPolicy
    <3>1. Len(<<>>) = 0
      OBVIOUS
    <3> QED BY <3>1 DEF StackOK, CalledFor
  <2>3. loading' \in {"enter", "loaded"} /\ (loading' = "loaded" => folder[RootPolicy] = Absent)
    BY <1>3 DEF BeginLoad
  <2> QED BY <2>1, <2>2, <2>3, NextLoader
<1>4. CASE Enter /\ ~RejectPolicy
  <2>1. loading = "enter" /\ loading' = "read" /\ UNCHANGED <<folder, frames, target>>
    BY <1>4 DEF Enter
  <2> QED BY <2>1, NextLoader DEF LoaderInv
<1>5. CASE ReadPolicy /\ ~RejectPolicy
  <2>1. /\ loading = "read" /\ loading' = "loop" /\ folder[target].refs # Bad
        /\ frames' = Append(frames, FreshFrame(target)) /\ UNCHANGED folder
    BY <1>5 DEF ReadPolicy, ReadWithin
  <2>2. Extending(target)
    BY <2>1 DEF Extending, BudgetInv, Enterable
  <2>3. PICK t, f : t = frames' /\ f = target
    OBVIOUS
  <2> DEFINE T == {frames[k] : k \in DOMAIN frames} \cup {FreshFrame(f)}
  <2>4. frames \in Seq(T) /\ FreshFrame(f) \in T
    BY <1>0, LengthOf, SeqDef
  <2>5. Len(t) = n + 1 /\ t[n + 1] = FreshFrame(f) /\ \A k \in 1..n : t[k] = frames[k]
    BY <1>1, <2>1, <2>3, <2>4, AppendProperties
  <2>6. StackOK(frames, TRUE) /\ f = CalledFor(frames, n + 1)
    BY <1>1, <2>1, <2>3 DEF LoaderInv
  <2>7. StackOK(t, FALSE)
    BY <1>1, <2>2, <2>3, <2>5, <2>6, StackGrows
  <2>8. Len(t) # 0
    BY <2>5
  <2> QED BY <2>1, <2>3, <2>7, <2>8, NextLoader
<1>6. CASE Inherit /\ ~RejectPolicy
  <2>1. /\ loading = "loop" /\ loading' = "enter" /\ UNCHANGED folder
        /\ Last(frames).refs # <<>> /\ target' = Head(Last(frames).refs).to
        /\ frames' = [frames EXCEPT ![Len(frames)].refs = Tail(@)]
    BY <1>6 DEF Inherit, Top
  <2>2. StackOK(frames, FALSE) /\ n # 0
    BY <1>1, <2>1 DEF LoaderInv
  <2>3. PICK t : t = frames'
    OBVIOUS
  <2>4. /\ t = [k \in 1..n |-> t[k]] /\ \A k \in 1..(n - 1) : t[k] = frames[k]
        /\ t[n].path = frames[n].path /\ t[n].refs = Tail(frames[n].refs)
        /\ t[n].merged = frames[n].merged /\ t[n].sources = frames[n].sources
    <3>1. n \in DOMAIN frames /\ DOMAIN frames[n] = FrameField
      BY <1>1, <2>2
    <3>2. t = [frames EXCEPT ![n] = [frames[n] EXCEPT !.refs = Tail(frames[n].refs)]]
      BY <1>1, <2>1, <2>3
    <3>3. t[n] = [frames[n] EXCEPT !.refs = Tail(frames[n].refs)]
      BY <3>1, <3>2
    <3>4. t = [k \in 1..n |-> t[k]]
      BY <1>0, <1>1, <2>1, <2>3
    <3>5. \A k \in 1..(n - 1) : t[k] = frames[k]
      BY <1>1, <2>1, <2>3
    <3> QED BY <3>1, <3>3, <3>4, <3>5 DEF FrameField
  <2>5. Len(t) = n /\ Last(frames) = frames[n]
    BY <1>1, <2>4, LengthOf DEF Last
  <2>6. StackOK(t, TRUE) /\ CalledFor(t, n + 1) = Head(frames[n].refs).to
    <3>1. PICK s : s = frames
      OBVIOUS
    <3>2. /\ n \in Nat \ {0} /\ Len(s) = n /\ StackOK(s, FALSE) /\ s[n].refs # <<>> /\ FolderOK
          /\ Len(t) = n /\ \A k \in 1..(n - 1) : t[k] = s[k]
          /\ t[n].path = s[n].path /\ t[n].refs = Tail(s[n].refs)
          /\ t[n].merged = s[n].merged /\ t[n].sources = s[n].sources
      BY <1>1, <2>1, <2>2, <2>4, <2>5, <3>1
    <3>3. StackOK(t, TRUE) /\ CalledFor(t, n + 1) = Head(s[n].refs).to
      BY <3>2, StackWaits
    <3> QED BY <3>1, <3>3
  <2> QED BY <2>1, <2>3, <2>5, <2>6, NextLoader
<1>7. CASE ReturnPolicy
  <2>1. loading = "loop" /\ Last(frames).refs = <<>> /\ UNCHANGED folder
    BY <1>7 DEF ReturnPolicy, Top
  <2>2. StackOK(frames, FALSE) /\ n # 0 /\ Last(frames) = frames[n]
    BY <1>1, <2>1 DEF LoaderInv, Last
  <2>3. PICK fields, listed : /\ fields = MergeRaw(frames[n].merged, folder[frames[n].path].fields)
                              /\ listed = AddSources(frames[n].sources, <<frames[n].path>>)
    OBVIOUS
  <2>4. PICK rest : rest = Front(frames)
    OBVIOUS
  <2>5. Len(rest) = n - 1 /\ rest = [k \in 1..(n - 1) |-> rest[k]] /\ \A k \in 1..(n - 1) : rest[k] = frames[k]
    <3>1. PICK m \in Nat : /\ n # 0 => m = n - 1
                           /\ Len(Front(frames)) = m
                           /\ Front(frames) = [k \in 1..m |-> Front(frames)[k]]
                           /\ \A k \in 1..m : Front(frames)[k] = frames[k]
      BY <1>0, FrontOf
    <3> QED BY <2>2, <2>4, <3>1
  <2>6. CASE rest = <<>>
    <3>1. loading' = "check" /\ raw' = fields /\ sources' = listed
      BY <1>7, <2>2, <2>3, <2>4, <2>6 DEF ReturnPolicy, Top
    <3>2. n = 1
      BY <2>2, <2>5, <2>6
    <3>3. Gathered(listed, fields)
      BY <1>1, <2>1, <2>2, <2>3, <3>2, StackReturns
    <3> QED BY <2>1, <3>1, <3>3, NextLoader
  <2>7. CASE rest # <<>>
    <3>1. /\ loading' = "loop"
          /\ frames' = [rest EXCEPT ![Len(rest)].merged = MergeRaw(@, fields),
                                    ![Len(rest)].sources = AddSources(@, listed)]
      BY <1>7, <2>1, <2>2, <2>3, <2>4, <2>7 DEF ReturnPolicy, Top
    <3>2. n # 1
      <4>1. ASSUME n = 1 PROVE rest = <<>>
        <5>1. rest = [k \in 1..0 |-> rest[k]]
          BY <2>5, <4>1
        <5> QED BY <5>1
      <4> QED BY <2>7, <4>1
    <3>3. PICK t : t = frames'
      OBVIOUS
    <3>4. PICK h \in Nat \ {0} : h = n - 1
      BY <2>2, <3>2
    <3>5. \A k \in 1..h : DOMAIN rest[k] = FrameField
      BY <1>1, <2>5, <3>4
    <3>6. /\ t = [k \in 1..h |-> t[k]] /\ \A k \in 1..(h - 1) : t[k] = rest[k]
          /\ t[h].path = rest[h].path /\ t[h].refs = rest[h].refs
          /\ t[h].merged = MergeRaw(rest[h].merged, fields)
          /\ t[h].sources = AddSources(rest[h].sources, listed)
      <4>1. h \in 1..h /\ rest = [k \in 1..h |-> rest[k]] /\ Len(rest) = h /\ DOMAIN rest[h] = FrameField
        BY <2>5, <3>4, <3>5
      <4>2. t = [rest EXCEPT ![h] = [rest[h] EXCEPT !.merged = MergeRaw(@, fields),
                                                    !.sources = AddSources(@, listed)]]
        BY <3>1, <3>3, <4>1 DEF FrameField
      <4>3. t[h] = [rest[h] EXCEPT !.merged = MergeRaw(@, fields), !.sources = AddSources(@, listed)]
        BY <4>1, <4>2
      <4>4. PICK changed : changed = [rest[h] EXCEPT !.merged = MergeRaw(@, fields),
                                                     !.sources = AddSources(@, listed)]
        OBVIOUS
      <4>5. t = [rest EXCEPT ![h] = changed] /\ DOMAIN rest = 1..h
        BY <4>1, <4>2, <4>4
      <4>6. DOMAIN t = 1..h /\ t = [k \in DOMAIN t |-> t[k]]
        BY <4>5
      <4>7. t = [k \in 1..h |-> t[k]]
        BY <4>6
      <4>8. ASSUME NEW k \in 1..(h - 1) PROVE t[k] = rest[k]
        BY <4>5
      <4> QED BY <4>1, <4>3, <4>7, <4>8 DEF FrameField
    <3>7. Len(t) = n - 1
      BY <3>4, <3>6, LengthOf
    <3>8. /\ \A k \in 1..(n - 2) : t[k] = frames[k]
          /\ t[n - 1].path = frames[n - 1].path /\ t[n - 1].refs = frames[n - 1].refs
          /\ t[n - 1].merged = MergeRaw(frames[n - 1].merged, fields)
          /\ t[n - 1].sources = AddSources(frames[n - 1].sources, listed)
      <4>1. n - 1 = h /\ n - 2 = h - 1 /\ h \in 1..(n - 1) /\ 1..(h - 1) \subseteq 1..(n - 1)
        BY <3>4
      <4>2. rest[h] = frames[h] /\ \A k \in 1..(h - 1) : rest[k] = frames[k]
        BY <2>5, <4>1
      <4> QED BY <3>6, <4>1, <4>2
    <3>9. StackOK(t, FALSE)
      <4>1. \A u : /\ n # 1 /\ Len(u) = n - 1 /\ \A k \in 1..(n - 2) : u[k] = frames[k]
                   /\ u[n - 1].path = frames[n - 1].path /\ u[n - 1].refs = frames[n - 1].refs
                   /\ u[n - 1].merged = MergeRaw(frames[n - 1].merged, fields)
                   /\ u[n - 1].sources = AddSources(frames[n - 1].sources, listed)
                   => StackOK(u, FALSE)
        <5>1. PICK s : s = frames
          OBVIOUS
        <5>2. n \in Nat \ {0} /\ Len(s) = n /\ StackOK(s, FALSE) /\ s[n].refs = <<>>
          BY <1>1, <2>1, <2>2, <5>1
        <5>3. /\ fields = MergeRaw(s[n].merged, folder[s[n].path].fields)
              /\ listed = AddSources(s[n].sources, <<s[n].path>>)
          BY <2>3, <5>1
        <5>4. \A u : /\ n # 1 /\ Len(u) = n - 1 /\ \A k \in 1..(n - 2) : u[k] = s[k]
                     /\ u[n - 1].path = s[n - 1].path /\ u[n - 1].refs = s[n - 1].refs
                     /\ u[n - 1].merged = MergeRaw(s[n - 1].merged, fields)
                     /\ u[n - 1].sources = AddSources(s[n - 1].sources, listed)
                     => StackOK(u, FALSE)
          BY <1>1, <5>2, <5>3, StackReturns
        <5> QED BY <5>1, <5>4
      <4> QED BY <3>2, <3>7, <3>8, <4>1
    <3>10. Len(t) # 0
      BY <3>4, <3>7
    <3> QED BY <2>1, <3>1, <3>3, <3>9, <3>10, NextLoader
  <2> QED BY <2>6, <2>7
<1>8. CASE CheckPolicy /\ ~RejectPolicy
  <2>1. /\ loading = "check" /\ loading' = "loaded" /\ Valid(raw) /\ policy' = PolicyOf(raw)
        /\ UNCHANGED <<folder, raw, sources>>
    BY <1>8 DEF CheckPolicy
  <2> QED BY <2>1, NextLoader DEF LoaderInv
<1>9. CASE UNCHANGED loadVars
  BY <1>9, NextLoader DEF loadVars, LoaderInv, Loaded
<1> QED BY <1>2, <1>3, <1>4, <1>5, <1>6, <1>7, <1>8, <1>9, OnlyLoadingLoads DEF LoadPolicy

----------------------------------------------------------------------------
(* Which file decides *)

\* Files have places, with parents before those that extend them.
Ranked(place) ==
    /\ place \in [Inherited -> Nat] /\ Inherited \subseteq PolicyFile
    /\ \A f \in Inherited : \A j \in 1..Len(Parents(f)) :
          Parents(f)[j] \in Inherited /\ place[Parents(f)[j]] < place[f]
    /\ \A f \in Inherited : Parents(f) \in Seq(PolicyFile)

\* What lists the root after all it inherits lists all of that, each file once, in places.
LEMMA ListIsAll ==
    ASSUME FolderOK, NEW s, Listed(s), RootPolicy \in ToSet(s)
    PROVE  /\ ToSet(s) = Inherited /\ Len(s) = Cardinality(Inherited)
           /\ \A j, k \in 1..Len(s) : s[j] \in ToSet(Parents(s[k])) => j < k
           /\ \E place : Ranked(place)
<1>1. s \in Seq(PolicyFile) /\ Ordered(ParentsOf, s) /\ ToSet(s) \subseteq Inherited
  BY DEF Listed
<1>2. PICK n \in Nat : n = Len(s)
  BY <1>1, LenProperties
<1>3. ToSet(s) = {s[k] : k \in 1..n} /\ ToSet(s) \subseteq PolicyFile
  BY <1>1, <1>2, MembersOf
<1>4. /\ \A j, k \in 1..n : s[j] = s[k] => j = k
      /\ \A k \in 1..n : \A p \in ToSet(Parents(s[k])) : \E j \in 1..(k - 1) : s[j] = p
  <2>1. \A k \in 1..n : ParentsOf[s[k]] = ToSet(Parents(s[k]))
    BY <1>3 DEF ParentsOf
  <2> QED BY <1>1, <1>2, <2>1 DEF Ordered
<1>5. \A f \in ToSet(s) : ToSet(Parents(f)) \subseteq ToSet(s)
  <2> SUFFICES ASSUME NEW k \in 1..n, NEW p \in ToSet(Parents(s[k])) PROVE p \in ToSet(s)
    BY <1>3
  <2>1. PICK j \in 1..(k - 1) : s[j] = p
    BY <1>4
  <2>2. j \in 1..n
    OBVIOUS
  <2> QED BY <1>3, <2>1, <2>2
<1>6. ToSet(s) = Inherited
  BY <1>1, <1>3, <1>5, InheritedIs
<1>7. ASSUME NEW j \in 1..n, NEW k \in 1..n, s[j] \in ToSet(Parents(s[k])) PROVE j < k
  <2>1. PICK i \in 1..(k - 1) : s[i] = s[j]
    BY <1>4, <1>7
  <2>2. i \in 1..n /\ i < k
    OBVIOUS
  <2> QED BY <1>4, <2>1, <2>2
<1> DEFINE place == [f \in Inherited |-> CHOOSE k \in 1..n : s[k] = f]
<1>8. \A f \in Inherited : place[f] \in 1..n /\ s[place[f]] = f
  BY <1>3, <1>6
<1> HIDE DEF place
<1>9. \A f \in Inherited : \A p \in ToSet(Parents(f)) : p \in Inherited /\ place[p] < place[f]
  BY <1>5, <1>6, <1>7, <1>8
<1>10. \A f \in Inherited : Parents(f) \in Seq(PolicyFile) /\
           \A j \in 1..Len(Parents(f)) : Parents(f)[j] \in ToSet(Parents(f))
  BY <1>3, <1>6, ParentsTyped, MembersOf
<1>11. place \in [Inherited -> Nat]
  <2>1. DOMAIN place = Inherited /\ place = [f \in Inherited |-> place[f]]
    BY DEF place
  <2> QED BY <1>8, <2>1
<1>12. Ranked(place)
  BY <1>3, <1>6, <1>9, <1>10, <1>11 DEF Ranked
<1>13. n = Cardinality(Inherited)
  <2>1. s \in [1..n -> Inherited]
    <3>1. s \in [1..n -> PolicyFile]
      BY <1>1, <1>2, LenProperties
    <3> QED BY <1>3, <1>6, <3>1
  <2>2. IsInjective(s)
    BY <1>4, <2>1 DEF IsInjective
  <2>3. s \in Bijection(1..n, Inherited)
    BY <1>3, <1>4, <1>6, <2>1 DEF Bijection, Injection, Surjection, IsInjective
  <2> QED BY <2>3, FS_CountingElements DEF ExistsBijection
<1> QED BY <1>2, <1>6, <1>7, <1>12, <1>13

\* A set of numbers up to n, if not empty, has a greatest one.
LEMMA GreatestIn ==
    ASSUME NEW n \in Nat, NEW S \in SUBSET (1..n), S # {}
    PROVE  Max(S) \in S
<1> DEFINE M == {n - x : x \in S}
<1>0. \A x \in S : x \in 1..n /\ n - x \in Nat
  OBVIOUS
<1>1. M \subseteq Nat /\ M # {}
  BY <1>0
<1>2. PICK a \in M : \A b \in M : a <= b
  BY <1>1, SmallestOf
<1>3. PICK x \in S : a = n - x
  OBVIOUS
<1>4. \A y \in S : x >= y
  <2> TAKE y \in S
  <2>1. n - x <= n - y
    BY <1>2, <1>3
  <2>2. x \in 1..n /\ y \in 1..n
    BY <1>0
  <2> QED BY <2>1, <2>2
<1> QED BY <1>4 DEF Max

\* The bodies of the definitions of Decider and KeyDecider.
HavingIn(d, v) == {j \in DOMAIN Parents(v[1]) : d[<<Parents(v[1])[j], v[2]>>] # None}
DeciderStep(d, v) ==
    IF v[2] \in DOMAIN folder[v[1]].fields THEN v[1]
    ELSE IF HavingIn(d, v) = {} THEN None ELSE d[<<Parents(v[1])[Max(HavingIn(d, v))], v[2]>>]
DecidingIn(e, v) ==
    {j \in DOMAIN Parents(v[1]) :
        e[<<Parents(v[1])[j], v[2]>>] # None
        \/ (Decider[<<Parents(v[1])[j], v[2][1]>>] # None /\ ~Maps(Parents(v[1])[j], v[2][1]))}
KeyStep(e, v) ==
    IF ~Maps(v[1], v[2][1]) THEN None
    ELSE IF v[2][1] \in DOMAIN folder[v[1]].fields /\ v[2][2] \in DOMAIN folder[v[1]].fields[v[2][1]] THEN v[1]
    ELSE IF DecidingIn(e, v) = {} THEN None ELSE e[<<Parents(v[1])[Max(DecidingIn(e, v))], v[2]>>]

\* A question about a file is below those about the files that extend it.
Descends(place, D) == LexBelow(D, [v \in D |-> place[v[1]]], [v \in D |-> 0])

\* Asking a file's parents the question that was asked of the file comes to an end.
LEMMA QuestionsEnd ==
    ASSUME NEW place, Ranked(place), NEW K, NEW D, D = Inherited \X K
    PROVE  /\ IsWellFoundedOn(Descends(place, D), D)
           /\ \A v \in D : /\ DOMAIN Parents(v[1]) = 1..Len(Parents(v[1])) /\ Len(Parents(v[1])) \in Nat
                           /\ v[1] \in PolicyFile
                           /\ \A j \in DOMAIN Parents(v[1]) :
                                 /\ <<Parents(v[1])[j], v[2]>> \in D
                                 /\ <<<<Parents(v[1])[j], v[2]>>, v>> \in Descends(place, D)
<1> DEFINE m == [v \in D |-> place[v[1]]]
           z == [v \in D |-> 0]
<1>0. \A v \in D : v[1] \in Inherited /\ v[2] \in K
  OBVIOUS
<1>1. m \in [D -> Nat] /\ z \in [D -> Nat]
  BY <1>0 DEF Ranked
<1>2. Descends(place, D) = LexBelow(D, m, z)
  BY DEF Descends
<1> HIDE DEF m, z
<1>3. IsWellFoundedOn(Descends(place, D), D)
  BY <1>1, <1>2, LexIsWellFounded
<1>4. ASSUME NEW v \in D
      PROVE  /\ DOMAIN Parents(v[1]) = 1..Len(Parents(v[1])) /\ Len(Parents(v[1])) \in Nat
             /\ v[1] \in PolicyFile
  <2>1. v[1] \in Inherited /\ Parents(v[1]) \in Seq(PolicyFile) /\ v[1] \in PolicyFile
    BY <1>0 DEF Ranked
  <2> QED BY <2>1, LenProperties
<1>5. ASSUME NEW v \in D, NEW j \in DOMAIN Parents(v[1])
      PROVE  /\ <<Parents(v[1])[j], v[2]>> \in D
             /\ <<<<Parents(v[1])[j], v[2]>>, v>> \in Descends(place, D)
  <2>1. PICK p : p = Parents(v[1])[j]
    OBVIOUS
  <2>2. p \in Inherited /\ place[p] < place[v[1]]
    BY <1>0, <1>4, <2>1 DEF Ranked
  <2>3. PICK w : w = <<p, v[2]>>
    OBVIOUS
  <2>4. w \in D /\ w[1] = p
    BY <1>0, <2>2, <2>3
  <2>5. m[w] < m[v]
    BY <2>2, <2>4 DEF m
  <2>6. <<w, v>> \in LexBelow(D, m, z)
    BY <2>4, <2>5 DEF LexBelow
  <2> QED BY <1>2, <2>1, <2>3, <2>4, <2>6
<1> QED BY <1>3, <1>4, <1>5

\* The file that decides a field is defined by the parents' ones.
LEMMA DeciderIs ==
    ASSUME NEW place, Ranked(place)
    PROVE  \A v \in Inherited \X FieldName : Decider[v] = DeciderStep(Decider, v)
<1> DEFINE D == Inherited \X FieldName
           V == PolicyFile \cup {None}
           F == [D -> V]
           R == Descends(place, D)
           step == [p \in F \X D |-> DeciderStep(p[1], p[2])]
<1> HIDE DEF D, V, F, R, step
<1>1. /\ IsWellFoundedOn(R, D)
      /\ \A v \in D : /\ DOMAIN Parents(v[1]) = 1..Len(Parents(v[1])) /\ Len(Parents(v[1])) \in Nat
                      /\ v[1] \in PolicyFile
                      /\ \A j \in DOMAIN Parents(v[1]) :
                            /\ <<Parents(v[1])[j], v[2]>> \in D
                            /\ <<<<Parents(v[1])[j], v[2]>>, v>> \in R
  BY QuestionsEnd DEF D, R
<1>2. ASSUME NEW g, NEW v \in D, HavingIn(g, v) # {} PROVE Max(HavingIn(g, v)) \in DOMAIN Parents(v[1])
  <2>1. PICK n \in Nat : n = Len(Parents(v[1])) /\ DOMAIN Parents(v[1]) = 1..n
    BY <1>1
  <2>2. HavingIn(g, v) \in SUBSET (1..n)
    BY <2>1 DEF HavingIn
  <2>3. Max(HavingIn(g, v)) \in HavingIn(g, v)
    BY <1>2, <2>2, GreatestIn
  <2> QED BY <2>1, <2>2, <2>3
<1>3. \A g \in F : \A v \in D : DeciderStep(g, v) \in V
  <2> SUFFICES ASSUME NEW g \in F, NEW v \in D PROVE DeciderStep(g, v) \in V
    OBVIOUS
  <2>1. CASE v[2] \in DOMAIN folder[v[1]].fields
    BY <1>1, <2>1 DEF DeciderStep, V
  <2>2. CASE v[2] \notin DOMAIN folder[v[1]].fields /\ HavingIn(g, v) # {}
    <3>1. <<Parents(v[1])[Max(HavingIn(g, v))], v[2]>> \in D
      BY <1>1, <1>2, <2>2
    <3> QED BY <2>2, <3>1 DEF DeciderStep, F
  <2>3. CASE v[2] \notin DOMAIN folder[v[1]].fields /\ HavingIn(g, v) = {}
    BY <2>3 DEF DeciderStep, V
  <2> QED BY <2>1, <2>2, <2>3
<1>4. \A g \in F : \A v \in D : step[<<g, v>>] = DeciderStep(g, v)
  <2> TAKE g \in F
  <2> TAKE v \in D
  <2>1. <<g, v>> \in F \X D /\ <<g, v>>[1] = g /\ <<g, v>>[2] = v
    OBVIOUS
  <2> QED BY <2>1 DEF step
<1>5. step \in [F \X D -> V]
  BY <1>3 DEF step
<1>6. Local(step, R, D, V)
  <2>1. ASSUME NEW g \in F, NEW h \in F, NEW v \in D, \A w \in D : <<w, v>> \in R => g[w] = h[w]
        PROVE  step[<<g, v>>] = step[<<h, v>>]
    <3>1. \A j \in DOMAIN Parents(v[1]) : g[<<Parents(v[1])[j], v[2]>>] = h[<<Parents(v[1])[j], v[2]>>]
      BY <1>1, <2>1
    <3>2. HavingIn(g, v) = HavingIn(h, v)
      BY <3>1 DEF HavingIn
    <3>3. DeciderStep(g, v) = DeciderStep(h, v)
      BY <1>2, <3>1, <3>2 DEF DeciderStep
    <3> QED BY <1>4, <3>3
  <2> QED BY <2>1 DEF Local, F
<1>7. \E g \in F : \A v \in D : g[v] = step[<<g, v>>]
  <2>1. step \in [[D -> V] \X D -> V] /\ V # {}
    BY <1>5 DEF F, V
  <2>2. Recursion(step, R, D, V)
    BY <1>1, <1>6, <2>1 DEF Recursion
  <2>3. \E g \in [D -> V] : \A v \in D : g[v] = step[<<g, v>>]
    BY <2>2, RecursionIsDefined
  <2> QED BY <2>3 DEF F
<1>8. PICK g \in F : \A v \in D : g[v] = DeciderStep(g, v)
  BY <1>4, <1>7
<1>9. g = [v \in D |-> DeciderStep(g, v)]
  BY <1>8 DEF F
<1>10. Decider = CHOOSE d : d = [v \in D |-> DeciderStep(d, v)]
  BY Zenon DEF Decider, DeciderStep, HavingIn, D
<1>11. Decider = [v \in D |-> DeciderStep(Decider, v)]
  BY <1>9, <1>10
<1>12. \A v \in D : Decider[v] = DeciderStep(Decider, v)
  <2> DEFINE d == Decider
  <2>1. d = [v \in D |-> DeciderStep(d, v)]
    BY <1>11
  <2> HIDE DEF d
  <2>2. \A v \in D : d[v] = DeciderStep(d, v)
    BY <2>1
  <2> QED BY <2>2 DEF d
<1> QED BY <1>12 DEF D

\* So is the file that decides a key of a mapping.
LEMMA KeyDeciderIs ==
    ASSUME NEW place, Ranked(place)
    PROVE  \A v \in Inherited \X (MappingFields \X Selector) : KeyDecider[v] = KeyStep(KeyDecider, v)
<1> DEFINE D == Inherited \X (MappingFields \X Selector)
           V == PolicyFile \cup {None}
           F == [D -> V]
           R == Descends(place, D)
           step == [p \in F \X D |-> KeyStep(p[1], p[2])]
<1> HIDE DEF D, V, F, R, step
<1>1. /\ IsWellFoundedOn(R, D)
      /\ \A v \in D : /\ DOMAIN Parents(v[1]) = 1..Len(Parents(v[1])) /\ Len(Parents(v[1])) \in Nat
                      /\ v[1] \in PolicyFile
                      /\ \A j \in DOMAIN Parents(v[1]) :
                            /\ <<Parents(v[1])[j], v[2]>> \in D
                            /\ <<<<Parents(v[1])[j], v[2]>>, v>> \in R
  BY QuestionsEnd DEF D, R
<1>2. ASSUME NEW g, NEW v \in D, DecidingIn(g, v) # {} PROVE Max(DecidingIn(g, v)) \in DOMAIN Parents(v[1])
  <2>1. PICK n \in Nat : n = Len(Parents(v[1])) /\ DOMAIN Parents(v[1]) = 1..n
    BY <1>1
  <2>2. DecidingIn(g, v) \in SUBSET (1..n)
    BY <2>1 DEF DecidingIn
  <2>3. Max(DecidingIn(g, v)) \in DecidingIn(g, v)
    BY <1>2, <2>2, GreatestIn
  <2> QED BY <2>1, <2>2, <2>3
<1> DEFINE Own(v) == v[2][1] \in DOMAIN folder[v[1]].fields /\ v[2][2] \in DOMAIN folder[v[1]].fields[v[2][1]]
<1> HIDE DEF Own
<1>3. \A g, v : KeyStep(g, v) =
          IF ~Maps(v[1], v[2][1]) THEN None ELSE IF Own(v) THEN v[1]
          ELSE IF DecidingIn(g, v) = {} THEN None ELSE g[<<Parents(v[1])[Max(DecidingIn(g, v))], v[2]>>]
  BY DEF KeyStep, Own
<1>4. \A g \in F : \A v \in D : KeyStep(g, v) \in V
  <2> SUFFICES ASSUME NEW g \in F, NEW v \in D PROVE KeyStep(g, v) \in V
    OBVIOUS
  <2>1. CASE DecidingIn(g, v) # {}
    <3>1. <<Parents(v[1])[Max(DecidingIn(g, v))], v[2]>> \in D
      BY <1>1, <1>2, <2>1
    <3>2. g[<<Parents(v[1])[Max(DecidingIn(g, v))], v[2]>>] \in V
      BY <3>1 DEF F
    <3> QED BY <1>1, <1>3, <3>2 DEF V
  <2>2. CASE DecidingIn(g, v) = {}
    BY <1>1, <1>3, <2>2 DEF V
  <2> QED BY <2>1, <2>2
<1>5. \A g \in F : \A v \in D : step[<<g, v>>] = KeyStep(g, v)
  <2> TAKE g \in F
  <2> TAKE v \in D
  <2>1. <<g, v>> \in F \X D /\ <<g, v>>[1] = g /\ <<g, v>>[2] = v
    OBVIOUS
  <2> QED BY <2>1 DEF step
<1>6. step \in [F \X D -> V]
  BY <1>4 DEF step
<1>7. Local(step, R, D, V)
  <2>1. ASSUME NEW g \in F, NEW h \in F, NEW v \in D, \A w \in D : <<w, v>> \in R => g[w] = h[w]
        PROVE  step[<<g, v>>] = step[<<h, v>>]
    <3>1. \A j \in DOMAIN Parents(v[1]) : g[<<Parents(v[1])[j], v[2]>>] = h[<<Parents(v[1])[j], v[2]>>]
      BY <1>1, <2>1
    <3>2. DecidingIn(g, v) = DecidingIn(h, v)
      BY <3>1 DEF DecidingIn
    <3>3. KeyStep(g, v) = KeyStep(h, v)
      <4>1. CASE DecidingIn(g, v) = {}
        BY <1>3, <3>2, <4>1
      <4>2. CASE DecidingIn(g, v) # {}
        <5>1. Max(DecidingIn(g, v)) \in DOMAIN Parents(v[1])
          BY <1>2, <4>2
        <5>2. PICK i \in DOMAIN Parents(v[1]) : i = Max(DecidingIn(g, v)) /\ i = Max(DecidingIn(h, v))
          BY <3>2, <5>1
        <5>3. PICK w : w = <<Parents(v[1])[i], v[2]>>
          OBVIOUS
        <5>4. KeyStep(g, v) = IF ~Maps(v[1], v[2][1]) THEN None ELSE IF Own(v) THEN v[1] ELSE g[w]
          BY <1>3, <4>2, <5>2, <5>3
        <5>5. KeyStep(h, v) = IF ~Maps(v[1], v[2][1]) THEN None ELSE IF Own(v) THEN v[1] ELSE h[w]
          BY <1>3, <3>2, <4>2, <5>2, <5>3
        <5>6. g[w] = h[w]
          BY <3>1, <5>3
        <5> QED BY <5>4, <5>5, <5>6
      <4> QED BY <4>1, <4>2
    <3> QED BY <1>5, <3>3
  <2> QED BY <2>1 DEF Local, F
<1>8. \E g \in F : \A v \in D : g[v] = step[<<g, v>>]
  <2>1. step \in [[D -> V] \X D -> V] /\ V # {}
    BY <1>6 DEF F, V
  <2>2. Recursion(step, R, D, V)
    BY <1>1, <1>7, <2>1 DEF Recursion
  <2>3. \E g \in [D -> V] : \A v \in D : g[v] = step[<<g, v>>]
    BY <2>2, RecursionIsDefined
  <2> QED BY <2>3 DEF F
<1>9. PICK g \in F : \A v \in D : g[v] = KeyStep(g, v)
  BY <1>5, <1>8
<1>10. g = [v \in D |-> KeyStep(g, v)]
  BY <1>9 DEF F
<1>11. KeyDecider = CHOOSE e : e = [v \in D |-> KeyStep(e, v)]
  BY Zenon DEF KeyDecider, KeyStep, DecidingIn, D
<1>12. KeyDecider = [v \in D |-> KeyStep(KeyDecider, v)]
  BY <1>10, <1>11
<1>13. \A v \in D : KeyDecider[v] = KeyStep(KeyDecider, v)
  <2> DEFINE e == KeyDecider
  <2>1. e = [v \in D |-> KeyStep(e, v)]
    BY <1>12
  <2> HIDE DEF e
  <2>2. \A v \in D : e[v] = KeyStep(e, v)
    BY <2>1
  <2> QED BY <2>2 DEF e
<1> QED BY <1>13 DEF D

\* The definitions of Decider and KeyDecider, in terms of the tables.
LEMMA DecidesIs ==
    ASSUME FolderOK, NEW place, Ranked(place), NEW f \in Inherited
    PROVE  Decides(f)
<1>1. PICK n \in Nat : n = Len(Parents(f)) /\ DOMAIN Parents(f) = 1..n
  <2>1. Parents(f) \in Seq(PolicyFile)
    BY DEF Ranked
  <2> QED BY <2>1, LenProperties
<1>2. MappingFields \subseteq FieldName
  BY DEF FieldName
<1>3. \A g : \A k \in FieldName : FieldsOf(g)[k] = Decider[<<g, k>>]
  BY DEF FieldsOf
<1>4. \A g : \A x \in MappingFields \X Selector : KeysOf(g)[x] = KeyDecider[<<g, x>>]
  BY DEF KeysOf
<1>5. \A g : \A k \in FieldName : MapsIn(FieldsOf(g), k) <=> Maps(g, k)
  BY <1>3 DEF MapsIn, Maps, ValueOf
<1>6. ASSUME NEW k \in FieldName
      PROVE  FieldsOf(f)[k] = IF k \in DOMAIN folder[f].fields THEN f ELSE PartFields(f, n)[k]
  <2> DEFINE v == <<f, k>>
  <2>1. v \in Inherited \X FieldName /\ v[1] = f /\ v[2] = k
    OBVIOUS
  <2> HIDE DEF v
  <2>2. Decider[v] = DeciderStep(Decider, v)
    BY <2>1, DeciderIs
  <2>3. HavingIn(Decider, v) = Having(f, n, k)
    BY <1>1, <1>3, <2>1 DEF HavingIn, Having
  <2>4. PartFields(f, n)[k] = IF Having(f, n, k) = {} THEN None ELSE FieldsOf(Parents(f)[Max(Having(f, n, k))])[k]
    BY DEF PartFields
  <2>5. FieldsOf(f)[k] = Decider[v]
    BY <1>3 DEF v
  <2> QED BY <1>3, <2>1, <2>2, <2>3, <2>4, <2>5 DEF DeciderStep
<1>7. ASSUME NEW k \in MappingFields, NEW s \in Selector
      PROVE  KeysOf(f)[<<k, s>>] =
                 IF ~MapsIn(FieldsOf(f), k) THEN None
                 ELSE IF k \in DOMAIN folder[f].fields /\ s \in DOMAIN folder[f].fields[k] THEN f
                 ELSE PartKeys(f, n)[<<k, s>>]
  <2> DEFINE x == <<k, s>>
             v == <<f, x>>
  <2>1. x \in MappingFields \X Selector /\ x[1] = k /\ x[2] = s
    OBVIOUS
  <2> HIDE DEF x
  <2>2. v \in Inherited \X (MappingFields \X Selector) /\ v[1] = f /\ v[2] = x
    BY <2>1
  <2> HIDE DEF v
  <2>3. KeyDecider[v] = KeyStep(KeyDecider, v)
    BY <2>2, KeyDeciderIs
  <2>4. ASSUME NEW j \in 1..n
        PROVE  (KeyDecider[<<Parents(f)[j], x>>] # None
                   \/ (Decider[<<Parents(f)[j], k>>] # None /\ ~Maps(Parents(f)[j], k)))
               <=> (KeysOf(Parents(f)[j])[x] # None \/ HidesIn(FieldsOf(Parents(f)[j]), k))
    BY <1>2, <1>3, <1>4, <1>5, <2>1 DEF HidesIn
  <2>5. DecidingIn(KeyDecider, v) = Deciding(f, n, x)
    BY <1>1, <2>1, <2>2, <2>4 DEF DecidingIn, Deciding
  <2>6. PartKeys(f, n)[x] = IF Deciding(f, n, x) = {} THEN None ELSE KeysOf(Parents(f)[Max(Deciding(f, n, x))])[x]
    BY <2>1 DEF PartKeys
  <2>7. KeysOf(f)[x] = KeyDecider[v]
    BY <1>4, <2>1 DEF v
  <2>8. KeyDecider[v] = IF ~Maps(f, k) THEN None
                        ELSE IF k \in DOMAIN folder[f].fields /\ s \in DOMAIN folder[f].fields[k] THEN f
                        ELSE IF Deciding(f, n, x) = {} THEN None
                        ELSE KeyDecider[<<Parents(f)[Max(Deciding(f, n, x))], x>>]
    BY <2>1, <2>2, <2>3, <2>5 DEF KeyStep
  <2>9. KeysOf(f)[x] = IF ~MapsIn(FieldsOf(f), k) THEN None
                       ELSE IF k \in DOMAIN folder[f].fields /\ s \in DOMAIN folder[f].fields[k] THEN f
                       ELSE PartKeys(f, n)[x]
    BY <1>2, <1>4, <1>5, <2>1, <2>6, <2>7, <2>8
  <2> QED BY <2>9 DEF x
<1> QED BY <1>1, <1>6, <1>7 DEF Decides

\* What has been listed is solved.
LEMMA ListIsSolved ==
    ASSUME FolderOK, NEW s, Listed(s), RootPolicy \in ToSet(s)
    PROVE  Solved
<1>1. PICK place : Ranked(place)
  BY ListIsAll
<1>2. \A f \in Inherited : folder[f] # Absent /\ Decides(f)
  <2>1. \A f \in Inherited : Extending(f)
    BY ListIsAll DEF Listed
  <2> QED BY <1>1, <2>1, DecidesIs DEF Extending
<1> DEFINE z == [f \in Inherited |-> 0]
           R == LexBelow(Inherited, place, z)
           P == {f \in Inherited : Tables(FieldsOf(f), KeysOf(f))}
<1>3. place \in [Inherited -> Nat] /\ z \in [Inherited -> Nat]
  BY <1>1 DEF Ranked
<1> HIDE DEF z
<1>4. IsWellFoundedOn(R, Inherited)
  BY <1>3, LexIsWellFounded
<1>5. ASSUME NEW f \in Inherited, \A g \in Inherited : <<g, f>> \in R => g \in P PROVE f \in P
  <2>1. PICK n \in Nat : n = Len(Parents(f))
    <3>1. Parents(f) \in Seq(PolicyFile)
      BY <1>1 DEF Ranked
    <3> QED BY <3>1, LenProperties
  <2>2. ASSUME NEW j \in 1..n PROVE Tables(FieldsOf(Parents(f)[j]), KeysOf(Parents(f)[j]))
    <3>1. PICK g \in Inherited : g = Parents(f)[j] /\ place[g] < place[f]
      BY <1>1, <2>1 DEF Ranked
    <3>2. <<g, f>> \in R
      BY <3>1 DEF LexBelow
    <3> QED BY <1>5, <3>1, <3>2
  <2>3. Tables(PartFields(f, n), PartKeys(f, n))
    BY <2>2, PartTables
  <2>4. PICK m : Reads(m, PartFields(f, n), PartKeys(f, n))
    BY SomethingReads
  <2>5. Tables(FieldsOf(f), KeysOf(f))
    BY <1>2, <2>1, <2>3, <2>4, FileReads
  <2> QED BY <2>5
<1>6. Inherited \subseteq P
  <2> HIDE DEF P, R
  <2> QED BY <1>4, <1>5, Descent
<1> QED BY <1>2, <1>6 DEF Solved

\* load_policy always is on its way through the files.
LEMMA LoaderAlways == Spec => []LoaderInv
<1>1. Init => LoaderInv
  <2> SUFFICES ASSUME Init PROVE LoaderInv
    OBVIOUS
  <2>1. input \in Scans /\ folder = input.folder /\ loading = "start" /\ target = RootPolicy /\ frames = <<>>
    BY DEF Init, LoadInit
  <2>2. FolderOK
    BY <2>1, PipelineAssumption DEF FolderOK, ScanType
  <2> QED BY <2>1, <2>2 DEF LoaderInv, Loaded
<1>2. LoaderInv /\ BudgetInv /\ [Next]_vars => LoaderInv'
  BY LoaderInductive
<1> QED BY <1>1, <1>2, BudgetAlways, SpecIsSafe, PTL

\* At the end the merged mapping is what the tables of the root describe.
LEMMA EffectiveIs ==
    ASSUME FolderOK, NEW srcs, NEW m, Gathered(srcs, m)
    PROVE  Solved /\ Reads(m, FieldsOf(RootPolicy), KeysOf(RootPolicy)) /\ m = Effective(RootPolicy)
<1>1. Solved /\ Reads(m, FieldsOf(RootPolicy), KeysOf(RootPolicy)) /\ m = [k \in DOMAIN m |-> m[k]]
  BY ListIsSolved DEF Gathered
<1>2. PICK f : f = RootPolicy
  OBVIOUS
<1>3. \A k \in FieldName : FieldsOf(f)[k] = Decider[<<f, k>>]
  BY DEF FieldsOf
<1>4. \A k \in FieldName : MapsIn(FieldsOf(f), k) <=> Maps(f, k)
  BY <1>3 DEF MapsIn, Maps, ValueOf
<1>5. DOMAIN m = {k \in FieldName : Decider[<<f, k>>] # None}
  BY <1>1, <1>2, <1>3 DEF Reads
<1>6. ASSUME NEW k \in DOMAIN m
      PROVE  m[k] = IF Maps(f, k)
                    THEN [s \in {t \in Selector : KeyDecider[<<f, <<k, t>>>>] # None} |->
                             folder[KeyDecider[<<f, <<k, s>>>>]].fields[k][s]]
                    ELSE ValueOf(f, k)
  <2>1. k \in FieldName /\ m[k] = IF Maps(f, k) THEN MappingBy(KeysOf(f), k) ELSE ValueOf(f, k)
    BY <1>1, <1>2, <1>3, <1>4, <1>5 DEF Reads, ValueOf
  <2>2. ASSUME Maps(f, k)
        PROVE  MappingBy(KeysOf(f), k) = [s \in {t \in Selector : KeyDecider[<<f, <<k, t>>>>] # None} |->
                                             folder[KeyDecider[<<f, <<k, s>>>>]].fields[k][s]]
    <3>1. \A t \in Selector : KeysOf(f)[<<k, t>>] = KeyDecider[<<f, <<k, t>>>>]
      BY <2>2 DEF KeysOf, Maps
    <3> QED BY <3>1 DEF MappingBy
  <2> QED BY <2>1, <2>2
<1>7. m = Effective(f)
  BY <1>1, <1>5, <1>6 DEF Effective
<1> QED BY <1>1, <1>2, <1>7

\* Whatever the shape of the files, the policy loaded is the one that inheritance promises, and
\* its sources are the files it comes from, each once and after those it extends.
THEOREM LoadsTheInheritanceAlways == Spec => []LoadsTheInheritance
<1>1. LoaderInv => LoadsTheInheritance
  <2> SUFFICES ASSUME LoaderInv, Loaded
               PROVE  /\ policy = PolicyOf(Effective(RootPolicy))
                      /\ ToSet(sources) = Inherited /\ Len(sources) = Cardinality(Inherited)
                      /\ \A j, k \in DOMAIN sources : sources[j] \in ToSet(Parents(sources[k])) => j < k
    BY DEF LoadsTheInheritance
  <2>1. FolderOK /\ Gathered(sources, raw) /\ policy = PolicyOf(raw)
    BY DEF LoaderInv
  <2>2. raw = Effective(RootPolicy)
    BY <2>1, EffectiveIs
  <2>3. sources \in Seq(PolicyFile) /\ Listed(sources) /\ RootPolicy \in ToSet(sources)
    BY <2>1 DEF Gathered, Listed
  <2>4. DOMAIN sources = 1..Len(sources)
    BY <2>3, LenProperties
  <2> QED BY <2>1, <2>2, <2>3, <2>4, ListIsAll
<1> QED BY <1>1, LoaderAlways, PTL

\* If no inherited file hides a mapping, a key that one of them gives is decided at the root.
LEMMA KeysAreKept ==
    ASSUME FolderOK, Solved, NEW place, Ranked(place), NEW k \in MappingFields, NEW t \in Selector,
           \A g \in Inherited : k \in DOMAIN folder[g].fields => IsMapping(folder[g].fields[k]),
           NEW f \in Inherited, k \in DOMAIN folder[f].fields, t \in DOMAIN folder[f].fields[k]
    PROVE  KeysOf(RootPolicy)[<<k, t>>] # None
<1> SUFFICES ASSUME KeysOf(RootPolicy)[<<k, t>>] = None PROVE FALSE
  OBVIOUS
<1> DEFINE U == {h \in Inherited : KeysOf(h)[<<k, t>>] = None}
<1>1. k \in FieldName /\ RootPolicy \in U /\ U \in SUBSET PolicyFile
  BY InheritedIs DEF FieldName
<1>2. \A h \in Inherited : /\ Decides(h) /\ Tables(FieldsOf(h), KeysOf(h)) /\ ~HidesIn(FieldsOf(h), k)
  <2> TAKE h \in Inherited
  <2>1. Decides(h) /\ Tables(FieldsOf(h), KeysOf(h))
    BY DEF Solved
  <2>2. FieldsOf(h)[k] # None => Sets(FieldsOf(h)[k], k)
    BY <1>1, <2>1 DEF Tables
  <2> QED BY <2>1, <2>2 DEF HidesIn, MapsIn, Sets
<1>3. ASSUME NEW h \in U, NEW p \in ToSet(Parents(h)) PROVE p \in U
  <2>1. PICK n \in Nat : n = Len(Parents(h)) /\ ToSet(Parents(h)) = {Parents(h)[j] : j \in 1..n}
    <3>1. Parents(h) \in Seq(PolicyFile)
      BY DEF Ranked
    <3> QED BY <3>1, LenProperties, MembersOf
  <2>2. PICK i \in 1..n : p = Parents(h)[i]
    BY <2>1
  <2>3. p \in Inherited
    BY <2>1, <2>2 DEF Ranked
  <2>4. CASE MapsIn(FieldsOf(h), k)
    <3>1. h # None
      BY MappingAssumption, InheritedIs
    <3>2. PartKeys(h, n)[<<k, t>>] = None
      BY <1>2, <2>1, <2>4, <3>1 DEF Decides
    <3> DEFINE x == <<k, t>>
    <3>3. x \in MappingFields \X Selector /\ x[1] = k
      OBVIOUS
    <3> HIDE DEF x
    <3>4. Deciding(h, n, x) = {j \in 1..n : KeysOf(Parents(h)[j])[x] # None}
      <4>1. \A j \in 1..n : ~HidesIn(FieldsOf(Parents(h)[j]), k)
        BY <1>2, <2>1 DEF Ranked
      <4> QED BY <3>3, <4>1 DEF Deciding
    <3>5. PartKeys(h, n)[x] = IF Deciding(h, n, x) = {} THEN None ELSE KeysOf(Parents(h)[Max(Deciding(h, n, x))])[x]
      BY <3>3 DEF PartKeys
    <3>6. Deciding(h, n, x) = {}
      <4>1. Deciding(h, n, x) \in SUBSET (1..n)
        BY <3>4
      <4>2. Deciding(h, n, x) # {} => Max(Deciding(h, n, x)) \in Deciding(h, n, x)
        BY <4>1, GreatestIn
      <4> QED BY <3>2, <3>4, <3>5, <4>2 DEF x
    <3> QED BY <2>2, <2>3, <3>4, <3>6 DEF x
  <2>5. CASE ~MapsIn(FieldsOf(h), k)
    <3>1. FieldsOf(h)[k] = None
      BY <1>2, <2>5 DEF HidesIn
    <3>2. h # None
      BY MappingAssumption, InheritedIs
    <3>3. PartFields(h, n)[k] = None
      BY <1>1, <1>2, <2>1, <3>1, <3>2 DEF Decides
    <3>4. PartFields(h, n)[k] = IF Having(h, n, k) = {} THEN None ELSE FieldsOf(Parents(h)[Max(Having(h, n, k))])[k]
      BY <1>1 DEF PartFields
    <3>5. Having(h, n, k) = {}
      <4>1. Having(h, n, k) \in SUBSET (1..n)
        BY DEF Having
      <4>2. Having(h, n, k) # {} => Max(Having(h, n, k)) \in Having(h, n, k)
        BY <4>1, GreatestIn
      <4> QED BY <3>3, <3>4, <4>2 DEF Having
    <3>6. FieldsOf(p)[k] = None
      BY <2>2, <3>5 DEF Having
    <3> QED BY <1>2, <2>3, <3>6 DEF Tables, MapsIn
  <2> QED BY <2>4, <2>5
<1>4. Inherited \subseteq U
  <2> HIDE DEF U
  <2> QED BY <1>1, <1>3, InheritedIs
<1>5. f # None /\ k \in DOMAIN folder[f].fields /\ Decides(f) /\ MapsIn(FieldsOf(f), k)
  <2>1. f # None
    BY MappingAssumption, InheritedIs
  <2>2. FieldsOf(f)[k] = f
    BY <1>1, <1>2 DEF Decides
  <2> QED BY <1>2, <2>1, <2>2 DEF MapsIn
<1>6. KeysOf(f)[<<k, t>>] = f
  BY <1>5 DEF Decides
<1> QED BY <1>4, <1>5, <1>6

\* However tools are spelled, an allowlist that a file gives for one is in force in the policy
\* loaded, or another one for exactly that name is, unless a file clears them all.
THEOREM SpellingFailsClosedAlways == Spec => []SpellingFailsClosed
<1>1. LoaderInv => SpellingFailsClosed
  <2> DEFINE k == "allow_by_tool"
  <2> SUFFICES ASSUME LoaderInv, Loaded, NEW f \in Inherited,
                      IsMapping(Get(folder[f].fields, k, Null)),
                      ~ \E g \in Inherited : ~IsMapping(Get(folder[g].fields, k, <<>>)),
                      NEW t \in DOMAIN Get(folder[f].fields, k, Null)
               PROVE  \E g \in Inherited :
                         /\ t \in DOMAIN Get(folder[g].fields, k, <<>>)
                         /\ IdentityOf[t] \in DOMAIN policy.allow
                         /\ policy.allow[IdentityOf[t]] = CapSet(folder[g].fields[k][t])
    BY DEF SpellingFailsClosed
  <2>0. k \in MappingFields /\ k \in FieldName
    BY DEF MappingFields, FieldName
  <2>00. k = "allow_by_tool"
    OBVIOUS
  <2> HIDE DEF k
  <2>1. FolderOK /\ Gathered(sources, raw) /\ Valid(raw) /\ policy = PolicyOf(raw)
    BY DEF LoaderInv
  <2>2. Solved /\ Reads(raw, FieldsOf(RootPolicy), KeysOf(RootPolicy))
    BY <2>1, EffectiveIs
  <2>3. PICK place : Ranked(place)
    BY <2>1, ListIsAll DEF Gathered
  <2>4. k \in DOMAIN folder[f].fields /\ t \in DOMAIN folder[f].fields[k] /\ IsMapping(folder[f].fields[k])
    BY DEF Get, IsMapping
  <2>5. \A g \in Inherited : k \in DOMAIN folder[g].fields => IsMapping(folder[g].fields[k])
    BY DEF Get
  <2>6. t \in Selector
    <3>1. Sets(f, k)
      BY <2>2, <2>4 DEF Sets, Solved
    <3> QED BY <2>0, <2>1, <2>4, <3>1, SetsTyped, MappingIs
  <2>7. KeysOf(RootPolicy)[<<k, t>>] # None
    BY <2>0, <2>1, <2>2, <2>3, <2>4, <2>5, <2>6, KeysAreKept
  <2>8. PICK g : g = KeysOf(RootPolicy)[<<k, t>>]
    OBVIOUS
  <2>9. RootPolicy \in Inherited /\ Tables(FieldsOf(RootPolicy), KeysOf(RootPolicy))
    BY <2>1, <2>2, InheritedIs DEF Solved
  <2>10. SetsKey(g, k, t) /\ MapsIn(FieldsOf(RootPolicy), k)
    BY <2>0, <2>6, <2>7, <2>8, <2>9 DEF Tables
  <2>11. g \in Inherited /\ k \in DOMAIN folder[g].fields /\ t \in DOMAIN folder[g].fields[k]
    BY <2>10 DEF SetsKey, Sets
  <2>12. PICK v : v = raw[k]
    OBVIOUS
  <2>13. k \in DOMAIN raw /\ v = MappingBy(KeysOf(RootPolicy), k)
    BY <2>0, <2>2, <2>10, <2>12 DEF Reads, MapsIn
  <2>14. IsMapping(v) /\ t \in DOMAIN v /\ v[t] = folder[g].fields[k][t]
    <3>1. IsMapping(MappingBy(KeysOf(RootPolicy), k))
      BY <2>0, <2>1, <2>9, JoinIsMapping
    <3> QED BY <2>6, <2>7, <2>8, <2>13, <3>1 DEF MappingBy
  <2>15. Get(raw, k, Null) = v
    BY <2>12, <2>13 DEF Get
  <2>16. \A s \in DOMAIN v : IdentityOf[s] = IdentityOf[t] => s = t
    <3>1. v = Null \/ Distinct(DOMAIN v, IdentityOf)
      BY <2>00, <2>1, <2>15 DEF Valid, ValidWith
    <3> QED BY <2>14, <3>1 DEF Distinct, IsMapping
  <2>17. policy.allow = [i \in {IdentityOf[s] : s \in DOMAIN v} |-> CapSet(v[CHOOSE s \in DOMAIN v : IdentityOf[s] = i])]
    <3>1. policy.allow = Folded(v, IdentityOf, CapSet)
      BY <2>00, <2>1, <2>15 DEF PolicyOf
    <3> QED BY <2>14, <3>1 DEF Folded, IsMapping
  <2>18. IdentityOf[t] \in DOMAIN policy.allow /\ policy.allow[IdentityOf[t]] = CapSet(v[t])
    <3>1. (CHOOSE s \in DOMAIN v : IdentityOf[s] = IdentityOf[t]) = t
      BY <2>14, <2>16
    <3> QED BY <2>14, <2>17, <3>1
  <2> QED BY <2>11, <2>14, <2>18 DEF Get
<1> QED BY <1>1, LoaderAlways, PTL

----------------------------------------------------------------------------
(* Types *)

\* What a field of a policy file is, if it is neither null nor malformed.
LEMMA SettingIs ==
    ASSUME NEW fields, AreFields(fields), NEW k \in FieldName, NEW v, v = Get(fields, k, Null)
    PROVE  v \in {Null, Bad} \/ IsSetting(k, v)
BY DEF AreFields, Get

\* Capability names that all fold to capabilities fold to a set of them.
LEMMA CapSetTyped ==
    ASSUME NEW v, v \in {Null, Bad} \/ v \in CapList, GoodCaps(v) PROVE CapSet(v) \in SUBSET CapId
<1>1. CASE v = Null
  BY <1>1 DEF CapSet
<1>2. CASE v # Null
  <2>1. v \in CapList /\ \A c \in v : CapOf[c] # None
    BY <1>2 DEF GoodCaps
  <2>2. \A c \in v : CapOf[c] \in CapId
    BY <2>1, PolicyLoadAssumption DEF CapList
  <2> QED BY <1>2, <2>2 DEF CapSet
<1> QED BY <1>1, <1>2

\* A list of capabilities in a valid policy.
LEMMA CapsTyped ==
    ASSUME NEW fields, AreFields(fields), NEW k \in {"deny", "require_review"}, GoodCaps(Get(fields, k, {}))
    PROVE  CapSet(Get(fields, k, {})) \in SUBSET CapId
<1>1. k \in FieldName
  BY DEF FieldName
<1>2. CASE k \in DOMAIN fields
  <2>1. fields[k] \in {Null, Bad} \/ IsSetting(k, fields[k])
    BY <1>1, <1>2 DEF AreFields
  <2>2. fields[k] \in {Null, Bad} \/ fields[k] \in CapList
    BY <2>1 DEF IsSetting
  <2> QED BY <1>2, <2>2, CapSetTyped DEF Get
<1>3. CASE k \notin DOMAIN fields
  <2>1. Get(fields, k, {}) = {} /\ {} \in CapList
    BY <1>3 DEF Get, CapList
  <2> QED BY <2>1, CapSetTyped
<1> QED BY <1>2, <1>3

\* The mapping of a field that a valid policy has.
LEMMA MappingTyped ==
    ASSUME NEW fields, AreFields(fields), NEW k \in MappingFields, NEW v, v = Get(fields, k, Null)
    PROVE  v = Null \/ v = Bad \/ (DOMAIN v \subseteq NamesOf(k) /\ \A s \in DOMAIN v : v[s] \in MappedTo(k) \cup {Null, Bad})
<1>1. k \in FieldName
  BY DEF FieldName
<1>2. v \in {Null, Bad} \/ IsMappingTo(MappedTo(k), NamesOf(k), v)
  BY <1>1, SettingIs, MappingIs
<1>3. ASSUME IsMappingTo(MappedTo(k), NamesOf(k), v)
      PROVE  DOMAIN v \subseteq NamesOf(k) /\ \A s \in DOMAIN v : v[s] \in MappedTo(k) \cup {Null, Bad}
  <2>1. PICK D \in SUBSET NamesOf(k) : v \in [D -> MappedTo(k) \cup {Null, Bad}]
    BY <1>3 DEF IsMappingTo
  <2> QED BY <2>1
<1> QED BY <1>2, <1>3

\* What a valid merged mapping holds, field by field.
LEMMA ValidHas ==
    ASSUME NEW fields, Valid(fields)
    PROVE  /\ Get(fields, "unknown_scope", "review") \in {"deny", "review", "ignore"}
           /\ GoodCaps(Get(fields, "deny", {})) /\ GoodCaps(Get(fields, "require_review", {}))
           /\ Get(fields, "max_risk_score", 60) \in 0..100
           /\ \A v : v = Get(fields, "allow_by_tool", Null) =>
                 v = Null \/ (v # Bad /\ \A s \in DOMAIN v : IdentityOf[s] # None /\ GoodCaps(v[s]))
           /\ \A v : v = Get(fields, "scope_constraints", Null) =>
                 v = Null \/ (v # Bad /\ \A s \in DOMAIN v : CapOf[s] # None /\ v[s] \notin {Null, Bad})
           /\ \A v : v = Get(fields, "trust_boundaries", Null) =>
                 v = Null \/ (v # Bad /\ \A s \in DOMAIN v : IdentityOf[s] # None)
           /\ GoodSuppressions(Get(fields, "suppressions", Null))
<1>1. /\ Get(fields, "unknown_scope", "review") \in {"deny", "review", "ignore"}
      /\ GoodCaps(Get(fields, "deny", {})) /\ GoodCaps(Get(fields, "require_review", {}))
      /\ Get(fields, "max_risk_score", 60) \in 0..100
      /\ GoodSuppressions(Get(fields, "suppressions", Null))
  BY Zenon DEF Valid, ValidWith
<1>2. LET v == Get(fields, "allow_by_tool", Null)
      IN  v = Null \/ (v # Bad /\ Distinct(DOMAIN v, IdentityOf) /\ \A s \in DOMAIN v : GoodCaps(v[s]))
  BY Zenon DEF Valid, ValidWith
<1>3. LET v == Get(fields, "scope_constraints", Null)
      IN  v = Null \/ (v # Bad /\ Distinct(DOMAIN v, CapOf) /\ \A s \in DOMAIN v : v[s] \notin {Null, Bad})
  BY Zenon DEF Valid, ValidWith
<1>4. LET v == Get(fields, "trust_boundaries", Null)
      IN  v = Null \/ (v # Bad /\ Distinct(DOMAIN v, IdentityOf) /\ \A s \in DOMAIN v : v[s] \notin {Null, Bad})
  BY Zenon DEF Valid, ValidWith
<1>5. \A S, fold : Distinct(S, fold) => \A s \in S : fold[s] # None
  BY DEF Distinct
<1> QED BY <1>1, <1>2, <1>3, <1>4, <1>5

\* An allowlist of a valid policy.
LEMMA AllowTyped ==
    ASSUME NEW fields, AreFields(fields), Valid(fields)
    PROVE  PolicyOf(fields).allow \in UNION {[D -> SUBSET CapId] : D \in SUBSET Identity}
<1> DEFINE k == "allow_by_tool"
<1>1. PICK v : v = Get(fields, k, Null)
  OBVIOUS
<1>2. k \in MappingFields /\ NamesOf(k) = Tool /\ MappedTo(k) = CapList
  BY DEF MappingFields, NamesOf, MappedTo
<1>3. PICK a : a = PolicyOf(fields).allow
  OBVIOUS
<1>4. a = Folded(v, IdentityOf, CapSet)
  BY <1>1, <1>3 DEF PolicyOf
<1>5. CASE v = Null
  <2>1. a = <<>>
    BY <1>4, <1>5 DEF Folded
  <2>2. a \in [{} -> SUBSET CapId] /\ {} \in SUBSET Identity
    BY <2>1
  <2> QED BY <1>3, <2>2
<1>6. CASE v # Null
  <2> DEFINE D == {IdentityOf[s] : s \in DOMAIN v}
             at(i) == CHOOSE s \in DOMAIN v : IdentityOf[s] = i
  <2>1. /\ v # Bad /\ DOMAIN v \subseteq Tool
        /\ \A s \in DOMAIN v : IdentityOf[s] # None /\ GoodCaps(v[s]) /\ v[s] \in CapList \cup {Null, Bad}
    BY <1>1, <1>2, <1>6, ValidHas, MappingTyped
  <2>2. a = [i \in D |-> CapSet(v[at(i)])]
    BY <1>4, <1>6 DEF Folded
  <2>3. ASSUME NEW i \in D PROVE CapSet(v[at(i)]) \in SUBSET CapId
    <3>1. at(i) \in DOMAIN v
      OBVIOUS
    <3> HIDE DEF at
    <3> QED BY <2>1, <3>1, CapSetTyped
  <2>4. D \in SUBSET Identity
    BY <2>1, IdentityAssumption
  <2> HIDE DEF D, at
  <2>5. a \in [D -> SUBSET CapId]
    BY <2>2, <2>3
  <2> QED BY <1>3, <2>4, <2>5
<1> QED BY <1>5, <1>6

\* The scope constraints of a valid policy.
LEMMA ConstraintsTyped ==
    ASSUME NEW fields, AreFields(fields), Valid(fields)
    PROVE  PolicyOf(fields).constraints \in UNION {[D -> Constraint] : D \in SUBSET CapId}
<1> DEFINE k == "scope_constraints"
<1>1. PICK v : v = Get(fields, k, Null)
  OBVIOUS
<1>2. k \in MappingFields /\ NamesOf(k) = CapSpelling /\ MappedTo(k) = Constraint
  BY DEF MappingFields, NamesOf, MappedTo
<1>3. PICK a : a = PolicyOf(fields).constraints
  OBVIOUS
<1>4. a = Folded(v, CapOf, LAMBDA x : x)
  BY <1>1, <1>3 DEF PolicyOf
<1>5. CASE v = Null
  <2>1. a = <<>>
    BY <1>4, <1>5 DEF Folded
  <2>2. a \in [{} -> Constraint] /\ {} \in SUBSET CapId
    BY <2>1
  <2> QED BY <1>3, <2>2
<1>6. CASE v # Null
  <2> DEFINE D == {CapOf[s] : s \in DOMAIN v}
             at(i) == CHOOSE s \in DOMAIN v : CapOf[s] = i
  <2>1. /\ v # Bad /\ DOMAIN v \subseteq CapSpelling
        /\ \A s \in DOMAIN v : CapOf[s] # None /\ v[s] \notin {Null, Bad} /\ v[s] \in Constraint \cup {Null, Bad}
    BY <1>1, <1>2, <1>6, ValidHas, MappingTyped
  <2>2. a = [i \in D |-> v[at(i)]]
    BY <1>4, <1>6 DEF Folded
  <2>3. ASSUME NEW i \in D PROVE v[at(i)] \in Constraint
    <3>1. at(i) \in DOMAIN v
      OBVIOUS
    <3> HIDE DEF at
    <3> QED BY <2>1, <3>1
  <2>4. D \in SUBSET CapId
    BY <2>1, PolicyLoadAssumption
  <2> HIDE DEF D, at
  <2>5. a \in [D -> Constraint]
    BY <2>2, <2>3
  <2> QED BY <1>3, <2>4, <2>5
<1> QED BY <1>5, <1>6

\* The trust boundaries of a valid policy.
LEMMA TrustTyped ==
    ASSUME NEW fields, AreFields(fields), Valid(fields) PROVE PolicyOf(fields).trust \in SUBSET Identity
<1> DEFINE k == "trust_boundaries"
<1>1. PICK v : v = Get(fields, k, Null)
  OBVIOUS
<1>2. k \in MappingFields /\ NamesOf(k) = Tool
  BY DEF MappingFields, NamesOf
<1>3. PICK w : w = Folded(v, IdentityOf, LAMBDA x : x)
  OBVIOUS
<1>4. PolicyOf(fields).trust = DOMAIN w
  BY <1>1, <1>3 DEF PolicyOf
<1>5. CASE v = Null
  <2>1. w = <<>>
    BY <1>3, <1>5 DEF Folded
  <2>2. DOMAIN w = {}
    BY <2>1
  <2> QED BY <1>4, <2>2
<1>6. CASE v # Null
  <2>1. DOMAIN v \subseteq Tool /\ \A s \in DOMAIN v : IdentityOf[s] # None
    BY <1>1, <1>2, <1>6, ValidHas, MappingTyped
  <2>2. DOMAIN w = {IdentityOf[s] : s \in DOMAIN v}
    BY <1>3, <1>6 DEF Folded
  <2>3. \A s \in DOMAIN v : IdentityOf[s] \in Identity
    BY <2>1, IdentityAssumption
  <2>4. DOMAIN w \subseteq Identity
    BY <2>2, <2>3
  <2> QED BY <1>4, <2>4
<1> QED BY <1>5, <1>6

\* The suppressions of a valid policy.
LEMMA SuppressionsTyped ==
    ASSUME NEW fields, AreFields(fields), Valid(fields) PROVE PolicyOf(fields).suppressions \in SUBSET Suppression
<1> DEFINE k == "suppressions"
<1>1. PICK v : v = Get(fields, k, Null)
  OBVIOUS
<1>2. PolicyOf(fields).suppressions = IF v = Null THEN {} ELSE {Canonical(v[j]) : j \in DOMAIN v}
  BY <1>1 DEF PolicyOf
<1>3. ASSUME v # Null, NEW j \in DOMAIN v PROVE Canonical(v[j]) \in Suppression
  <2>1. v \in {Null, Bad} \/ IsSetting(k, v)
    BY <1>1, SettingIs DEF FieldName
  <2>2. v \in {Null, Bad} \/ v \in Seq(RawSuppression \cup {Bad})
    BY <2>1 DEF IsSetting, MappingFields
  <2>3. GoodSuppressions(v)
    BY <1>1, ValidHas
  <2>4. v # Bad /\ \A i \in DOMAIN v : /\ v[i] # Bad /\ v[i].expires >= Today
                                       /\ v[i].cap # None => CapOf[v[i].cap] # None
                                       /\ v[i].tool # None => IdentityOf[v[i].tool] # None
    BY <1>3, <2>3 DEF GoodSuppressions
  <2>5. v[j] \in RawSuppression
    BY <1>3, <2>2, <2>4, LenProperties
  <2>6. FoldOptional(v[j].cap, CapOf) \in CapId \cup {None}
    BY <2>4, <2>5, PolicyLoadAssumption DEF FoldOptional, RawSuppression
  <2>7. FoldOptional(v[j].tool, IdentityOf) \in Identity \cup {None}
    BY <2>4, <2>5, IdentityAssumption DEF FoldOptional, RawSuppression
  <2>8. v[j].rule \in Rule /\ v[j].expires \in Nat
    BY <2>5 DEF RawSuppression
  <2> QED BY <2>6, <2>7, <2>8 DEF Canonical, Suppression
<1> QED BY <1>2, <1>3

\* A policy as load_policy returns it.
IsWhole(p) == p \in Policy /\ p.maxRisk \in 0..100

\* A policy of valid fields is whole.
LEMMA PolicyOfTyped ==
    ASSUME NEW fields, AreFields(fields), Valid(fields) PROVE IsWhole(PolicyOf(fields))
<1>1. PICK p : p = PolicyOf(fields)
  OBVIOUS
<1>2. /\ p.allow \in UNION {[D -> SUBSET CapId] : D \in SUBSET Identity}
      /\ p.constraints \in UNION {[D -> Constraint] : D \in SUBSET CapId}
      /\ p.trust \in SUBSET Identity /\ p.suppressions \in SUBSET Suppression
  BY <1>1, AllowTyped, ConstraintsTyped, TrustTyped, SuppressionsTyped
<1>3. CapSet(Get(fields, "deny", {})) \in SUBSET CapId /\ CapSet(Get(fields, "require_review", {})) \in SUBSET CapId
  BY ValidHas, CapsTyped
<1>4. Get(fields, "max_risk_score", 60) \in 0..100 /\ Get(fields, "unknown_scope", "review") \in {"deny", "review", "ignore"}
  BY ValidHas
<1>5. p = [deny |-> p.deny, review |-> p.review, maxRisk |-> p.maxRisk, allow |-> p.allow,
           constraints |-> p.constraints, unknown |-> p.unknown, trust |-> p.trust,
           suppressions |-> p.suppressions]
  BY <1>1, Zenon DEF PolicyOf
<1>6. /\ p.deny \in SUBSET CapId /\ p.review \in SUBSET CapId /\ p.maxRisk \in 0..100
      /\ p.unknown \in {"deny", "review", "ignore"}
  BY <1>1, <1>3, <1>4 DEF PolicyOf
<1>7. p.maxRisk \in Nat
  BY <1>6
<1>8. p \in Policy
  BY <1>2, <1>5, <1>6, <1>7 DEF Policy
<1> QED BY <1>1, <1>6, <1>8 DEF IsWhole

\* So is the policy without a file.
LEMMA DefaultIsWhole == IsWhole(DefaultPolicy)
<1>1. <<>> \in [{} -> SUBSET CapId] /\ <<>> \in [{} -> Constraint]
  OBVIOUS
<1>2. /\ <<>> \in UNION {[D -> SUBSET CapId] : D \in SUBSET Identity}
      /\ <<>> \in UNION {[D -> Constraint] : D \in SUBSET CapId}
  BY <1>1
<1>3. 60 \in 0..100 /\ 60 \in Nat
  OBVIOUS
<1>4. DefaultPolicy \in Policy
  BY <1>2, <1>3 DEF Policy, DefaultPolicy
<1>5. DefaultPolicy.maxRisk = 60
  BY DEF DefaultPolicy
<1> QED BY <1>3, <1>4, <1>5 DEF IsWhole

\* A whole policy has the fields of a policy.
LEMMA WholeIsPolicy == ASSUME NEW p, IsWhole(p) PROVE IsPolicy(p)
<1>1. /\ p.deny \in SUBSET CapId /\ p.review \in SUBSET CapId /\ p.maxRisk \in 0..100
      /\ p.unknown \in {"deny", "review", "ignore"} /\ p.trust \in SUBSET Identity
      /\ p.suppressions \in SUBSET Suppression
      /\ p.allow \in UNION {[D -> SUBSET CapId] : D \in SUBSET Identity}
      /\ p.constraints \in UNION {[D -> Constraint] : D \in SUBSET CapId}
  BY DEF IsWhole, Policy
<1>2. PICK D \in SUBSET Identity : p.allow \in [D -> SUBSET CapId]
  BY <1>1
<1>3. PICK E \in SUBSET CapId : p.constraints \in [E -> Constraint]
  BY <1>1
<1>4. DOMAIN p = {"deny", "review", "maxRisk", "allow", "constraints", "unknown", "trust", "suppressions"}
  BY DEF IsWhole, Policy
<1> QED BY <1>1, <1>2, <1>3, <1>4 DEF IsPolicy

\* What tables of the files' settings describe is a mapping of fields.
LEMMA ReadsFields ==
    ASSUME FolderOK, NEW d, NEW e, Tables(d, e), NEW m, Reads(m, d, e) PROVE AreFields(m)
<1>1. DOMAIN m \subseteq FieldName
  BY DEF Reads
<1>2. ASSUME NEW k \in DOMAIN m PROVE m[k] \in {Null, Bad} \/ IsSetting(k, m[k])
  <2>1. k \in FieldName /\ d[k] # None /\ Sets(d[k], k)
    BY DEF Reads, Tables
  <2>2. CASE MapsIn(d, k)
    <3>1. m[k] = MappingBy(e, k) /\ k \in MappingFields
      BY <2>2 DEF Reads, MapsIn
    <3> QED BY <3>1, JoinIsMapping
  <2>3. CASE ~MapsIn(d, k)
    <3>1. m[k] = folder[d[k]].fields[k]
      BY <2>3 DEF Reads
    <3> QED BY <2>1, <3>1, SetsTyped
  <2> QED BY <2>2, <2>3
<1> QED BY <1>1, <1>2 DEF AreFields

\* A call of _load_raw_policy.
FramesTyped ==
    \A k \in DOMAIN frames :
        /\ frames[k].path \in PolicyFile /\ frames[k].refs \in Seq(Ref)
        /\ frames[k].sources \in Seq(PolicyFile)

\* A call that is in order is typed.
LEMMA FrameTyped ==
    ASSUME FolderOK, NEW x, NEW n, FrameOK(x, n)
    PROVE  x.path \in PolicyFile /\ x.refs \in Seq(Ref) /\ x.sources \in Seq(PolicyFile)
BY InheritedIs DEF FrameOK, Listed

\* While it is on its way, load_policy handles policy files and mappings of fields.
OnItsWay ==
    /\ loading \in {"enter", "read", "loop"} => FramesTyped
    /\ loading \in {"enter", "read"} => target \in PolicyFile
    /\ loading = "check" \/ Loaded => sources \in Seq(PolicyFile) /\ AreFields(raw)

\* That follows from what is merged so far.
LEMMA LoaderTyped == ASSUME LoaderInv, BudgetInv PROVE OnItsWay
<1>1. PICK n \in Nat : frames = [k \in 1..n |-> frames[k]]
  BY DEF BudgetInv, WellStacked
<1>2. Len(frames) = n /\ DOMAIN frames = 1..n
  BY <1>1, LengthOf
<1>3. FolderOK
  BY DEF LoaderInv
<1>4. ASSUME loading \in {"enter", "read", "loop"} PROVE FramesTyped
  <2>1. ASSUME NEW k \in 1..n PROVE \E m : FrameOK(frames[k], m)
    BY <1>2, <1>4, <2>1 DEF LoaderInv, StackOK
  <2> QED BY <1>2, <1>3, <2>1, FrameTyped DEF FramesTyped
<1>5. ASSUME loading \in {"enter", "read"} PROVE target \in PolicyFile
  <2>1. StackOK(frames, TRUE) /\ target = CalledFor(frames, Len(frames) + 1)
    BY <1>5 DEF LoaderInv
  <2>2. Len(frames) \in Nat
    BY <1>2
  <2> QED BY <1>3, <2>1, <2>2, CallIsInherited, InheritedIs
<1>6. ASSUME loading = "check" \/ Loaded PROVE sources \in Seq(PolicyFile) /\ AreFields(raw)
  <2>1. Gathered(sources, raw)
    BY <1>6 DEF LoaderInv
  <2>2. Solved /\ Reads(raw, FieldsOf(RootPolicy), KeysOf(RootPolicy))
    BY <1>3, <2>1, EffectiveIs
  <2>3. Tables(FieldsOf(RootPolicy), KeysOf(RootPolicy))
    BY <1>3, <2>2, InheritedIs DEF Solved
  <2> QED BY <1>3, <2>1, <2>2, <2>3, ReadsFields DEF Gathered, Listed
<1> QED BY <1>4, <1>5, <1>6 DEF OnItsWay

\* What load_policy holds at each of its steps.
LoadTyped ==
    /\ loading \in {"start", "enter", "read", "loop", "check", "loaded", "failed"}
    /\ target \in PolicyFile /\ bytesRead \in Nat /\ FramesTyped /\ sources \in Seq(PolicyFile)
    /\ IsWhole(policy)

\* No step of a scan makes load_policy hold anything else.
LEMMA LoadStaysTyped ==
    ASSUME LoadTyped, OnItsWay, OnItsWay', FolderOK, Enterable, [Next]_vars PROVE LoadTyped'
<1>1. CASE UNCHANGED loadVars
  BY <1>1 DEF loadVars, LoadTyped, FramesTyped
<1>2. CASE RejectPolicy
  BY <1>2 DEF RejectPolicy, LoadTyped, FramesTyped
<1>3. CASE BeginLoad
  BY <1>3 DEF BeginLoad, LoadTyped, FramesTyped
<1>4. CASE Enter /\ ~RejectPolicy
  BY <1>4 DEF Enter, LoadTyped, FramesTyped
<1>5. CASE ReadPolicy /\ ~RejectPolicy
  <2>1. /\ loading = "read" /\ loading' = "loop" /\ bytesRead' = bytesRead + folder[target].size
        /\ folder[target] # Absent /\ UNCHANGED <<target, sources, policy>>
    BY <1>5 DEF ReadPolicy, ReadWithin, Enterable
  <2>2. FramesTyped'
    BY <2>1 DEF OnItsWay
  <2>3. folder[target].size \in Nat
    BY <2>1 DEF LoadTyped, FolderOK, IsPolicyFile
  <2>4. bytesRead' \in Nat
    BY <2>1, <2>3 DEF LoadTyped
  <2> QED BY <2>1, <2>2, <2>4 DEF LoadTyped
<1>6. CASE Inherit /\ ~RejectPolicy
  <2>1. loading' = "enter" /\ UNCHANGED <<bytesRead, sources, policy>>
    BY <1>6 DEF Inherit
  <2>2. FramesTyped' /\ target' \in PolicyFile
    BY <2>1 DEF OnItsWay
  <2> QED BY <2>1, <2>2 DEF LoadTyped
<1>7. CASE ReturnPolicy
  <2>1. loading = "loop" /\ UNCHANGED <<folder, target, bytesRead, policy>>
    BY <1>7 DEF ReturnPolicy
  <2>2. CASE loading' = "check"
    <3>1. frames' = <<>>
      BY <1>7, <2>1, <2>2 DEF ReturnPolicy
    <3>2. FramesTyped'
      BY <3>1 DEF FramesTyped
    <3>3. sources' \in Seq(PolicyFile)
      BY <2>2 DEF OnItsWay
    <3> QED BY <2>1, <2>2, <3>2, <3>3 DEF LoadTyped
  <2>3. CASE loading' # "check"
    <3>1. loading' = "loop" /\ sources' = sources
      BY <1>7, <2>1, <2>3 DEF ReturnPolicy
    <3>2. FramesTyped'
      BY <3>1 DEF OnItsWay
    <3> QED BY <2>1, <3>1, <3>2 DEF LoadTyped
  <2> QED BY <2>2, <2>3
<1>8. CASE CheckPolicy /\ ~RejectPolicy
  <2>1. /\ loading = "check" /\ loading' = "loaded" /\ Valid(raw) /\ policy' = PolicyOf(raw)
        /\ UNCHANGED <<target, frames, bytesRead, sources>>
    BY <1>8 DEF CheckPolicy
  <2>2. AreFields(raw)
    BY <2>1 DEF OnItsWay
  <2>3. IsWhole(policy')
    BY <2>1, <2>2, PolicyOfTyped
  <2> QED BY <2>1, <2>3 DEF LoadTyped, FramesTyped
<1> QED BY <1>1, <1>2, <1>3, <1>4, <1>5, <1>6, <1>7, <1>8, OnlyLoadingLoads DEF LoadPolicy

\* What load_policy holds is typed in every state.
LEMMA LoadTypedAlways == Spec => []LoadTyped
<1>1. Init => LoadTyped
  <2> SUFFICES ASSUME Init PROVE LoadTyped
    OBVIOUS
  <2>1. /\ loading = "start" /\ target = RootPolicy /\ bytesRead = 0 /\ frames = <<>> /\ sources = <<>>
        /\ policy = DefaultPolicy
    BY DEF Init, LoadInit
  <2> QED BY <2>1, DefaultIsWhole, PolicyLoadAssumption DEF LoadTyped, FramesTyped
<1>2. LoaderInv => FolderOK
  BY DEF LoaderInv
<1>3. (LoaderInv /\ BudgetInv => OnItsWay) /\ (BudgetInv => Enterable)
  BY LoaderTyped DEF BudgetInv
<1>4. LoadTyped /\ OnItsWay /\ OnItsWay' /\ FolderOK /\ Enterable /\ [Next]_vars => LoadTyped'
  BY LoadStaysTyped
<1> QED BY <1>1, <1>2, <1>3, <1>4, LoaderAlways, BudgetAlways, SpecIsSafe, PTL

\* The evidence of an object is evidence.
LEMMA SchemaEvidenceTyped ==
    ASSUME NEW names \in NameSets PROVE \A v \in Visits : SchemaEvidence[<<names, v>>] \in Evidence
<1> DEFINE P == {v \in Visits : SchemaEvidence[<<names, v>>] \in Evidence}
<1>1. ASSUME NEW v \in Visits, \A w \in Visits : <<w, v>> \in VisitBelow => w \in P PROVE v \in P
  <2>1. CASE v[1] = None \/ v[1] \in v[2]
    <3>0. SchemaEvidence[<<names, v>>] = SchemaStep(SchemaEvidence, <<names, v>>)
      BY SchemaEvidenceIs
    <3> DEFINE x == <<names, v>>
    <3>4. x[2] = v
      OBVIOUS
    <3> HIDE DEF x
    <3>5. SchemaStep(SchemaEvidence, x) \in {Nothing, Unproven}
      BY <2>1, <3>4 DEF SchemaStep
    <3>1. SchemaEvidence[<<names, v>>] \in {Nothing, Unproven}
      BY <3>0, <3>5 DEF x
    <3>6. Nothing \in Evidence /\ Unproven \in Evidence
      BY DEF Nothing, Unproven, Evidence
    <3> QED BY <3>1, <3>6
  <2>2. CASE ~(v[1] = None \/ v[1] \in v[2])
    <3> DEFINE of == Under(SchemaEvidence, names, v)
               value == OfBranches(ValueEvidence, v[1], v[2])
    <3>1. SchemaEvidence[<<names, v>>] = MergedEvidence(KeywordEvidence(Schema[v[1]], names, of, value))
      BY <2>2, SchemaEvidenceIs DEF SchemaStep
    <3>2. v[1] \in SchemaNode
      BY <2>2, BranchesBelow
    <3>3. ASSUME NEW b \in Branch PROVE SchemaEvidence[<<names, <<b, v[2] \cup {v[1]}>>>>] \in Evidence
      <4>1. PICK u \in Visits : u = <<b, v[2] \cup {v[1]}>> /\ <<u, v>> \in VisitBelow
        BY <2>2, BranchesBelow
      <4>2. u \in P
        BY <1>1, <4>1
      <4> QED BY <4>1, <4>2
    <3>4. of \in [Branch -> Evidence]
      BY <3>3 DEF Under
    <3>5. value \in [Branch -> Evidence]
      BY <2>2, BranchesBelow, ValueEvidenceIs DEF OfBranches, Bound, Evidence
    <3> HIDE DEF of, value
    <3>6. KeywordEvidence(Schema[v[1]], names, of, value) \subseteq Evidence
      BY <3>2, <3>4, <3>5, KeywordEvidenceTyped
    <3> QED BY <3>1, <3>6, EvidenceJoins
  <2> QED BY <2>1, <2>2
<1>2. Visits \subseteq P
  <2>1. IsWellFoundedOn(VisitBelow, Visits)
    BY VisitsEnd
  <2> HIDE DEF P
  <2> QED BY <1>1, <2>1, Descent
<1> QED BY <1>2

\* What the schemas of a tool prove is evidence.
LEMMA AllSchemasTyped ==
    ASSUME NEW names \in NameSets, NEW nodes \in Seq(SchemaNode)
    PROVE  AllSchemas(names, nodes).values \subseteq Literal
<1>1. ASSUME NEW n \in ToSet(nodes) PROVE SchemaEvidence[<<names, <<n, {}>>>>] \in Evidence
  <2>1. n \in SchemaNode
    BY MembersOf
  <2>2. <<n, {}>> \in Visits
    BY <2>1 DEF Visits, Branch
  <2> QED BY <2>2, SchemaEvidenceTyped
<1>2. {SchemaEvidence[<<names, <<n, {}>>>>] : n \in ToSet(nodes)} \subseteq Evidence
  BY <1>1
<1>3. AllSchemas(names, nodes) \in Evidence
  BY <1>2, EvidenceJoins DEF AllSchemas
<1> QED BY <1>3 DEF Evidence

\* A scope made from evidence is one, if normal forms are values.
LEMMA ScopeFromTyped ==
    ASSUME NEW e, e.values \subseteq Literal, NEW d, d \subseteq Literal, NEW f,
           \A l \in Literal : f[l] = None \/ f[l] \in Value
    PROVE  IsScope(ScopeFrom(e, d, f))
<1>1. PICK had : had = e.values \cup d /\ had \subseteq Literal
  OBVIOUS
<1>2. PICK values : values = {f[l] : l \in had}
  OBVIOUS
<1>3. None \notin values => values \subseteq Value
  BY <1>1, <1>2
<1>4. /\ IsScope(ScopeOf("unknown", {}, "ambiguous")) /\ IsScope(ScopeOf("unknown", {}, "nothing"))
      /\ IsScope(ScopeOf("unknown", {}, "unsafe"))
      /\ values \subseteq Value =>
            /\ IsScope(ScopeOf("broad", values, "wide"))
            /\ values # {} /\ values \cap Everything = {} => IsScope(ScopeOf("restricted", values, "finite"))
  BY DEF IsScope, ScopeOf, ScopeKind
<1>5. ScopeFrom(e, d, f) \in
          {ScopeOf("unknown", {}, "ambiguous"), ScopeOf("unknown", {}, "nothing"), ScopeOf("unknown", {}, "unsafe")}
          \cup (IF None \in values THEN {} ELSE {ScopeOf("broad", values, "wide")})
          \cup (IF None \notin values /\ values # {} /\ values \cap Everything = {}
                THEN {ScopeOf("restricted", values, "finite")} ELSE {})
  BY <1>1, <1>2 DEF ScopeFrom
<1> QED BY <1>3, <1>4, <1>5

\* The scope inferred for a tool is one.
LEMMA ScopeTyped ==
    ASSUME NEW i, NEW text \in Description, NEW nodes \in Seq(SchemaNode)
    PROVE  IsScope(ScopeForCapability(i, text, nodes))
<1>1. text.paths \subseteq Literal /\ text.hosts \subseteq Literal
  BY DEF Description
<1>2. PathNames \in NameSets /\ NetNames \in NameSets
  BY DEF NameSets
<1>3. /\ {EveryPath} \subseteq Value /\ {EveryHost} \subseteq Value
      /\ \A l \in Literal : (Path[l] = None \/ Path[l] \in Value) /\ (Net[l] = None \/ Net[l] \in Value)
  <2>1. EveryPath \in Value /\ EveryHost \in Value
    BY ValueAssumption DEF Everything
  <2>2. ASSUME NEW l \in Literal PROVE (Path[l] = None \/ Path[l] \in Value) /\ (Net[l] = None \/ Net[l] \in Value)
    BY ValueAssumption
  <2> QED BY <2>1, <2>2
<1>4. IsScope(ScopeFrom(AllSchemas(PathNames, nodes), text.paths, Path))
  BY <1>1, <1>2, <1>3, AllSchemasTyped, ScopeFromTyped
<1>5. IsScope(ScopeFrom(AllSchemas(NetNames, nodes), text.hosts, Net))
  BY <1>1, <1>2, <1>3, AllSchemasTyped, ScopeFromTyped
<1>6. /\ IsScope(ScopeOf("broad", {EveryPath}, "described")) /\ IsScope(ScopeOf("broad", {EveryHost}, "described"))
      /\ IsScope(ScopeOf("unknown", {}, "nothing"))
  BY <1>3 DEF IsScope, ScopeOf, ScopeKind
<1> QED BY <1>4, <1>5, <1>6 DEF ScopeForCapability, FilesystemScope, NetworkScope

\* Capabilities of tools, with scopes.
AreCaps(caps) == \A c \in caps : c.id \in CapId /\ c.tool \in Tool /\ IsScope(c.scope)

\* The rules of a policy see them as capabilities.
LEMMA SeenTyped == ASSUME NEW caps, AreCaps(caps) PROVE ForPolicy(caps) \subseteq Capability
<1>1. ASSUME NEW c \in caps
      PROVE  [id |-> c.id, tool |-> c.tool, kind |-> c.scope.kind, values |-> c.scope.values] \in Capability
  BY DEF AreCaps, IsScope, Capability
<1> QED BY <1>1 DEF ForPolicy

\* What is inferred of tools are capabilities.
LEMMA InferredTyped ==
    ASSUME NEW T, OneToolPerFile(T) PROVE AreCaps(InferCapabilities(T)) /\ Keyed(InferCapabilities(T))
<1>1. ASSUME NEW c \in InferCapabilities(T) PROVE c.id \in CapId /\ c.tool \in Tool
  <2>1. c.id \in CapId /\ c.tool \in {t.name : t \in T}
    BY InferenceOf
  <2>2. \A t \in T : t.name \in Tool
    BY DEF OneToolPerFile, ToolRecord
  <2> QED BY <2>1, <2>2
<1>2. ASSUME NEW c \in InferCapabilities(T) PROVE IsScope(c.scope)
  <2>1. PICK t \in T : \E s : c \in Inferred(t, s)
    BY DEF InferCapabilities
  <2>2. c.scope = ScopeForCapability(c.id, t.text, t.schema)
    BY <2>1, ScopeInferred
  <2>3. t.text \in Description /\ t.schema \in Seq(SchemaNode)
    BY DEF OneToolPerFile, ToolRecord
  <2> QED BY <2>2, <2>3, ScopeTyped
<1> QED BY <1>1, <1>2, InferenceOf DEF AreCaps, Keyed

\* Scopes merge to a scope.
LEMMA MergedTyped == ASSUME NEW S, \A s \in S : IsScope(s) PROVE IsScope(MergedScope(S))
<1>1. PICK all, wide : all = UNION {s.values : s \in S} /\ wide = UNION {s.values : s \in {x \in S : x.kind = "broad"}}
  OBVIOUS
<1>2. all \subseteq Value /\ wide \subseteq Value
  BY <1>1 DEF IsScope
<1>3. \/ MergedScope(S) \in {ScopeOf("broad", wide, "one is broad"), ScopeOf("unknown", {}, "inconsistent")}
      \/ /\ MergedScope(S) = ScopeOf("restricted", all, "union") /\ all # {}
         /\ \A s \in S : s.kind \notin {"broad", "unknown"}
  BY <1>1 DEF MergedScope
<1>4. IsScope(ScopeOf("broad", wide, "one is broad")) /\ IsScope(ScopeOf("unknown", {}, "inconsistent"))
  BY <1>2 DEF IsScope, ScopeOf, ScopeKind
<1>5. ASSUME all # {}, \A s \in S : s.kind \notin {"broad", "unknown"}
      PROVE  IsScope(ScopeOf("restricted", all, "union"))
  <2>1. \A s \in S : s.values \cap Everything = {}
    BY <1>5 DEF IsScope, ScopeKind
  <2>2. all \cap Everything = {}
    BY <1>1, <2>1
  <2> QED BY <1>2, <1>5, <2>2 DEF IsScope, ScopeOf, ScopeKind
<1> QED BY <1>3, <1>4, <1>5

\* Capabilities are reconciled to capabilities.
LEMMA ReconciledTyped ==
    ASSUME NEW caps, AreCaps(caps), Keyed(caps) PROVE AreCaps(Reconciled(caps))
<1> SUFFICES ASSUME NEW c \in Reconciled(caps) PROVE c.id \in CapId /\ c.tool \in Tool /\ IsScope(c.scope)
  BY DEF AreCaps
<1>1. PICK d \in caps : c = Rescoped(caps, d)
  BY ReconciledOf
<1>2. c.id = d.id /\ c.tool = d.tool
  BY <1>1, ReconciledOf DEF CapField
<1>3. IsScope(c.scope)
  <2>1. CASE d.id \in Scoped /\ SameKey(caps, d) # {d}
    <3>1. DOMAIN d = CapField
      BY DEF Keyed
    <3>2. c.scope = MergedScope({e.scope : e \in SameKey(caps, d)})
      BY <1>1, <2>1, <3>1 DEF Rescoped, CapField
    <3>3. \A s \in {e.scope : e \in SameKey(caps, d)} : IsScope(s)
      BY DEF SameKey, AreCaps
    <3> QED BY <3>2, <3>3, MergedTyped
  <2>2. CASE ~(d.id \in Scoped /\ SameKey(caps, d) # {d})
    BY <1>1, <2>2 DEF Rescoped, AreCaps
  <2> QED BY <2>1, <2>2
<1> QED BY <1>2, <1>3 DEF AreCaps

\* What a whole policy finds in capabilities are findings.
LEMMA FindingsTyped ==
    ASSUME NEW caps, AreCaps(caps), NEW p, IsWhole(p) PROVE FindingsOf(caps, p) \subseteq Finding
<1>1. PICK seen : seen = ForPolicy(caps)
  OBVIOUS
<1>2. PICK judged : judged = CHOOSE j \in Representatives(seen) : TRUE
  OBVIOUS
<1>3. judged \in SUBSET seen
  BY <1>2, SomeRepresentatives DEF Representatives
<1>4. seen \in SUBSET Capability
  BY <1>1, SeenTyped
<1>5. p \in Policy
  BY DEF IsWhole
<1>6. FindingsOf(caps, p) = Outcome(p, seen, judged, RiskScore(caps))
  BY <1>1, <1>2 DEF FindingsOf
<1> QED BY <1>3, <1>4, <1>5, <1>6, OutcomeIsTyped

\* What a scan holds at each of its steps.
HeldTyped ==
    /\ scan \in Ended \cup {"discovering", "reconciling", "drawing", "loading", "sealing", "sealed", "written"}
    /\ IsResult(result) /\ tools \subseteq ToolRecord
    /\ DOMAIN file = {"kind", "snapshot"} /\ DOMAIN file.snapshot \subseteq Field

\* A result with one part replaced is one, if the part is.
LEMMA ReplacedPart ==
    ASSUME NEW r, IsResult(r), NEW q, IsResult(q), NEW part \in Part
    PROVE  IsResult([r EXCEPT ![part] = q[part]])
<1>1. PICK n : n = [r EXCEPT ![part] = q[part]]
  OBVIOUS
<1>2. DOMAIN n = Part /\ \A x \in Part : n[x] = r[x] \/ n[x] = q[x]
  BY <1>1 DEF IsResult
<1>3. n.tools \subseteq ToolRecord /\ n.findings \subseteq Finding
  BY <1>2 DEF IsResult, Part
<1>4. ForPolicy(n.caps) \subseteq Capability
  BY <1>2 DEF IsResult, Part
<1>5. IsPolicy(n.policy)
  BY <1>2 DEF IsResult, Part
<1> QED BY <1>1, <1>2, <1>3, <1>4, <1>5 DEF IsResult

\* No step of a scan makes it hold anything else.
LEMMA HeldStaysTyped ==
    ASSUME HeldTyped, LoadTyped, DiscoveryInv, BuildInv, input \in Scans, [Next]_vars PROVE HeldTyped'
<1> USE DEF Ended
<1>1. CASE Discovering
  <2>1. UNCHANGED <<scan, result, file>>
    BY <1>1 DEF Discovering, pipelineVars
  <2>2. tools' = tools \/ (FinishDiscovery /\ tools' = Grouped(found))
    BY <1>1 DEF Discovering, Discover, StartDiscovery, Stat, Read, Visit, EndOfDocument, FinishDiscovery, Yield,
                GiveUp, GoOn, SkipDocument
  <2>3. Grouped(found) \subseteq ToolRecord
    BY GroupedOf DEF DiscoveryInv, WalkInv, OneToolPerFile
  <2> QED BY <2>1, <2>2, <2>3 DEF HeldTyped
<1>2. CASE Infer
  <2>1. UNCHANGED <<tools, file>>
    BY <1>2 DEF Infer, discoveryVars
  <2>2. CASE discovery = "failed"
    BY <1>2, <2>1, <2>2 DEF Infer, HeldTyped
  <2>3. CASE discovery = "found"
    <3>1. /\ scan' = "reconciling"
          /\ result' = [result EXCEPT !.tools = tools, !.caps = InferCapabilities(tools)]
      BY <1>2, <2>3 DEF Infer
    <3>2. OneToolPerFile(tools)
      BY <2>3, GroupedOf DEF DiscoveryInv, FoundInv, WalkInv
    <3>3. ForPolicy(InferCapabilities(tools)) \subseteq Capability /\ tools \subseteq ToolRecord
      BY <3>2, InferredTyped, SeenTyped DEF OneToolPerFile
    <3>4. /\ DOMAIN result' = Part /\ result'.tools = tools /\ result'.caps = InferCapabilities(tools)
          /\ result'.policy = result.policy /\ result'.findings = result.findings
      BY <3>1 DEF HeldTyped, IsResult, Part
    <3>5. IsResult(result')
      BY <3>3, <3>4 DEF HeldTyped, IsResult
    <3> QED BY <2>1, <3>1, <3>5 DEF HeldTyped
  <2> QED BY <1>2, <2>2, <2>3 DEF Infer
<1>3. CASE Reconcile
  <2>1. /\ UNCHANGED <<tools, file>> /\ scan = "reconciling" /\ scan' = "drawing"
        /\ result' = [result EXCEPT !.caps = Reconciled(result.caps)]
    BY <1>3 DEF Reconcile, discoveryVars
  <2>2. OneToolPerFile(result.tools) /\ result.caps = InferCapabilities(result.tools)
    BY <2>1 DEF BuildInv, Inferring
  <2>3. ForPolicy(Reconciled(result.caps)) \subseteq Capability
    BY <2>2, InferredTyped, ReconciledTyped, SeenTyped
  <2>4. /\ DOMAIN result' = Part /\ result'.tools = result.tools /\ result'.caps = Reconciled(result.caps)
        /\ result'.policy = result.policy /\ result'.findings = result.findings
    BY <2>1 DEF HeldTyped, IsResult, Part
  <2>5. IsResult(result')
    BY <2>3, <2>4 DEF HeldTyped, IsResult
  <2> QED BY <2>1, <2>5 DEF HeldTyped
<1>4. CASE DrawGraph
  <2>1. /\ UNCHANGED <<tools, file>> /\ scan' = "loading"
        /\ result' = [result EXCEPT !.graph = Graph(result.caps)]
    BY <1>4 DEF DrawGraph, discoveryVars
  <2>2. /\ DOMAIN result' = Part /\ result'.tools = result.tools /\ result'.caps = result.caps
        /\ result'.policy = result.policy /\ result'.findings = result.findings
    BY <2>1 DEF HeldTyped, IsResult, Part
  <2>3. IsResult(result')
    BY <2>2 DEF HeldTyped, IsResult
  <2> QED BY <2>1, <2>3 DEF HeldTyped
<1>5. CASE Evaluate
  <2>1. UNCHANGED <<tools, file>> /\ scan = "loading"
    BY <1>5 DEF Evaluate, discoveryVars
  <2>2. CASE loading = "failed"
    BY <1>5, <2>1, <2>2 DEF Evaluate, HeldTyped
  <2>3. CASE loading # "failed"
    <3>1. /\ scan' = "sealing"
          /\ result' = [result EXCEPT !.policy = policy, !.findings = FindingsOf(result.caps, policy)]
      BY <1>5, <2>3 DEF Evaluate
    <3>2. OneToolPerFile(result.tools) /\ result.caps = Reconciled(InferCapabilities(result.tools))
      BY <2>1 DEF BuildInv, Inferring
    <3>3. FindingsOf(result.caps, policy) \subseteq Finding
      BY <3>2, InferredTyped, ReconciledTyped, FindingsTyped DEF LoadTyped
    <3>4. IsPolicy(policy)
      BY WholeIsPolicy DEF LoadTyped
    <3>5. /\ DOMAIN result' = Part /\ result'.tools = result.tools /\ result'.caps = result.caps
          /\ result'.policy = policy /\ result'.findings = FindingsOf(result.caps, policy)
      BY <3>1 DEF HeldTyped, IsResult, Part
    <3>6. IsResult(result')
      BY <3>3, <3>4, <3>5 DEF HeldTyped, IsResult
    <3> QED BY <2>1, <3>1, <3>6 DEF HeldTyped
  <2> QED BY <2>2, <2>3
<1>6. CASE Seal \/ Compare
  <2>1. UNCHANGED <<tools, file, result>>
        /\ scan' \in {"sealed", "rejected", "refused", "crashed", "compared"}
    BY <1>6 DEF Seal, Compare, discoveryVars
  <2> QED BY <2>1 DEF HeldTyped
<1>7. CASE WriteSnapshot
  <2>1. /\ UNCHANGED <<tools, result>> /\ scan' \in {"written", "unwritten"}
        /\ file' = file \/ file' = [kind |-> "text", snapshot |-> Payload(result)]
    BY <1>7 DEF WriteSnapshot, WriteIf, discoveryVars
  <2>2. DOMAIN Payload(result) = Field
    BY PayloadFields
  <2>3. DOMAIN file' = {"kind", "snapshot"} /\ DOMAIN file'.snapshot \subseteq Field
    BY <2>1, <2>2 DEF HeldTyped
  <2> QED BY <2>1, <2>3 DEF HeldTyped
<1>8. ASSUME NEW part \in Part, Tamper(part) PROVE HeldTyped'
  <2>1. UNCHANGED <<tools, file, scan>> /\ result' = [result EXCEPT ![part] = input.others[part]]
    BY <1>8 DEF Tamper, discoveryVars
  <2>2. IsResult(input.others)
    BY PipelineAssumption DEF ScanType
  <2>3. IsResult(result')
    BY <2>1, <2>2, ReplacedPart DEF HeldTyped
  <2> QED BY <2>1, <2>3 DEF HeldTyped
<1>9. ASSUME NEW e \in Editing, EditFile(e) PROVE HeldTyped'
  <2>1. UNCHANGED <<tools, result, scan>>
    BY <1>9 DEF EditFile, discoveryVars
  <2> DEFINE old == file.snapshot
  <2>2. \E new : file' = [file EXCEPT !.snapshot = new] /\ DOMAIN new \subseteq DOMAIN old
    <3>1. PICK new \in Edited(e, old) : file' = [file EXCEPT !.snapshot = new]
      BY <1>9 DEF EditFile
    <3>2. e[1] \in {"drop", "nullify", "spoil", "splice", "blank", "mar"}
      BY DEF Editing
    <3> HIDE DEF old
    <3>3. CASE e[1] = "drop"
      <4>1. new = [f \in DOMAIN old \ {e[2]} |-> old[f]]
        BY <3>3 DEF Edited
      <4> QED BY <3>1, <4>1
    <3>4. CASE e[1] # "drop"
      <4>1. \E f, to : new = [old EXCEPT ![f] = to]
        BY <3>2, <3>4 DEF Edited
      <4> QED BY <3>1, <4>1
    <3> QED BY <3>3, <3>4
  <2>3. DOMAIN file' = {"kind", "snapshot"} /\ DOMAIN file'.snapshot \subseteq DOMAIN old
    <3>1. PICK new : file' = [file EXCEPT !.snapshot = new] /\ DOMAIN new \subseteq DOMAIN old
      BY <2>2
    <3> QED BY <3>1 DEF HeldTyped
  <2> QED BY <2>1, <2>3 DEF HeldTyped
<1>10. ASSUME NEW kind, ReplaceFile(kind) PROVE HeldTyped'
  <2>1. UNCHANGED <<tools, result, scan>> /\ file' = [file EXCEPT !.kind = kind]
    BY <1>10 DEF ReplaceFile, discoveryVars
  <2>2. DOMAIN file' = {"kind", "snapshot"} /\ file'.snapshot = file.snapshot
    BY <2>1 DEF HeldTyped
  <2> QED BY <2>1, <2>2 DEF HeldTyped
<1>11. CASE UNCHANGED <<tools, scan, result, file>>
  BY <1>11 DEF HeldTyped
<1>12. CASE Loading \/ UNCHANGED vars
  BY <1>11, <1>12 DEF Loading, vars, pipelineVars, discoveryVars
<1>13. CASE \E p \in DOMAIN tree.later : ChangeText(p) /\ UNCHANGED pipelineVars
  BY <1>11, <1>13 DEF ChangeText, pipelineVars
<1> QED BY <1>1, <1>2, <1>3, <1>4, <1>5, <1>6, <1>7, <1>8, <1>9, <1>10, <1>12, <1>13 DEF Next, Program, Environment

\* Every value a scan handles, its discovery and its loading of the policy included, is of
\* the type that the code gives it, whatever the documents, the policy files and the
\* snapshot file hold.
THEOREM TypeOKAlways == Spec => []TypeOK
<1>1. Init => HeldTyped
  <2> SUFFICES ASSUME Init PROVE HeldTyped
    OBVIOUS
  <2>1. scan = "discovering" /\ result = NoResult /\ tools = {} /\ file = NoFile
    BY DEF Init, DiscoveryInit
  <2>2. ForPolicy({}) = {} /\ IsPolicy(DefaultPolicy)
    BY DefaultIsWhole, WholeIsPolicy DEF ForPolicy
  <2>3. IsResult(NoResult)
    BY <2>2 DEF IsResult, NoResult, Part
  <2>4. DOMAIN NoFile = {"kind", "snapshot"} /\ DOMAIN NoFile.snapshot = {}
    BY DEF NoFile
  <2> QED BY <2>1, <2>3, <2>4 DEF HeldTyped
<1>2. ArtifactInv => input \in Scans
  BY DEF ArtifactInv
<1>3. HeldTyped /\ LoadTyped /\ DiscoveryInv /\ BuildInv /\ input \in Scans /\ [Next]_vars => HeldTyped'
  BY HeldStaysTyped
<1>4. HeldTyped /\ LoadTyped /\ DiscoveryInv /\ BudgetInv => TypeOK
  <2> SUFFICES ASSUME HeldTyped, LoadTyped, DiscoveryInv, BudgetInv PROVE TypeOK
    OBVIOUS
  <2>1. DiscoveryTypeOK
    <3>1. PlaceInv /\ WalkInv
      BY DEF DiscoveryInv
    <3>2. current \in Source \cup {None}
      BY <3>1 DEF PlaceInv, IsTree
    <3>3. \A k \in DOMAIN found : found[k] \in ToolRecord
      <4>1. found \in Seq(ToolRecord)
        BY <3>1 DEF WalkInv
      <4> QED BY <4>1, LenProperties, ElementOfSeq
    <3> QED BY <3>1, <3>2, <3>3 DEF PlaceInv, HeldTyped, DiscoveryTypeOK
  <2>2. LoadTypeOK
    BY WholeIsPolicy DEF LoadTyped, FramesTyped, BudgetInv, LoadTypeOK
  <2> QED BY <2>1, <2>2 DEF HeldTyped, TypeOK
<1>5. Init => BuildInv
  BY BuildStarts
<1>6. BuildInv /\ DiscoveryInv /\ ArtifactInv /\ [Next]_vars => BuildInv'
  BY BuildInductive
<1> QED BY <1>1, <1>2, <1>3, <1>4, <1>5, <1>6, LoadTypedAlways, DiscoveryInvAlways, ArtifactAlways, BudgetAlways,
           SpecIsSafe, PTL

\* A prefix agrees with the list as far as it goes.
LEMMA PrefixIs ==
    ASSUME NEW S, NEW s \in Seq(S), NEW t \in Seq(S)
    PROVE  IsPrefix(s, t) <=> Len(s) <= Len(t) /\ \A i \in 1..Len(s) : s[i] = t[i]
<1>1. Len(s) \in Nat /\ Len(t) \in Nat
  BY LenProperties
<1>2. ASSUME Len(s) <= Len(t)
      PROVE  SubSeq(s, 1, Len(s)) = SubSeq(t, 1, Len(s)) <=> \A i \in 1..Len(s) : s[i] = t[i]
  <2>1. /\ SubSeq(s, 1, Len(s)) \in Seq(S) /\ Len(SubSeq(s, 1, Len(s))) = Len(s)
        /\ \A i \in 1..Len(s) : SubSeq(s, 1, Len(s))[i] = s[i]
    BY <1>1, SubSeqProperties
  <2>2. /\ SubSeq(t, 1, Len(s)) \in Seq(S) /\ Len(SubSeq(t, 1, Len(s))) = Len(s)
        /\ \A i \in 1..Len(s) : SubSeq(t, 1, Len(s))[i] = t[i]
    BY <1>1, <1>2, SubSeqProperties
  <2>3. ASSUME \A i \in 1..Len(s) : s[i] = t[i] PROVE SubSeq(s, 1, Len(s)) = SubSeq(t, 1, Len(s))
    <3>1. \A i \in 1..Len(SubSeq(s, 1, Len(s))) : SubSeq(s, 1, Len(s))[i] = SubSeq(t, 1, Len(s))[i]
      BY <2>1, <2>2, <2>3
    <3> QED BY <2>1, <2>2, <3>1, SeqEqual
  <2> QED BY <2>1, <2>2, <2>3
<1> QED BY <1>1, <1>2 DEF IsPrefix

\* Prefixes of prefixes.
LEMMA PrefixThrough ==
    ASSUME NEW S, NEW s \in Seq(S), NEW t \in Seq(S), NEW u \in Seq(S), IsPrefix(s, t), IsPrefix(t, u)
    PROVE  IsPrefix(s, u) /\ (s = u => t = u)
<1>1. Len(s) \in Nat /\ Len(t) \in Nat /\ Len(u) \in Nat
  BY LenProperties
<1>2. Len(s) <= Len(t) /\ \A i \in 1..Len(s) : s[i] = t[i]
  BY PrefixIs
<1>3. Len(t) <= Len(u) /\ \A i \in 1..Len(t) : t[i] = u[i]
  BY PrefixIs
<1>4. IsPrefix(s, u)
  <2>1. Len(s) <= Len(u)
    BY <1>1, <1>2, <1>3
  <2>2. ASSUME NEW i \in 1..Len(s) PROVE s[i] = u[i]
    BY <1>1, <1>2, <1>3
  <2> QED BY <2>1, <2>2, PrefixIs
<1>5. ASSUME s = u PROVE t = u
  <2>1. Len(t) = Len(u)
    BY <1>1, <1>2, <1>3, <1>5
  <2> QED BY <1>3, <2>1, SeqEqual
<1> QED BY <1>4, <1>5

\* A prefix of a list and one more element is the whole or a prefix of the list.
LEMMA PrefixOfAppend ==
    ASSUME NEW S, NEW s \in Seq(S), NEW t \in Seq(S), NEW e \in S
    PROVE  /\ Append(t, e) \in Seq(S) /\ e \in ToSet(Append(t, e)) /\ IsStrictPrefix(t, Append(t, e))
           /\ IsPrefix(s, Append(t, e)) /\ e \notin ToSet(s) => IsPrefix(s, t)
<1> DEFINE u == Append(t, e)
<1>1. /\ u \in Seq(S) /\ Len(u) = Len(t) + 1 /\ u[Len(t) + 1] = e /\ \A i \in 1..Len(t) : u[i] = t[i]
      /\ Len(t) \in Nat /\ Len(s) \in Nat
  BY AppendProperties, LenProperties
<1> HIDE DEF u
<1>2. e \in ToSet(u)
  BY <1>1 DEF ToSet
<1>3. IsStrictPrefix(t, u)
  <2>1. IsPrefix(t, u)
    BY <1>1, PrefixIs
  <2>2. t # u
    BY <1>1
  <2> QED BY <2>1, <2>2 DEF IsStrictPrefix
<1>4. ASSUME IsPrefix(s, u), e \notin ToSet(s) PROVE IsPrefix(s, t)
  <2>1. Len(s) <= Len(u) /\ \A i \in 1..Len(s) : s[i] = u[i]
    BY <1>1, <1>4, PrefixIs
  <2>2. Len(s) # Len(t) + 1
    <3>1. SUFFICES ASSUME Len(s) = Len(t) + 1 PROVE FALSE
      OBVIOUS
    <3>2. s[Len(s)] = e /\ Len(s) \in DOMAIN s
      BY <1>1, <2>1, <3>1
    <3> QED BY <1>4, <3>2 DEF ToSet
  <2>3. Len(s) <= Len(t) /\ \A i \in 1..Len(s) : s[i] = t[i]
    BY <1>1, <2>1, <2>2
  <2> QED BY <2>3, PrefixIs
<1> QED BY <1>1, <1>2, <1>3, <1>4 DEF u

\* The front of a list is a prefix that lacks the last element.
LEMMA FrontIs ==
    ASSUME NEW S, NEW s \in Seq(S), s # <<>>
    PROVE  /\ Front(s) \in Seq(S) /\ IsPrefix(Front(s), s) /\ ToSet(Front(s)) \subseteq ToSet(s)
           /\ \A t \in Seq(S) : IsPrefix(t, s) => t = s \/ IsPrefix(t, Front(s))
<1> DEFINE f == Front(s)
<1>1. /\ f \in Seq(S) /\ Len(f) = Len(s) - 1 /\ Len(s) \in Nat \ {0}
      /\ \A k \in 1..(Len(s) - 1) : f[k] = s[k]
  BY LastAndFront
<1> HIDE DEF f
<1>2. IsPrefix(f, s)
  BY <1>1, PrefixIs
<1>3. ToSet(f) \subseteq ToSet(s)
  <2>1. DOMAIN f = 1..Len(f) /\ DOMAIN s = 1..Len(s)
    BY <1>1, LenProperties
  <2> QED BY <1>1, <2>1 DEF ToSet
<1>4. ASSUME NEW t \in Seq(S), IsPrefix(t, s) PROVE t = s \/ IsPrefix(t, f)
  <2>1. Len(t) \in Nat /\ Len(t) <= Len(s) /\ \A i \in 1..Len(t) : t[i] = s[i]
    BY <1>4, PrefixIs, LenProperties
  <2>2. CASE Len(t) = Len(s)
    BY <2>1, <2>2, SeqEqual
  <2>3. CASE Len(t) <= Len(s) - 1
    <3>1. Len(t) <= Len(f) /\ \A i \in 1..Len(t) : t[i] = f[i]
      BY <1>1, <2>1, <2>3
    <3> QED BY <1>1, <3>1, PrefixIs
  <2> QED BY <1>1, <2>1, <2>2, <2>3
<1> QED BY <1>1, <1>2, <1>3, <1>4 DEF f

\* No path repeats the "**" it ends in: of such paths the comparison and the places they
\* admit take the first "**" for a name.
DeepOnce == \A v \in Value : Deep(v) => \A h \in Value : Deep(h) => Front(h.segs) # v.segs

\* A value is a record of a root and a list of names.
LEMMA ValueIs == ASSUME NEW v \in Value PROVE v.root \in STRING /\ v.segs \in Seq(STRING) /\ v = [root |-> v.root, segs |-> v.segs]
BY ValueAssumption

\* What lies in a covered value lies in the one that covers it.
LEMMA CoveredLies ==
    ASSUME DeepOnce, NEW v \in Value, NEW h \in Value, Covers(h, v), NEW x \in Target, Lies(x, v)
    PROVE  Lies(x, h)
<1>1. v.segs \in Seq(STRING) /\ h.segs \in Seq(STRING) /\ x.segs \in Seq(STRING) /\ x.root # "*."
  BY ValueIs, TargetAssumption
<1>2. CASE h = v
  BY <1>2
<1>3. CASE Deep(h) /\ v.root = h.root /\ IsPrefix(Front(h.segs), v.segs)
  <2>1. h.segs # <<>> /\ Front(h.segs) \in Seq(STRING)
    BY <1>1, <1>3, FrontIs DEF Deep
  <2>2. v.root # "*."
    BY <1>3 DEF Deep
  <2>3. CASE x = v
    BY <1>3, <2>3 DEF Lies
  <2>4. CASE Deep(v) /\ v.root = x.root /\ IsPrefix(Front(v.segs), x.segs)
    <3>1. v.segs # <<>> /\ Front(v.segs) \in Seq(STRING)
      BY <1>1, <2>4, FrontIs DEF Deep
    <3>2. Front(h.segs) # v.segs
      BY <1>3, <2>4 DEF DeepOnce
    <3>3. IsPrefix(Front(h.segs), Front(v.segs))
      BY <1>1, <1>3, <2>1, <3>1, <3>2, FrontIs
    <3>4. IsPrefix(Front(h.segs), x.segs)
      BY <1>1, <2>1, <2>4, <3>1, <3>3, PrefixThrough
    <3> QED BY <1>3, <2>4, <3>4 DEF Lies
  <2> QED BY <2>2, <2>3, <2>4 DEF Lies
<1>4. CASE /\ h.root = "*." /\ v.root \in {"*.", "host", "url"} /\ IsPrefix(h.segs, v.segs)
           /\ v.root # "*." => v.segs # h.segs
  <2>1. ~Deep(v)
    BY <1>4 DEF Deep
  <2>2. CASE x = v
    BY <1>1, <1>4, <2>2 DEF Lies, IsStrictPrefix
  <2>3. CASE v.root = "*." /\ x.root \in {"host", "url"} /\ IsStrictPrefix(v.segs, x.segs)
    <3>1. IsPrefix(h.segs, x.segs) /\ (h.segs = x.segs => v.segs = x.segs)
      BY <1>1, <1>4, <2>3, PrefixThrough DEF IsStrictPrefix
    <3> QED BY <1>4, <2>3, <3>1 DEF Lies, IsStrictPrefix
  <2> QED BY <2>1, <2>2, <2>3 DEF Lies
<1> QED BY <1>2, <1>3, <1>4 DEF Covers

\* The place of a value lies in it.
LEMMA PlaceLies == ASSUME NEW v \in Value \ Everything PROVE PlaceOf(v) \in Target /\ Lies(PlaceOf(v), v)
<1>1. v.root \in STRING /\ v.segs \in Seq(STRING) /\ Fresh \in STRING /\ PlaceOf(v) \in Target
  BY ValueIs, TargetAssumption
<1>2. CASE Deep(v)
  <2>1. Front(v.segs) \in Seq(STRING)
    BY <1>1, <1>2, FrontIs DEF Deep
  <2>2. IsPrefix(Front(v.segs), Append(Front(v.segs), Fresh))
    BY <1>1, <2>1, PrefixOfAppend DEF IsStrictPrefix
  <2>3. PlaceOf(v).root = v.root /\ PlaceOf(v).segs = Append(Front(v.segs), Fresh)
    BY <1>2 DEF PlaceOf
  <2> QED BY <1>1, <1>2, <2>2, <2>3 DEF Lies
<1>3. CASE ~Deep(v) /\ v.root = "*."
  <2>1. IsStrictPrefix(v.segs, Append(v.segs, Fresh))
    BY <1>1, PrefixOfAppend
  <2>2. PlaceOf(v).root = "host" /\ PlaceOf(v).segs = Append(v.segs, Fresh)
    BY <1>3 DEF PlaceOf
  <2> QED BY <1>1, <1>3, <2>1, <2>2 DEF Lies
<1>4. CASE ~Deep(v) /\ v.root # "*."
  BY <1>1, <1>4 DEF Lies, PlaceOf
<1> QED BY <1>2, <1>3, <1>4

\* A value in which the place of another lies covers it.
LEMMA PlaceTells ==
    ASSUME NEW v \in Value \ Everything, NEW h \in Value, Lies(PlaceOf(v), h) PROVE Covers(h, v)
<1>1. /\ v.root \in STRING /\ v.segs \in Seq(STRING) /\ h.root \in STRING /\ h.segs \in Seq(STRING)
      /\ Fresh \in STRING /\ Fresh \notin ToSet(h.segs)
  BY ValueIs, TargetAssumption
<1>2. Deep(h) => /\ Front(h.segs) \in Seq(STRING) /\ Fresh \notin ToSet(Front(h.segs))
                 /\ h.root \in {"/", "./", ""}
  BY <1>1, FrontIs DEF Deep
<1>3. CASE Deep(v)
  <2>1. /\ Front(v.segs) \in Seq(STRING) /\ IsPrefix(Front(v.segs), v.segs)
        /\ v.root \in {"/", "./", ""}
    BY <1>1, <1>3, FrontIs DEF Deep
  <2>2. PlaceOf(v).root = v.root /\ PlaceOf(v).segs = Append(Front(v.segs), Fresh)
    BY <1>3 DEF PlaceOf
  <2>3. PlaceOf(v) # h
    BY <1>1, <2>1, <2>2, PrefixOfAppend
  <2>4. Deep(h) /\ h.root = v.root /\ IsPrefix(Front(h.segs), Append(Front(v.segs), Fresh))
    BY <2>1, <2>2, <2>3 DEF Lies
  <2>5. IsPrefix(Front(h.segs), Front(v.segs))
    BY <1>1, <1>2, <2>1, <2>4, PrefixOfAppend
  <2>6. IsPrefix(Front(h.segs), v.segs)
    BY <1>1, <1>2, <2>1, <2>4, <2>5, PrefixThrough
  <2> QED BY <2>4, <2>6 DEF Covers
<1>4. CASE ~Deep(v) /\ v.root = "*."
  <2>1. PlaceOf(v).root = "host" /\ PlaceOf(v).segs = Append(v.segs, Fresh)
    BY <1>4 DEF PlaceOf
  <2>2. PlaceOf(v) # h
    BY <1>1, <2>1, PrefixOfAppend
  <2>3. h.root = "*." /\ IsPrefix(h.segs, Append(v.segs, Fresh))
    BY <1>2, <2>1, <2>2 DEF Lies, IsStrictPrefix
  <2>4. IsPrefix(h.segs, v.segs)
    BY <1>1, <2>3, PrefixOfAppend
  <2> QED BY <1>4, <2>3, <2>4 DEF Covers
<1>5. CASE ~Deep(v) /\ v.root # "*."
  BY <1>5 DEF PlaceOf, Lies, Covers, IsStrictPrefix
<1> QED BY <1>3, <1>4, <1>5

\* What scope_is_expansion says of two scopes that inference makes.
LEMMA ScopesGrow ==
    ASSUME DeepOnce, NEW a, NEW b, IsScope(a), IsScope(b)
    PROVE  /\ ScopeIsExpansion(a, b) => Reach(a) \subseteq Reach(b)
           /\ a.kind = "restricted" /\ b.kind \in {"restricted", "broad"} /\ Reach(a) # Reach(b) /\ Reach(a) \subseteq Reach(b)
              => ScopeIsExpansion(a, b)
<1>1. b.kind = "broad" => Reach(b) = Target
  BY DEF Reach
<1>2. Reach(a) \subseteq Target
  BY DEF Reach
<1>3. ASSUME ScopeIsExpansion(a, b), b.kind # "broad", NEW x \in Reach(a) PROVE x \in Reach(b)
  <2>1. PICK v \in a.values : x \in Target /\ Lies(x, v)
    BY <1>3 DEF Reach, ScopeIsExpansion
  <2>2. PICK h \in b.values : Lies(x, h)
    <3>1. CASE v \in b.values
      BY <2>1, <3>1
    <3>2. CASE v \notin b.values
      <4>1. PICK h \in b.values : Covers(h, v)
        BY <1>3, <2>1, <3>2 DEF ScopeIsExpansion
      <4> QED BY <2>1, <4>1, CoveredLies DEF IsScope
    <3> QED BY <3>1, <3>2
  <2> QED BY <2>1, <2>2 DEF Reach
<1>4. ASSUME a.kind = "restricted", b.kind = "restricted", Reach(a) # Reach(b), Reach(a) \subseteq Reach(b)
      PROVE  ScopeIsExpansion(a, b)
  <2>1. a.values # {} /\ b.values # {} /\ a.values \subseteq Value \ Everything /\ b.values \subseteq Value
    BY <1>4 DEF IsScope
  <2>2. a.values # b.values
    BY <1>4 DEF Reach
  <2>3. ASSUME NEW v \in a.values PROVE \E h \in b.values : Covers(h, v)
    <3>1. PlaceOf(v) \in Reach(a)
      BY <2>1, PlaceLies DEF Reach
    <3>2. PICK h \in b.values : Lies(PlaceOf(v), h)
      BY <1>4, <3>1 DEF Reach
    <3> QED BY <2>1, <3>2, PlaceTells
  <2> QED BY <1>4, <2>1, <2>2, <2>3 DEF ScopeIsExpansion
<1>5. a.kind = "restricted" /\ b.kind = "broad" => ScopeIsExpansion(a, b)
  BY DEF ScopeIsExpansion
<1> QED BY <1>1, <1>2, <1>3, <1>4, <1>5

\* The scopes a snapshot lists.
ListsScopes(s) == Has(s, "scopes") => \A x \in s["scopes"] : IsScope(x.scope)

\* What the report compares of a list of scopes are scopes.
LEMMA ScopeMapIs == ASSUME NEW s, ListsScopes(s), NEW key PROVE IsScope(ScopeMap(s, key))
<1> DEFINE own == {x \in Stored(s, "scopes", {}) : <<x.capability, x.tool>> = key}
<1>1. IsScope(Unestablished)
  BY DEF Unestablished, ScopeOf, IsScope, ScopeKind
<1>2. \A x \in own : IsScope(x.scope)
  BY DEF ListsScopes, Stored
<1>3. ScopeMap(s, key) = IF own = {} THEN Unestablished ELSE (CHOOSE x \in own : TRUE).scope
  BY DEF ScopeMap
<1> HIDE DEF own
<1>4. own # {} => (CHOOSE x \in own : TRUE) \in own
  OBVIOUS
<1> QED BY <1>1, <1>2, <1>3, <1>4

\* The scopes of what is sealed are such scopes.
LEMMA SealedScopes == ASSUME Built(seal) PROVE ListsScopes(Payload(seal))
<1>1. AreCaps(seal.caps)
  BY InferredTyped, ReconciledTyped DEF Built
<1>2. Payload(seal)["scopes"] = ScopeRecords(seal.caps)
  BY DEF Payload
<1>3. \A x \in ScopeRecords(seal.caps) : IsScope(x.scope)
  BY <1>1 DEF ScopeRecords, AreCaps
<1> QED BY <1>2, <1>3 DEF ListsScopes

\* Of two scopes that a comparison calls an expansion the second admits more, whatever was
\* done to the file, and what admits more is called an expansion: for all values of
\* which none repeats the "**" another ends in.
THEOREM ExpansionMeansGrowthAlways == DeepOnce => (Spec => []ExpansionMeansGrowth)
<1> SUFFICES ASSUME DeepOnce PROVE Spec => []ExpansionMeansGrowth
  OBVIOUS
<1>1. ArtifactInv /\ BuildInv => ExpansionMeansGrowth
  <2> SUFFICES ASSUME ArtifactInv, BuildInv, scan = "compared", NEW c \in report.capability.scopeChanges
               PROVE  /\ c \in report.capability.expansions => Reach(c.before) \subseteq Reach(c.after)
                      /\ /\ c.before.kind = "restricted" /\ c.after.kind \in {"restricted", "broad"}
                         /\ Reach(c.before) # Reach(c.after) /\ Reach(c.before) \subseteq Reach(c.after)
                         => c \in report.capability.expansions
    BY DEF ExpansionMeansGrowth
  <2> DEFINE own == Payload(seal)
             base == input.base
             s == file.snapshot
  <2>1. /\ input \in Scans /\ Accepts(BaseFile) /\ Accepts(file) /\ ~UsedUnchecked(base, s)
        /\ report = Report(base, s) /\ Built(seal)
    BY DEF ArtifactInv, BuildInv, Sealed
  <2>2. DOMAIN base = Field /\ DOMAIN own = Field
    BY <2>1, BaseFields, PayloadFields
  <2>3. ListsScopes(base)
    BY <2>1, PipelineAssumption DEF ListsScopes, ScanType
  <2>4. ListsScopes(own)
    BY <2>1, SealedScopes
  <2>5. Has(s, "scopes") => s["scopes"] # JsonNull
    BY <2>1 DEF UsedUnchecked
  <2>6. Has(s, "scopes") => s["scopes"] \in {own["scopes"], base["scopes"]}
    <3> DEFINE f == edit[2]
    <3>1. \/ s = own
          \/ f \in Field /\ \/ s = [g \in DOMAIN own \ {f} |-> own[g]] \/ s = [own EXCEPT ![f] = JsonNull]
                            \/ s = [own EXCEPT ![f] = base[f]]
          \/ \E other \in {"policy", "records"} : \E to : s = [own EXCEPT ![other] = to]
      <4>1. Opens(file)
        BY <2>1 DEF Accepts
      <4> QED BY <2>1, <4>1, AcceptedFile
    <3>2. "scopes" \in Field
      BY DEF Field
    <3> HIDE DEF own, base, s, f
    <3>3. CASE \E other \in {"policy", "records"} : \E to : s = [own EXCEPT ![other] = to]
      <4>1. s["scopes"] = own["scopes"]
        BY <2>2, <3>2, <3>3
      <4> QED BY <4>1
    <3>4. CASE f \in Field /\ (s = [own EXCEPT ![f] = JsonNull] \/ s = [own EXCEPT ![f] = base[f]])
      BY <2>2, <2>5, <3>2, <3>4 DEF Has
    <3>5. CASE f \in Field /\ s = [g \in DOMAIN own \ {f} |-> own[g]]
      BY <2>2, <3>2, <3>5 DEF Has
    <3>6. CASE s = own
      BY <3>6
    <3> QED BY <3>1, <3>3, <3>4, <3>5, <3>6
  <2>7. ListsScopes(s)
    <3> HIDE DEF own, base, s
    <3>1. Has(own, "scopes") /\ Has(base, "scopes")
      BY <2>2 DEF Has, Field
    <3> QED BY <2>3, <2>4, <2>6, <3>1 DEF ListsScopes
  <2>8. /\ report.capability.scopeChanges = ScopeChanges(base, s)
        /\ report.capability.expansions = {d \in ScopeChanges(base, s) : ScopeIsExpansion(d.before, d.after)}
    BY <2>1 DEF Report, CapabilityPart
  <2>9. PICK key : c.before = ScopeMap(base, key) /\ c.after = ScopeMap(s, key)
    BY <2>8 DEF ScopeChanges
  <2>10. IsScope(c.before) /\ IsScope(c.after)
    BY <2>3, <2>7, <2>9, ScopeMapIs
  <2> QED BY <2>8, <2>10, ScopesGrow
<1>2. Init => BuildInv
  BY BuildStarts
<1>3. BuildInv /\ DiscoveryInv /\ ArtifactInv /\ [Next]_vars => BuildInv'
  BY BuildInductive
<1> QED BY <1>1, <1>2, <1>3, DiscoveryInvAlways, ArtifactAlways, SpecIsSafe, PTL

\* A snapshot whose fields are those of two snapshots that compare can be loaded and compared.
LEMMA MixedCompares ==
    ASSUME NEW a, NEW b, NEW s, DOMAIN a = Field, DOMAIN b = Field, DOMAIN s \subseteq Field,
           WellFormed(a), WellFormed(s), Hashable(a), Hashable(b),
           \A g \in Field : a[g] # JsonNull /\ b[g] # JsonNull,
           JsonNull \notin {a["policy"].suppressions, b["policy"].suppressions},
           \A g \in DOMAIN s : s[g] \in {a[g], b[g]}
    PROVE  Hashable(s) /\ ~UsedUnchecked(a, s)
<1>1. Hashable(s)
  <2>1. SUFFICES ASSUME Given(s, "records") PROVE \A c \in s["records"] : Unhashable \notin {c.confidence, c.scope.kind}
    BY DEF Hashable
  <2>2. "records" \in DOMAIN s /\ s["records"] \in {a["records"], b["records"]} /\ "records" \in Field
    BY <2>1 DEF Given, Has
  <2>3. Given(a, "records") /\ Given(b, "records")
    BY <2>2 DEF Given, Has
  <2> QED BY <2>2, <2>3 DEF Hashable
<1>2. \A g \in DOMAIN s : s[g] # JsonNull /\ s[g] # Misshapen
  BY DEF WellFormed, WellShaped
<1>3. \A g \in DOMAIN a : a[g] # JsonNull /\ a[g] # Misshapen
  BY DEF WellFormed, WellShaped
<1>4. Given(s, "policy") => s["policy"].suppressions # JsonNull
  BY DEF Given, Has
<1> QED BY <1>1, <1>2, <1>3, <1>4 DEF UsedUnchecked, Has

\* Where neither scan wrote a null, the comparison ends with a traceback only after an edit
\* of one of five kinds: no other field removed, emptied or taken from elsewhere gets there.
THEOREM CrashesOnlyWhereUncheckedAlways == Spec => [](NothingIsNull => CrashesOnlyWhereUnchecked)
<1>1. BuildInv /\ ArtifactInv /\ TypeOK => (NothingIsNull => CrashesOnlyWhereUnchecked)
  <2> SUFFICES ASSUME BuildInv, ArtifactInv, TypeOK, NothingIsNull, scan = "crashed"
               PROVE  edit \in {<<"nullify", "scopes">>, <<"nullify", "findings">>, <<"blank", "suppressions">>,
                                <<"mar", "confidence">>, <<"mar", "kind">>}
    BY DEF CrashesOnlyWhereUnchecked
  <2> DEFINE own == Payload(seal)
             base == input.base
             s == file.snapshot
             old == own["policy"]
             f == edit[2]
  <2>1. /\ WellFormed(base) /\ Hashable(base) /\ Hashable(own) /\ DOMAIN base = Field /\ DOMAIN own = Field
        /\ seal.policy = old /\ IsPolicy(seal.policy) /\ own["risk"] = RiskScore(own["records"])
    <3>1. input \in Scans /\ Built(seal) /\ result = seal
      BY DEF ArtifactInv, BuildInv, Sealed
    <3>2. WellFormed(base) /\ Hashable(base) /\ DOMAIN base = Field
      BY <3>1, PipelineAssumption DEF ScanType
    <3>3. IsPolicy(seal.policy)
      BY <3>1 DEF TypeOK, IsResult
    <3>4. own["policy"] = seal.policy /\ own["risk"] = RiskScore(own["records"])
      BY DEF Payload
    <3> QED BY <3>1, <3>2, <3>3, <3>4, PayloadFields, BuiltIsHashable
  <2>2. Opens(file) /\ WellFormed(s) /\ (~Hashable(s) \/ (Consistent(s) /\ UsedUnchecked(base, s)))
    <3>1. ~Chokes(BaseFile)
      BY <2>1 DEF Chokes, BaseFile
    <3>2. Opens(file) /\ (~Hashable(s) \/ (Consistent(s) /\ UsedUnchecked(base, s)))
      BY <3>1 DEF ArtifactInv, Chokes, Accepts
    <3> QED BY <3>2 DEF Opens
  <2>3. /\ \A g \in Field : base[g] # JsonNull /\ own[g] # JsonNull
        /\ JsonNull \notin {base["policy"].suppressions, old.suppressions}
    BY DEF NothingIsNull
  <2>4. \/ edit = None /\ s = own
        \/ /\ edit # None /\ edit \in Editing /\ f \in Field
           /\ \/ edit[1] = "drop" /\ s = [g \in DOMAIN own \ {f} |-> own[g]]
              \/ edit[1] = "nullify" /\ s = [own EXCEPT ![f] = JsonNull]
              \/ edit[1] = "splice" /\ s = [own EXCEPT ![f] = base[f]]
        \/ /\ edit # None /\ edit \in Editing /\ edit[1] = "blank"
           /\ s = [own EXCEPT !["policy"] = [own["policy"] EXCEPT ![f] = JsonNull]]
        \/ edit \in Editing /\ edit[1] = "mar"
    BY <2>2, AcceptedFile
  <2>5. edit \in Editing => edit = <<edit[1], f>>
    BY DEF Editing
  <2> HIDE DEF own, base, s, old
  <2>6. DOMAIN s \subseteq Field /\ (\A g \in DOMAIN s : s[g] \in {base[g], own[g]}) => FALSE
    BY <2>1, <2>2, <2>3, MixedCompares DEF old
  <2>7. CASE edit = None /\ s = own
    BY <2>1, <2>6, <2>7
  <2>8. CASE s = [g \in DOMAIN own \ {f} |-> own[g]] /\ f \in Field
    BY <2>1, <2>6, <2>8
  <2>9. CASE s = [own EXCEPT ![f] = base[f]] /\ f \in Field
    BY <2>1, <2>6, <2>9
  <2>10. CASE edit \in Editing /\ edit[1] = "nullify" /\ f \in Field /\ s = [own EXCEPT ![f] = JsonNull]
    <3>1. DOMAIN s = Field /\ s[f] = JsonNull /\ \A g \in Field \ {f} : s[g] = own[g]
      BY <2>1, <2>10
    <3>2. {"records", "policy", "risk"} \subseteq Field
      BY DEF Field
    <3>3. Hashable(s)
      BY <2>1, <2>3, <3>1, <3>2 DEF Hashable, Given, Has
    <3>4. UsedUnchecked(base, s) /\ Consistent(s)
      BY <2>2, <3>3
    <3>5. Given(s, "policy") => s["policy"] = old
      BY <3>1, <3>2 DEF Given, old
    <3>6. \A g \in DOMAIN base : base[g] # JsonNull /\ base[g] # Misshapen
      BY <2>1, <2>3 DEF WellFormed, WellShaped
    <3>7. PICK g \in {"capabilities", "tools", "scopes", "risk", "findings"} : Has(s, g) /\ s[g] = JsonNull
      <4>1. \A g \in DOMAIN s : s[g] # Misshapen
        BY <2>2 DEF WellFormed, WellShaped
      <4> QED BY <2>3, <3>4, <3>5, <3>6, <4>1 DEF UsedUnchecked, Has
    <3>8. g = f /\ g \notin {"capabilities", "tools"}
      BY <2>2, <2>3, <3>1, <3>7 DEF WellFormed, Has
    <3>9. g # "risk"
      <4> SUFFICES ASSUME g = "risk" PROVE FALSE
        OBVIOUS
      <4>1. s["records"] = own["records"] /\ own["records"] # JsonNull /\ "records" \in DOMAIN s /\ "risk" \in DOMAIN s
        BY <2>3, <3>1, <3>2, <3>8
      <4>2. s["risk"] = RiskScore(own["records"])
        BY <3>4, <4>1 DEF Consistent, RecordsAgree, Given, Has
      <4> QED BY <2>1, <2>3, <3>2, <3>7, <4>2
    <3> QED BY <2>5, <2>10, <3>8, <3>9
  <2>11. CASE /\ edit \in Editing /\ edit[1] = "blank"
              /\ s = [own EXCEPT !["policy"] = [own["policy"] EXCEPT ![f] = JsonNull]]
    <3>1. DOMAIN s = Field /\ s["policy"] = [old EXCEPT ![f] = JsonNull] /\ \A g \in Field \ {"policy"} : s[g] = own[g]
      BY <2>1, <2>11 DEF old, Field
    <3>2. Hashable(s)
      BY <2>1, <2>3, <3>1 DEF Hashable, Given, Has, Field
    <3>3. f = "suppressions"
      <4> SUFFICES ASSUME f # "suppressions" PROVE FALSE
        OBVIOUS
      <4>1. "suppressions" \in DOMAIN old
        BY <2>1 DEF IsPolicy
      <4>2. s["policy"].suppressions = old.suppressions
        BY <3>1, <4>1
      <4>3. UsedUnchecked(base, s)
        BY <2>2, <3>2
      <4>4. \A g \in DOMAIN base : base[g] # JsonNull /\ base[g] # Misshapen
        BY <2>1, <2>3 DEF WellFormed, WellShaped
      <4>5. \A g \in DOMAIN s : s[g] # Misshapen
        BY <2>2 DEF WellFormed, WellShaped
      <4>6. \A g \in DOMAIN s \ {"policy"} : s[g] # JsonNull
        BY <2>3, <3>1
      <4> QED BY <2>3, <4>2, <4>3, <4>4, <4>5, <4>6 DEF UsedUnchecked, Has
    <3> QED BY <2>5, <2>11, <3>3
  <2>12. CASE edit \in Editing /\ edit[1] = "mar"
    BY <2>12 DEF Editing
  <2> QED BY <2>4, <2>7, <2>8, <2>9, <2>10, <2>11, <2>12
<1>2. Init => BuildInv
  BY BuildStarts
<1>3. BuildInv /\ DiscoveryInv /\ ArtifactInv /\ [Next]_vars => BuildInv'
  BY BuildInductive
<1> QED BY <1>1, <1>2, <1>3, TypeOKAlways, DiscoveryInvAlways, ArtifactAlways, SpecIsSafe, PTL
=============================================================================
