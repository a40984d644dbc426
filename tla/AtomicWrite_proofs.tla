------------------------- MODULE AtomicWrite_proofs -------------------------
(* Machine-checked theorems about AtomicWrite, for every value of its constants. *)
EXTENDS AtomicWrite, TLAPS

FileRecord == [data : {"empty", "part", "whole"}, mode : Mode, synced : BOOLEAN]
Special == {"original", "other", "missing", "link", "directory"}
Position == Running \cup {"start", "done", "error", "dead"}

----------------------------------------------------------------------------
(* Type correctness *)

\* chmod is reached only with a mode to restore.
ChmodHasMode == \A w \in Writer : pc[w] = "chmod" => mode[w] # "none"

\* Where a writer has a temporary file: from its creation to its removal or use.
Holding == {"chmod", "write", "fsync", "recheck", "close", "replace", "unlink"}

\* A writer's temporary name refers to its file, and nobody else's does.
OwnsTemp == \A w \in Writer : pc[w] \in Holding => temp[w] \in TempName /\ dir[temp[w]] = w
TempsAreOwned ==
    \A n \in TempName, w \in Writer : dir[n] = w => temp[w] = n /\ pc[w] \notin {"start", "alloc"}

\* Changing a field of a file, as the steps of a writer do, leaves a file.
LEMMA FileUpdates ==
    ASSUME file \in [File -> FileRecord], NEW w \in Writer,
           \/ UNCHANGED file
           \/ \E m \in Mode : file' = [file EXCEPT ![w].mode = m]
           \/ \E d \in {"empty", "part", "whole"} : file' = [file EXCEPT ![w].data = d]
           \/ file' = [file EXCEPT ![w].synced = TRUE]
    PROVE  file' \in [File -> FileRecord]
<1>1. w \in File /\ file[w] \in FileRecord
  BY DEF File
<1>2. ASSUME NEW m \in Mode, file' = [file EXCEPT ![w].mode = m] PROVE file' \in [File -> FileRecord]
  BY <1>1, <1>2 DEF FileRecord
<1>3. ASSUME NEW d \in {"empty", "part", "whole"}, file' = [file EXCEPT ![w].data = d]
      PROVE  file' \in [File -> FileRecord]
  BY <1>1, <1>3 DEF FileRecord
<1>4. CASE file' = [file EXCEPT ![w].synced = TRUE]
  BY <1>1, <1>4 DEF FileRecord
<1> QED BY <1>2, <1>3, <1>4

\* The mode a writer reads or creates its file with.
LEMMA ModesAreModes ==
    ASSUME TypeOK, NEW w \in Writer
    PROVE  /\ CreateMode(w) \in Mode
           /\ ~Unsafe /\ Target # "missing" => file[Target].mode \in Mode
<1>1. CreateMode(w) \in Mode
  BY DEF TypeOK, CreateMode, Masked, Mode
<1>2. Target \in Entry
  BY DEF TypeOK, Target, Name
<1>3. ~Unsafe /\ Target # "missing" => Target \in File
  BY <1>2 DEF Unsafe, Entry
<1> QED BY <1>1, <1>3 DEF TypeOK

\* Every step keeps the types.
LEMMA TypeInductive ==
    ASSUME TypeOK, ChmodHasMode, OwnsTemp, [Next]_vars PROVE TypeOK' /\ ChmodHasMode'
<1> USE DEF Goto, Abandon, Checked
<1>0. /\ dir \in [Name -> Entry] /\ past \subseteq Entry /\ Target \in Entry
      /\ file \in [File -> FileRecord] /\ pc \in [Writer -> Position]
      /\ temp \in [Writer -> TempName \cup {"none"}] /\ mode \in [Writer -> Mode \cup {"none"}]
      /\ attempts \in [Writer -> 0..MaxAttempts]
      /\ swaps \in 0..MaxSwaps /\ losses \in 0..MaxPowerLoss
      /\ exposed \subseteq Writer /\ visible \subseteq Writer
  BY DEF TypeOK, FileRecord, Position, Target, Name
<1> DEFINE Typed ==
      /\ dir' \in [Name -> Entry] /\ past' \subseteq Entry
      /\ file' \in [File -> FileRecord] /\ pc' \in [Writer -> Position]
      /\ temp' \in [Writer -> TempName \cup {"none"}] /\ mode' \in [Writer -> Mode \cup {"none"}]
      /\ attempts' \in [Writer -> 0..MaxAttempts]
      /\ swaps' \in 0..MaxSwaps /\ losses' \in 0..MaxPowerLoss
      /\ exposed' \subseteq Writer /\ visible' \subseteq Writer
<1> SUFFICES Typed /\ ChmodHasMode'
  BY DEF TypeOK, FileRecord, Position
<1> USE DEF ChmodHasMode, Position, Running
<1>1. ASSUME NEW w \in Writer, Stat(w) PROVE Typed /\ ChmodHasMode'
  <2>1. mode' \in [Writer -> Mode \cup {"none"}]
    BY <1>0, <1>1, ModesAreModes DEF Stat
  <2> QED BY <1>0, <1>1, <2>1 DEF Stat
<1>2. ASSUME NEW w \in Writer, Alloc(w) PROVE Typed /\ ChmodHasMode'
  <2>1. dir' \in [Name -> Entry] /\ past' \subseteq Entry
    BY <1>0, <1>2 DEF Alloc, Link, Entry, File
  <2>2. file' \in [File -> FileRecord]
    <3>1. UNCHANGED file \/ file' = [file EXCEPT ![w].mode = CreateMode(w)]
      BY <1>2 DEF Alloc
    <3>2. CreateMode(w) \in Mode
      BY ModesAreModes
    <3> QED BY <1>0, <3>1, <3>2, FileUpdates
  <2>3. attempts' \in [Writer -> 0..MaxAttempts]
    <3>1. attempts[w] < MaxAttempts => attempts[w] + 1 \in 0..MaxAttempts
      BY <1>0, BoundsAssumption
    <3> QED BY <1>0, <1>2, <3>1 DEF Alloc
  <2>4. temp' \in [Writer -> TempName \cup {"none"}]
    BY <1>0, <1>2 DEF Alloc
  <2>5. /\ \E to \in {"alloc", "write", "chmod", "error"} :
              pc' = [pc EXCEPT ![w] = to] /\ (to = "chmod" => mode[w] # "none")
        /\ UNCHANGED <<mode, swaps, losses, exposed, visible>>
    BY <1>2 DEF Alloc
  <2>6. pc' \in [Writer -> Position] /\ ChmodHasMode'
    BY <1>0, <2>5
  <2> QED BY <1>0, <2>1, <2>2, <2>3, <2>4, <2>5, <2>6
<1>3. ASSUME NEW w \in Writer, Chmod(w) \/ Write(w) \/ Fsync(w) PROVE Typed /\ ChmodHasMode'
  <2>1. file' \in [File -> FileRecord]
    <3>1. CASE Chmod(w)
      <4> mode[w] \in Mode
        BY <1>0, <3>1 DEF Chmod
      <4> QED BY <1>0, <3>1, FileUpdates DEF Chmod
    <3>2. CASE Write(w)
      BY <1>0, <3>2, FileUpdates DEF Write
    <3>3. CASE Fsync(w)
      BY <1>0, <3>3, FileUpdates DEF Fsync
    <3> QED BY <1>3, <3>1, <3>2, <3>3
  <2>2. /\ \E to \in {"write", "fsync", "recheck", "unlink", "error"} : pc' = [pc EXCEPT ![w] = to]
        /\ UNCHANGED <<dir, past, temp, mode, attempts, swaps, losses, exposed, visible>>
    BY <1>3 DEF Chmod, Write, Fsync
  <2>3. pc' \in [Writer -> Position] /\ ChmodHasMode'
    BY <1>0, <2>2
  <2> QED BY <1>0, <2>1, <2>2, <2>3
<1>4. ASSUME NEW w \in Writer, Recheck(w) \/ Close(w) \/ Return(w) \/ Kill(w)
      PROVE  Typed /\ ChmodHasMode'
  BY <1>0, <1>4 DEF Recheck, Close, Return, Kill
<1>5. ASSUME NEW w \in Writer, Replace(w) \/ Unlink(w) PROVE Typed /\ ChmodHasMode'
  <2>1. dir' \in [Name -> Entry] /\ past' \subseteq Entry
    <3>1. temp[w] \in TempName /\ dir[temp[w]] \in Entry
      BY <1>0, <1>5 DEF OwnsTemp, Holding, Replace, Unlink, Entry, File
    <3>2. \A e \in Entry : [dir EXCEPT !["target"] = e, ![temp[w]] = "missing"] \in [Name -> Entry]
      BY <1>0 DEF Entry, Name
    <3>3. [dir EXCEPT ![temp[w]] = "missing"] \in [Name -> Entry]
      BY <1>0 DEF Entry
    <3> QED BY <1>0, <1>5, <3>1, <3>2, <3>3 DEF Replace, Unlink, Link
  <2> QED BY <1>0, <1>5, <2>1 DEF Replace, Unlink
<1>6. CASE Swap
  <2>1. swaps' \in 0..MaxSwaps
    BY <1>0, <1>6, BoundsAssumption DEF Swap
  <2>2. dir' \in [Name -> Entry] /\ past' \subseteq Entry
    <3>1. PICK e \in Entry : Link([dir EXCEPT !["target"] = e])
      BY <1>6 DEF Swap, Foreign
    <3> QED BY <1>0, <3>1 DEF Link
  <2> QED BY <1>0, <1>6, <2>1, <2>2 DEF Swap
<1>7. CASE Flush \/ UNCHANGED vars
  BY <1>0, <1>7 DEF Flush, vars
<1>8. CASE PowerLoss
  <2>1. losses' \in 0..MaxPowerLoss
    BY <1>0, <1>8, BoundsAssumption DEF PowerLoss
  <2>2. dir' \in [Name -> Entry]
    <3>1. PICK e \in past \cup {Target}, gone \in SUBSET {n \in TempName : dir[n] # "missing"} :
             dir' = [n \in Name |-> IF n = "target" THEN e
                                    ELSE IF n \in gone THEN "missing" ELSE dir[n]]
      BY <1>8 DEF PowerLoss
    <3>2. e \in Entry /\ "missing" \in Entry
      BY <1>0 DEF Entry
    <3> QED BY <1>0, <3>1, <3>2
  <2>3. file' \in [File -> FileRecord]
    <3>1. PICK lost \in SUBSET Writer :
             file' = [i \in File |-> IF i \in lost THEN [file[i] EXCEPT !.data = "empty"] ELSE file[i]]
      BY <1>8 DEF PowerLoss
    <3> QED BY <1>0, <3>1 DEF FileRecord
  <2> QED BY <1>0, <1>8, <2>1, <2>2, <2>3 DEF PowerLoss
<1> QED BY <1>1, <1>2, <1>3, <1>4, <1>5, <1>6, <1>7, <1>8 DEF Next

----------------------------------------------------------------------------
(* The inductive invariant *)

\* A writer is visible once it has replaced the path, and only then.
VisibleWhenReplaced ==
    \A w \in Writer :
        /\ pc[w] \in {"replaced", "done"} => w \in visible
        /\ pc[w] \notin {"replaced", "done", "dead"} => w \notin visible

\* The path refers, or may come to refer again, to visible writers only.
PathIsVisible == \A w \in Writer : w \in past \cup {Target} => w \in visible

\* What is visible or about to be is whole and on the disk.
WholeBeforeVisible ==
    /\ \A w \in Writer :
          /\ w \in visible \/ pc[w] \in {"recheck", "close", "replace"} =>
                file[w].data = "whole" /\ file[w].synced
          /\ pc[w] = "fsync" => file[w].data = "whole"
    /\ file["original"].data = "whole" /\ file["other"].data = "whole"

IInv == /\ TypeOK /\ ChmodHasMode /\ OwnsTemp /\ TempsAreOwned
        /\ VisibleWhenReplaced /\ PathIsVisible /\ WholeBeforeVisible

\* No two writers at work hold one temporary name: it is created exclusively.
LEMMA OwnershipInductive ==
    ASSUME IInv, [Next]_vars PROVE OwnsTemp' /\ TempsAreOwned'
<1> USE DEF Goto, Abandon, Holding, OwnsTemp, TempsAreOwned
<1>0. /\ dir \in [Name -> Entry] /\ pc \in [Writer -> Position]
      /\ temp \in [Writer -> TempName \cup {"none"}]
      /\ OwnsTemp /\ TempsAreOwned /\ "missing" \notin Writer
  BY WriterAssumption DEF IInv, TypeOK, Position
<1>1. ASSUME NEW w \in Writer,
             Stat(w) \/ Chmod(w) \/ Write(w) \/ Fsync(w) \/ Recheck(w) \/ Close(w) \/ Return(w) \/ Kill(w)
      PROVE  OwnsTemp' /\ TempsAreOwned'
  <2>1. /\ UNCHANGED <<dir, temp>>
        /\ \E to \in Position \ {"start"} :
              /\ pc' = [pc EXCEPT ![w] = to]
              /\ to \in Holding => pc[w] \in Holding
              /\ to = "alloc" => pc[w] = "start"
    BY <1>1, <1>0 DEF Stat, Chmod, Write, Fsync, Recheck, Close, Return, Kill, Position, Running
  <2> QED BY <1>0, <2>1
<1>2. ASSUME NEW w \in Writer, Alloc(w) PROVE OwnsTemp' /\ TempsAreOwned'
  <2>1. CASE UNCHANGED <<dir, temp>> /\ \E to \in {"alloc", "error"} : pc' = [pc EXCEPT ![w] = to]
    <3>1. pc[w] = "alloc"
      BY <1>2 DEF Alloc
    <3>2. \A m \in TempName : dir[m] # w
      BY <1>0, <3>1
    <3> QED BY <1>0, <2>1, <3>1, <3>2
  <2>2. CASE \E n \in TempName : /\ dir[n] = "missing" /\ dir' = [dir EXCEPT ![n] = w]
                                 /\ temp' = [temp EXCEPT ![w] = n] /\ pc[w] = "alloc"
                                 /\ \E to \in {"write", "chmod"} : pc' = [pc EXCEPT ![w] = to]
    <3>1. PICK n \in TempName : /\ dir[n] = "missing" /\ dir' = [dir EXCEPT ![n] = w]
                                /\ temp' = [temp EXCEPT ![w] = n] /\ pc[w] = "alloc"
                                /\ \E to \in {"write", "chmod"} : pc' = [pc EXCEPT ![w] = to]
      BY <2>2
    <3>2. \A m \in TempName : dir[m] # w
      BY <1>0, <3>1
    <3> QED BY <1>0, <3>1, <3>2 DEF Name
  <2> QED BY <1>2, <2>1, <2>2 DEF Alloc, Link, Taken
<1>3. ASSUME NEW w \in Writer, Replace(w) \/ Unlink(w) PROVE OwnsTemp' /\ TempsAreOwned'
  <2>1. CASE UNCHANGED dir
    BY <1>0, <1>3, <2>1 DEF Replace, Unlink
  <2>2. CASE ~UNCHANGED dir
    <3>1. /\ pc[w] \in Holding /\ UNCHANGED temp
          /\ \E to \in {"replaced", "error"} : pc' = [pc EXCEPT ![w] = to]
          /\ \A n \in TempName : dir'[n] = IF n = temp[w] THEN "missing" ELSE dir[n]
      BY <1>0, <1>3, <2>2, NamesAssumption DEF Replace, Unlink, Link, Name
    <3> QED BY <1>0, <3>1
  <2> QED BY <2>1, <2>2
<1>4. CASE Swap \/ Flush \/ UNCHANGED vars
  <2>1. UNCHANGED <<pc, temp>> /\ \A n \in TempName : dir'[n] = dir[n]
    BY <1>0, <1>4, NamesAssumption DEF Swap, Flush, vars, Link, Name
  <2> QED BY <1>0, <2>1
<1>5. CASE PowerLoss
  <2>1. /\ UNCHANGED temp
        /\ \A n \in TempName : dir'[n] \in {dir[n], "missing"}
        /\ \A w \in Writer : pc'[w] = IF pc[w] \in Running THEN "dead" ELSE pc[w]
    BY <1>5, NamesAssumption DEF PowerLoss, Name
  <2> QED BY <1>0, <2>1 DEF Running
<1> QED BY <1>1, <1>2, <1>3, <1>4, <1>5 DEF Next

\* A writer's file is at the path, or in its past, only after its replace step.
LEMMA VisibilityInductive ==
    ASSUME IInv, [Next]_vars PROVE VisibleWhenReplaced' /\ PathIsVisible'
<1> USE DEF Goto, Abandon, VisibleWhenReplaced, PathIsVisible
<1>0. /\ dir \in [Name -> Entry] /\ pc \in [Writer -> Position] /\ visible \subseteq Writer
      /\ OwnsTemp /\ VisibleWhenReplaced /\ PathIsVisible
  BY DEF IInv, TypeOK, Position
<1>1. ASSUME NEW w \in Writer,
             Stat(w) \/ Chmod(w) \/ Write(w) \/ Fsync(w) \/ Recheck(w) \/ Close(w) \/ Return(w) \/ Kill(w)
      PROVE  VisibleWhenReplaced' /\ PathIsVisible'
  <2>1. /\ UNCHANGED <<dir, past, visible>>
        /\ \E to \in Position \ {"start"} :
              /\ pc' = [pc EXCEPT ![w] = to]
              /\ to \in {"replaced", "done"} => pc[w] = "replaced"
              /\ to \notin {"replaced", "done", "dead"} => pc[w] \notin {"replaced", "done", "dead"}
    BY <1>1, <1>0 DEF Stat, Chmod, Write, Fsync, Recheck, Close, Return, Kill, Position, Running
  <2> QED BY <1>0, <2>1 DEF Target
<1>2. ASSUME NEW w \in Writer, Alloc(w) \/ Unlink(w) PROVE VisibleWhenReplaced' /\ PathIsVisible'
  <2>1. /\ UNCHANGED visible /\ pc[w] \in {"alloc", "unlink"}
        /\ \E to \in {"alloc", "write", "chmod", "error"} : pc' = [pc EXCEPT ![w] = to]
    BY <1>2 DEF Alloc, Unlink
  <2>2. dir'["target"] = dir["target"] /\ past' \subseteq past \cup {Target}
    BY <1>0, <1>2, NamesAssumption DEF Alloc, Unlink, Link, OwnsTemp, Holding, Name
  <2> QED BY <1>0, <2>1, <2>2 DEF Target
<1>3. ASSUME NEW w \in Writer, Replace(w) PROVE VisibleWhenReplaced' /\ PathIsVisible'
  <2>1. temp[w] \in TempName /\ dir[temp[w]] = w
    BY <1>0, <1>3 DEF Replace, OwnsTemp, Holding
  <2>2. CASE UNCHANGED dir
    BY <1>0, <1>3, <2>1, <2>2, NamesAssumption DEF Replace, Link, Target, Name
  <2>3. CASE ~UNCHANGED dir
    <3>1. /\ pc' = [pc EXCEPT ![w] = "replaced"] /\ visible' = visible \cup {w}
          /\ past' = past \cup {Target}
      BY <1>3, <2>3 DEF Replace, Link
    <3>2. dir'["target"] = w
      BY <1>0, <1>3, <2>1, <2>3, NamesAssumption DEF Replace, Link, Name
    <3> QED BY <1>0, <3>1, <3>2 DEF Target
  <2> QED BY <2>2, <2>3
<1>4. CASE Swap
  BY <1>0, <1>4 DEF Swap, Link, Target, Foreign, Name
<1>5. CASE Flush \/ UNCHANGED vars
  BY <1>0, <1>5 DEF Flush, vars, Target
<1>6. CASE PowerLoss
  <2>1. /\ UNCHANGED visible /\ past' = {}
        /\ dir'["target"] \in past \cup {Target}
        /\ \A w \in Writer : pc'[w] \in {pc[w], "dead"}
    BY <1>6 DEF PowerLoss, Name
  <2> QED BY <1>0, <2>1 DEF Target
<1> QED BY <1>1, <1>2, <1>3, <1>4, <1>5, <1>6 DEF Next

\* Until its file is visible, what a writer has written and synced goes with its position.
LEMMA WholenessInductive == ASSUME IInv, [Next]_vars PROVE WholeBeforeVisible'
<1> USE DEF Goto, Abandon, WholeBeforeVisible
<1>0. /\ pc \in [Writer -> Position] /\ visible \subseteq Writer /\ file \in [File -> FileRecord]
      /\ VisibleWhenReplaced /\ WholeBeforeVisible
      /\ Writer \subseteq File /\ "original" \in File \ Writer /\ "other" \in File \ Writer
  BY WriterAssumption DEF IInv, TypeOK, Position, FileRecord, File
<1>1. ASSUME NEW w \in Writer,
             Stat(w) \/ Recheck(w) \/ Close(w) \/ Unlink(w) \/ Return(w) \/ Kill(w) \/ Replace(w)
      PROVE  WholeBeforeVisible'
  <2>1. /\ UNCHANGED file /\ visible' \subseteq visible \cup {w}
        /\ \E to \in Position \ {"fsync", "recheck"} :
              /\ pc' = [pc EXCEPT ![w] = to]
              /\ to \in {"close", "replace"} => pc[w] \in {"recheck", "close"}
        /\ w \in visible' \ visible => pc[w] = "replace"
    BY <1>1, <1>0 DEF Stat, Recheck, Close, Unlink, Return, Kill, Replace, Position, Running
  <2> QED BY <1>0, <2>1
<1>2. ASSUME NEW w \in Writer, Alloc(w) \/ Chmod(w) \/ Write(w) \/ Fsync(w)
      PROVE  WholeBeforeVisible'
  <2>1. /\ UNCHANGED visible /\ w \notin visible
        /\ pc[w] \in {"alloc", "chmod", "write", "fsync"}
        /\ \E to \in {"alloc", "chmod", "write", "fsync", "recheck", "unlink", "error"} :
              pc' = [pc EXCEPT ![w] = to]
    BY <1>0, <1>2 DEF Alloc, Chmod, Write, Fsync, VisibleWhenReplaced
  <2>2. \A i \in File : i # w => file'[i] = file[i]
    BY <1>0, <1>2 DEF Alloc, Chmod, Write, Fsync
  <2>3. pc'[w] = "recheck" => file'[w].data = "whole" /\ file'[w].synced
    <3>1. pc'[w] = "recheck" => Fsync(w)
      BY <1>0, <1>2 DEF Alloc, Chmod, Write
    <3>2. CASE Fsync(w)
      <4>1. file[w].data = "whole" /\ file[w] \in FileRecord
        BY <1>0, <3>2 DEF Fsync
      <4>2. pc'[w] = "recheck" => file' = [file EXCEPT ![w].synced = TRUE]
        BY <1>0, <3>2 DEF Fsync
      <4> QED BY <1>0, <4>1, <4>2 DEF FileRecord
    <3> QED BY <3>1, <3>2
  <2>4. pc'[w] = "fsync" => file'[w].data = "whole"
    <3>1. pc'[w] = "fsync" => Write(w)
      BY <1>0, <1>2 DEF Alloc, Chmod, Fsync
    <3>2. CASE Write(w)
      <4>1. pc'[w] = "fsync" => file' = [file EXCEPT ![w].data = "whole"]
        BY <1>0, <3>2 DEF Write
      <4> QED BY <1>0, <4>1 DEF FileRecord
    <3> QED BY <3>1, <3>2
  <2> QED BY <1>0, <2>1, <2>2, <2>3, <2>4
<1>3. CASE Swap \/ Flush \/ UNCHANGED vars
  BY <1>0, <1>3 DEF Swap, Flush, vars
<1>4. CASE PowerLoss
  <2>1. UNCHANGED visible /\ \A w \in Writer : pc'[w] = IF pc[w] \in Running THEN "dead" ELSE pc[w]
    BY <1>4 DEF PowerLoss
  <2>2. \A i \in File : i \notin Writer \/ file[i].synced => file'[i] = file[i]
    BY <1>0, <1>4 DEF PowerLoss
  <2> QED BY <1>0, <2>1, <2>2 DEF Running
<1> QED BY <1>1, <1>2, <1>3, <1>4 DEF Next

\* What a writer's position says of its temporary name, its file and the path.
THEOREM IInvAlways == Spec => []IInv
<1>1. Init => IInv
  BY NamesAssumption, WriterAssumption, BoundsAssumption
     DEF Init, IInv, TypeOK, ChmodHasMode, OwnsTemp, TempsAreOwned, Holding, VisibleWhenReplaced,
         PathIsVisible, WholeBeforeVisible, Name, Entry, File, Mode, Target, Running
<1>2. IInv /\ [Next]_vars => IInv'
  BY TypeInductive, OwnershipInductive, VisibilityInductive, WholenessInductive DEF IInv
<1> QED BY <1>1, <1>2, PTL DEF Spec

\* Every variable of the output writer keeps its type.
THEOREM TypeCorrect == Spec => []TypeOK
<1>1. IInv => TypeOK
  BY DEF IInv
<1> QED BY <1>1, IInvAlways, PTL

----------------------------------------------------------------------------
(* Temporary files *)

\* A temporary name refers to a file only while its writer holds it or after it was killed.
TempsInUse == \A n \in TempName, w \in Writer : dir[n] = w => pc[w] \in Holding \cup {"dead"}

\* Unless a close or an unlink fails, no failure of a call leaves its temporary file
\* behind, for any number of writers, names, swaps and power losses.
THEOREM NoTempEverLeft ==
    ASSUME {"close", "unlink"} \cap Faults = {}
    PROVE  Spec => []NoTempLeft
<1>1. Init => TempsInUse
  BY WriterAssumption, NamesAssumption DEF Init, TempsInUse, Name
<1>2. IInv /\ TempsInUse /\ [Next]_vars => TempsInUse'
  <2> SUFFICES ASSUME IInv, TempsInUse, [Next]_vars,
                      NEW n \in TempName, NEW w \in Writer, dir'[n] = w
               PROVE  pc'[w] \in Holding \cup {"dead"}
    BY DEF TempsInUse
  <2> USE DEF Goto, Abandon, Holding
  <2>0. /\ dir \in [Name -> Entry] /\ pc \in [Writer -> Position] /\ n \in Name
        /\ dir[n] = w => pc[w] \in Holding \cup {"dead"} /\ temp[w] = n
        /\ \A v \in Writer : pc[v] \in Holding => temp[v] \in TempName /\ dir[temp[v]] = v
        /\ w # "missing"
    BY WriterAssumption DEF IInv, TypeOK, Position, TempsInUse, TempsAreOwned, OwnsTemp, Name
  <2>1. ASSUME NEW v \in Writer,
               Stat(v) \/ Chmod(v) \/ Write(v) \/ Fsync(v) \/ Recheck(v) \/ Close(v) \/ Return(v) \/ Kill(v)
        PROVE  pc'[w] \in Holding \cup {"dead"}
    <3>1. UNCHANGED dir
      BY <2>1 DEF Stat, Chmod, Write, Fsync, Recheck, Close, Return, Kill
    <3>2. CASE v # w
      BY <2>0, <2>1, <3>1, <3>2 DEF Stat, Chmod, Write, Fsync, Recheck, Close, Return, Kill
    <3>3. CASE v = w
      BY <2>0, <2>1, <3>1, <3>3
         DEF Stat, Chmod, Write, Fsync, Recheck, Close, Return, Kill, MayFail
    <3> QED BY <3>2, <3>3
  <2>2. ASSUME NEW v \in Writer, Alloc(v) PROVE pc'[w] \in Holding \cup {"dead"}
    <3>1. CASE UNCHANGED dir
      <4>1. v # w
        BY <2>0, <2>2, <3>1 DEF Alloc
      <4> QED BY <2>0, <2>2, <3>1, <4>1 DEF Alloc
    <3>2. CASE \E m \in TempName : /\ dir' = [dir EXCEPT ![m] = v] /\ pc[v] = "alloc"
                                   /\ \E to \in {"write", "chmod"} : pc' = [pc EXCEPT ![v] = to]
      <4>1. v = w \/ dir[n] = w
        BY <2>0, <3>2
      <4> QED BY <2>0, <3>2, <4>1
    <3> QED BY <2>2, <3>1, <3>2 DEF Alloc, Link
  <2>3. ASSUME NEW v \in Writer, Replace(v) \/ Unlink(v) PROVE pc'[w] \in Holding \cup {"dead"}
    <3>1. CASE UNCHANGED dir /\ Replace(v) /\ pc' = [pc EXCEPT ![v] = "unlink"]
      BY <2>0, <3>1
    <3>2. CASE ~(UNCHANGED dir /\ Replace(v) /\ pc' = [pc EXCEPT ![v] = "unlink"])
      <4>1. /\ pc[v] \in Holding /\ n # "target"
            /\ \E to \in {"replaced", "error"} : pc' = [pc EXCEPT ![v] = to]
            /\ dir'[n] = IF n = temp[v] THEN "missing" ELSE dir[n]
        BY <2>0, <2>3, <3>2, NamesAssumption DEF Replace, Unlink, Link, MayFail, Name
      <4>2. v # w
        BY <2>0, <4>1
      <4> QED BY <2>0, <4>1, <4>2
    <3> QED BY <3>1, <3>2
  <2>4. CASE Swap \/ Flush \/ UNCHANGED vars
    BY <2>0, <2>4, NamesAssumption DEF Swap, Flush, vars, Link, Name
  <2>5. CASE PowerLoss
    <3>1. dir[n] = w
      BY <2>0, <2>5, NamesAssumption DEF PowerLoss
    <3> QED BY <2>0, <2>5, <3>1 DEF PowerLoss
  <2> QED BY <2>1, <2>2, <2>3, <2>4, <2>5 DEF Next
<1>3. TempsInUse => NoTempLeft
  BY DEF TempsInUse, NoTempLeft, Holding, Running
<1> QED BY <1>1, <1>2, <1>3, IInvAlways, PTL DEF Spec

----------------------------------------------------------------------------
(* Links *)

\* A writer that has checked the path and was not raced since finds no link there.
CheckStillHolds ==
    \A w \in Writer : pc[w] \in {"close", "replace"} /\ w \notin exposed => Target # "link"

\* A link is replaced only if it was put at the path after the writer's last check.
THEOREM ReplacesOnlyWhatItCheckedAlways == Spec => ReplacesOnlyWhatItChecked
<1> DEFINE Step == \A w \in Writer : dir["target"] = "link" /\ dir'["target"] = w /\ losses' = losses
                                       => w \in exposed
<1>0. IInv => /\ dir \in [Name -> Entry] /\ pc \in [Writer -> Position]
              /\ OwnsTemp /\ TempsAreOwned /\ "link" \notin Writer
              /\ losses \in Nat
  BY WriterAssumption, BoundsAssumption DEF IInv, TypeOK, Position
<1>1. Init => CheckStillHolds
  BY DEF Init, CheckStillHolds
<1>2. IInv /\ CheckStillHolds /\ [Next]_vars => CheckStillHolds'
  <2> SUFFICES ASSUME IInv, CheckStillHolds, [Next]_vars PROVE CheckStillHolds'
    OBVIOUS
  <2> USE DEF Goto, Abandon, Checked, CheckStillHolds
  <2>1. ASSUME NEW w \in Writer, Stat(w) \/ Recheck(w) PROVE CheckStillHolds'
    BY <1>0, <2>1 DEF Stat, Recheck, Unsafe, Target
  <2>2. ASSUME NEW w \in Writer, Chmod(w) \/ Write(w) \/ Fsync(w) \/ Close(w) \/ Return(w) \/ Kill(w)
        PROVE  CheckStillHolds'
    BY <1>0, <2>2 DEF Chmod, Write, Fsync, Close, Return, Kill, Target
  <2>3. ASSUME NEW w \in Writer, Alloc(w) \/ Unlink(w) PROVE CheckStillHolds'
    <3>1. /\ UNCHANGED exposed /\ dir'["target"] = dir["target"]
          /\ \E to \in {"alloc", "write", "chmod", "error"} : pc' = [pc EXCEPT ![w] = to]
      BY <1>0, <2>3, NamesAssumption DEF Alloc, Unlink, Link, OwnsTemp, Holding, Name
    <3> QED BY <1>0, <3>1 DEF Target
  <2>4. ASSUME NEW w \in Writer, Replace(w) PROVE CheckStillHolds'
    <3>1. /\ UNCHANGED exposed /\ dir'["target"] \in {dir["target"], w}
          /\ \E to \in {"replaced", "unlink"} : pc' = [pc EXCEPT ![w] = to]
      BY <1>0, <2>4, NamesAssumption DEF Replace, Link, OwnsTemp, Holding, Name
    <3> QED BY <1>0, <3>1 DEF Target
  <2>5. CASE Swap \/ Flush \/ UNCHANGED vars
    BY <1>0, <2>5 DEF Swap, Flush, vars, Target
  <2>6. CASE PowerLoss
    BY <1>0, <2>6 DEF PowerLoss, Running
  <2> QED BY <2>1, <2>2, <2>3, <2>4, <2>5, <2>6 DEF Next
<1>3. IInv /\ CheckStillHolds /\ [Next]_vars => [Step]_vars
  <2> SUFFICES ASSUME IInv, CheckStillHolds, Next,
                      NEW w \in Writer, dir["target"] = "link", dir'["target"] = w, losses' = losses
               PROVE  w \in exposed
    BY DEF vars
  <2>1. ASSUME dir' = dir PROVE FALSE
    BY <1>0, <2>1
  <2>2. ASSUME NEW v \in Writer, Alloc(v) \/ Unlink(v) PROVE FALSE
    BY <1>0, <2>2, NamesAssumption DEF Alloc, Unlink, Link, OwnsTemp, Holding, Goto, Name
  <2>3. ASSUME NEW v \in Writer, Replace(v) PROVE w \in exposed
    <3>1. pc[v] = "replace" /\ dir[temp[v]] = v /\ temp[v] \in TempName
      BY <1>0, <2>3 DEF Replace, OwnsTemp, Holding, Goto
    <3>2. v = w
      BY <1>0, <2>3, <3>1, NamesAssumption DEF Replace, Link, Name
    <3> QED BY <3>1, <3>2 DEF CheckStillHolds, Target
  <2>4. CASE Swap
    BY <1>0, <2>4 DEF Swap, Link, Foreign, Name
  <2>5. CASE PowerLoss
    BY <1>0, <2>5 DEF PowerLoss
  <2> QED BY <1>0, <2>1, <2>2, <2>3, <2>4, <2>5
          DEF Next, Stat, Chmod, Write, Fsync, Recheck, Close, Return, Kill, Flush
<1> QED BY <1>1, <1>2, <1>3, IInvAlways, PTL DEF Spec, ReplacesOnlyWhatItChecked

----------------------------------------------------------------------------
(* The mode of the path *)

\* Where a writer's file has the mode it will have at the path.
Settled == {"write", "fsync", "recheck", "close", "replace"}

\* The path has mode m now and ever, or may be missing if m is the default, and so has
\* every file on its way there.
OneMode(m) ==
    /\ \A e \in past \cup {Target} : (e \in File /\ file[e].mode = m) \/ (e = "missing" /\ m = "default")
    /\ \A w \in Writer :
          /\ pc[w] \in Holding \cup {"alloc"} => mode[w] = m \/ (mode[w] = "none" /\ m = "default")
          /\ pc[w] \in Settled => file[w].mode = m

\* The path is no file, and nobody gets past the first check.
Closed ==
    /\ \A e \in past \cup {Target} : e \in {"link", "directory"}
    /\ \A w \in Writer : pc[w] \notin Running

\* With nobody else replacing the path, its mode is settled from the start.
ModeIsSettled == swaps = 0 => Closed \/ \E m \in Mode : OneMode(m)

\* What the proofs of the next two lemmas use of the invariant.
LEMMA IInvFacts ==
    ASSUME IInv
    PROVE  /\ dir \in [Name -> Entry] /\ pc \in [Writer -> Position]
           /\ file \in [File -> FileRecord] /\ mode \in [Writer -> Mode \cup {"none"}]
           /\ Writer \cap Special = {} /\ Writer \subseteq File
           /\ \A w \in Writer : pc[w] \in Holding => temp[w] \in TempName /\ dir[temp[w]] = w
           /\ \A w \in Writer : pc[w] \in Running \ {"replaced"} => w \notin past \cup {Target}
           /\ \A w \in Writer : pc[w] = "chmod" => mode[w] # "none"
           /\ "target" \in Name /\ "target" \notin TempName /\ TempName \subseteq Name
BY WriterAssumption, NamesAssumption
   DEF IInv, TypeOK, Position, FileRecord, Special, File, OwnsTemp, PathIsVisible, VisibleWhenReplaced,
       Running, ChmodHasMode, Name

\* A descriptor a writer still has to close is open.
LEMMA ClosedInductive ==
    ASSUME IInv, Closed, [Next]_vars, swaps' = swaps PROVE Closed'
<1> USE DEF Goto, Abandon, Closed, Running
<1>0. /\ pc \in [Writer -> Position] /\ Target \in {"link", "directory"}
      /\ \A w \in Writer : pc[w] \in {"start", "done", "error", "dead"}
  BY IInvFacts DEF Position
<1>1. ASSUME NEW w \in Writer, Stat(w) PROVE Closed'
  BY <1>0, <1>1 DEF Stat, Unsafe, Target
<1>2. ASSUME NEW w \in Writer,
             Alloc(w) \/ Chmod(w) \/ Write(w) \/ Fsync(w) \/ Recheck(w) \/ Close(w) \/ Replace(w)
             \/ Unlink(w) \/ Return(w) \/ Kill(w)
      PROVE  FALSE
  BY <1>0, <1>2 DEF Alloc, Chmod, Write, Fsync, Recheck, Close, Replace, Unlink, Return, Kill
<1>3. CASE Swap
  <2> swaps \in Nat
    BY BoundsAssumption DEF IInv, TypeOK
  <2> QED BY <1>3 DEF Swap
<1>4. CASE Flush \/ UNCHANGED vars
  BY <1>4 DEF Flush, vars, Target
<1>5. CASE PowerLoss
  <2>1. dir'["target"] \in past \cup {Target} /\ past' = {}
    BY <1>5 DEF PowerLoss, Name
  <2>2. \A w \in Writer : pc'[w] = pc[w]
    BY <1>5, <1>0 DEF PowerLoss
  <2> QED BY <2>1, <2>2 DEF Target
<1> QED BY <1>1, <1>2, <1>3, <1>4, <1>5 DEF Next

\* Files that replaced one another at the path have one mode.
LEMMA OneModeInductive ==
    ASSUME IInv, NEW m \in Mode, OneMode(m), [Next]_vars, swaps' = swaps PROVE OneMode(m)'
<1> USE DEF Goto, Abandon, OneMode, Holding, Settled
<1>0. /\ dir \in [Name -> Entry] /\ pc \in [Writer -> Position]
      /\ file \in [File -> FileRecord] /\ mode \in [Writer -> Mode \cup {"none"}]
      /\ Writer \cap Special = {} /\ Writer \subseteq File
      /\ \A w \in Writer : pc[w] \in Holding => temp[w] \in TempName /\ dir[temp[w]] = w
      /\ \A w \in Writer : pc[w] \in Running \ {"replaced"} => w \notin past \cup {Target}
      /\ \A w \in Writer : pc[w] = "chmod" => mode[w] # "none"
      /\ "target" \in Name /\ "target" \notin TempName /\ TempName \subseteq Name
      /\ m \in {"shared", "default"} /\ "none" \notin Mode
  BY IInvFacts DEF Mode
<1>1. ASSUME NEW w \in Writer, Stat(w) PROVE OneMode(m)'
  <2>1. /\ UNCHANGED <<dir, past, file>>
        /\ \A v \in Writer : v # w => pc'[v] = pc[v] /\ mode'[v] = mode[v]
        /\ \/ pc'[w] = "error"
           \/ pc'[w] = "alloc" /\ mode'[w] = (IF Target = "missing" THEN "none" ELSE file[Target].mode)
    BY <1>0, <1>1 DEF Stat
  <2>2. Target = "missing" \/ Target \in File
    OBVIOUS
  <2>3. "missing" \notin File
    BY <1>0 DEF File, Special
  <2> QED BY <2>1, <2>2, <2>3 DEF Target
<1>2. ASSUME NEW w \in Writer, Alloc(w) PROVE OneMode(m)'
  <2>1. pc[w] = "alloc" /\ UNCHANGED mode /\ w \notin past \cup {Target}
    BY <1>0, <1>2 DEF Alloc, Running
  <2>2. dir'["target"] = dir["target"] /\ past' \subseteq past \cup {Target}
    BY <1>0, <1>2 DEF Alloc, Link
  <2>3. CreateMode(w) \in Mode /\ (mode[w] = "none" => CreateMode(w) = m)
    <3>1. mode[w] = "none" => m = "default"
      BY <1>0, <2>1
    <3> QED BY <1>0, <3>1 DEF CreateMode, Masked, Mode
  <2>4. CASE UNCHANGED file /\ \E to \in {"alloc", "error"} : pc' = [pc EXCEPT ![w] = to]
    BY <1>0, <2>1, <2>2, <2>4 DEF Target
  <2>5. CASE /\ file' = [file EXCEPT ![w].mode = CreateMode(w)]
             /\ pc' = [pc EXCEPT ![w] = IF mode[w] = "none" THEN "write" ELSE "chmod"]
    <3>1. \A i \in File : i # w => file'[i] = file[i]
      BY <1>0, <2>5
    <3>2. file'[w].mode = CreateMode(w)
      BY <1>0, <2>5 DEF FileRecord
    <3> QED BY <1>0, <2>1, <2>2, <2>3, <2>5, <3>1, <3>2 DEF Target
  <2> QED BY <1>2, <2>4, <2>5 DEF Alloc
<1>3. ASSUME NEW w \in Writer, Chmod(w) PROVE OneMode(m)'
  <2>1. pc[w] = "chmod" /\ UNCHANGED <<dir, past, mode>> /\ w \notin past \cup {Target} /\ mode[w] = m
    BY <1>0, <1>3 DEF Chmod, Running
  <2>2. \A i \in File : i # w => file'[i] = file[i]
    BY <1>0, <1>3 DEF Chmod
  <2>3. \/ \E to \in {"unlink", "error"} : pc' = [pc EXCEPT ![w] = to]
        \/ pc' = [pc EXCEPT ![w] = "write"] /\ file' = [file EXCEPT ![w].mode = mode[w]]
    BY <1>3 DEF Chmod
  <2>4. pc'[w] = "write" => file'[w].mode = m
    BY <1>0, <2>1, <2>3 DEF FileRecord
  <2> QED BY <1>0, <2>1, <2>2, <2>3, <2>4 DEF Target
<1>4. ASSUME NEW w \in Writer, Write(w) \/ Fsync(w) PROVE OneMode(m)'
  <2>1. /\ pc[w] \in {"write", "fsync"} /\ UNCHANGED <<dir, past, mode>> /\ w \notin past \cup {Target}
        /\ \E to \in {"write", "fsync", "recheck", "unlink", "error"} : pc' = [pc EXCEPT ![w] = to]
    BY <1>0, <1>4 DEF Write, Fsync, Running
  <2>2. \A i \in File : file'[i].mode = file[i].mode
    BY <1>0, <1>4 DEF Write, Fsync, FileRecord
  <2> QED BY <1>0, <2>1, <2>2 DEF Target
<1>5. ASSUME NEW w \in Writer, Recheck(w) \/ Close(w) \/ Return(w) \/ Kill(w) PROVE OneMode(m)'
  <2>1. /\ UNCHANGED <<dir, past, mode, file>>
        /\ \E to \in {"close", "replace", "unlink", "done", "error", "dead"} :
              /\ pc' = [pc EXCEPT ![w] = to]
              /\ to \in {"close", "replace"} => pc[w] \in {"recheck", "close"}
              /\ to = "unlink" => pc[w] = "recheck"
    BY <1>5 DEF Recheck, Close, Return, Kill
  <2> QED BY <1>0, <2>1 DEF Target
<1>6. ASSUME NEW w \in Writer, Unlink(w) PROVE OneMode(m)'
  <2>1. /\ dir'["target"] = dir["target"] /\ past' \subseteq past \cup {Target}
        /\ UNCHANGED <<mode, file>> /\ pc' = [pc EXCEPT ![w] = "error"]
    BY <1>0, <1>6 DEF Unlink, Link
  <2> QED BY <1>0, <2>1 DEF Target
<1>7. ASSUME NEW w \in Writer, Replace(w) PROVE OneMode(m)'
  <2>1. /\ dir'["target"] \in {dir["target"], w} /\ past' \subseteq past \cup {Target}
        /\ UNCHANGED <<mode, file>> /\ pc[w] = "replace"
        /\ \E to \in {"replaced", "unlink"} : pc' = [pc EXCEPT ![w] = to]
    BY <1>0, <1>7 DEF Replace, Link
  <2> QED BY <1>0, <2>1 DEF Target
<1>8. CASE Swap
  <2> swaps \in Nat
    BY BoundsAssumption DEF IInv, TypeOK
  <2> QED BY <1>8 DEF Swap
<1>9. CASE Flush \/ UNCHANGED vars
  BY <1>9 DEF Flush, vars, Target
<1>10. CASE PowerLoss
  <2>1. dir'["target"] \in past \cup {Target} /\ past' = {} /\ UNCHANGED mode
    BY <1>10 DEF PowerLoss, Name
  <2>2. \A w \in Writer : pc'[w] \in {pc[w], "dead"}
    BY <1>10, <1>0 DEF PowerLoss
  <2>3. \A i \in File : file'[i].mode = file[i].mode
    BY <1>10, <1>0 DEF PowerLoss, FileRecord
  <2> QED BY <1>0, <2>1, <2>2, <2>3 DEF Target
<1> QED BY <1>1, <1>2, <1>3, <1>4, <1>5, <1>6, <1>7, <1>8, <1>9, <1>10 DEF Next

\* However many writers overlap, are killed or lose power, replacing a file keeps its
\* mode, as long as nobody else replaces the path.
THEOREM KeepsModeAlways == Spec => KeepsMode
<1> DEFINE Step == \A w \in Writer : swaps = 0 /\ Target \in File /\ w \notin visible /\ w \in visible'
                                       => file'[w].mode = file[Target].mode
<1>1. Init => ModeIsSettled
  <2> SUFFICES ASSUME Init PROVE Closed \/ \E m \in Mode : OneMode(m)
    BY DEF ModeIsSettled
  <2>1. Target \in {"original", "missing", "link", "directory"} /\ past = {}
    BY DEF Init, Target, Name
  <2>2. CASE Target \in {"link", "directory"}
    BY <2>1, <2>2 DEF Init, Closed, Running
  <2>3. CASE Target = "original"
    <3>1. OneMode("shared")
      BY <2>1, <2>3, WriterAssumption DEF Init, OneMode, File, Holding, Settled
    <3> QED BY <3>1 DEF Mode
  <2>4. CASE Target = "missing"
    <3>1. OneMode("default")
      BY <2>1, <2>4 DEF Init, OneMode, Holding, Settled
    <3> QED BY <3>1 DEF Mode
  <2> QED BY <2>1, <2>2, <2>3, <2>4
<1>2. IInv /\ ModeIsSettled /\ [Next]_vars => ModeIsSettled'
  <2> SUFFICES ASSUME IInv, ModeIsSettled, [Next]_vars, swaps' = 0 PROVE ModeIsSettled'
    BY DEF ModeIsSettled
  <2>1. swaps = 0
    <3>1. swaps \in Nat
      BY BoundsAssumption DEF IInv, TypeOK
    <3>2. swaps' \in {swaps, swaps + 1}
      BY DEF Next, vars, Stat, Alloc, Chmod, Write, Fsync, Recheck, Close, Replace, Unlink, Return,
             Kill, Swap, Flush, PowerLoss
    <3> QED BY <3>1, <3>2
  <2>2. CASE Closed
    BY <2>1, <2>2, ClosedInductive DEF ModeIsSettled
  <2>3. ASSUME NEW m \in Mode, OneMode(m) PROVE ModeIsSettled'
    <3>1. OneMode(m)'
      BY <2>1, <2>3, OneModeInductive
    <3> QED BY <3>1 DEF ModeIsSettled
  <2> QED BY <2>1, <2>2, <2>3 DEF ModeIsSettled
<1>3. IInv /\ ModeIsSettled /\ [Next]_vars => [Step]_vars
  <2> SUFFICES ASSUME IInv, ModeIsSettled, Next, NEW w \in Writer,
                      swaps = 0, Target \in File, w \notin visible, w \in visible'
               PROVE  file'[w].mode = file[Target].mode
    BY DEF vars
  <2>1. Replace(w)
    <3>1. PICK v \in Writer : Replace(v)
      BY DEF Next, Stat, Alloc, Chmod, Write, Fsync, Recheck, Close, Unlink, Return, Kill, Swap, Flush,
             PowerLoss
    <3> QED BY <3>1 DEF Replace
  <2>2. pc[w] = "replace" /\ UNCHANGED file
    BY <2>1 DEF Replace, Goto
  <2>3. ~Closed
    BY <2>2 DEF Closed, Running
  <2>4. PICK m \in Mode : OneMode(m)
    BY <2>3 DEF ModeIsSettled
  <2>5. Target # "missing"
    BY WriterAssumption DEF File
  <2> QED BY <2>2, <2>4, <2>5 DEF OneMode, Settled
<1> QED BY <1>1, <1>2, <1>3, IInvAlways, PTL DEF Spec, KeepsMode

----------------------------------------------------------------------------
(* Refinement *)

ResultOf(p) == CASE p = "done" -> "ok" [] p = "error" -> "error" [] p = "dead" -> "dead" [] OTHER -> "none"
Results == [w \in Writer |-> ResultOf(pc[w])]

\* What a position reports, case by case.
LEMMA ResultsOfPositions ==
    /\ ResultOf("done") = "ok" /\ ResultOf("error") = "error" /\ ResultOf("dead") = "dead"
    /\ \A p \in Running \cup {"start"} : ResultOf(p) = "none"
<1>1. ResultOf("done") = "ok"
  BY DEF ResultOf
<1>2. ResultOf("error") = "error"
  BY DEF ResultOf
<1>3. ResultOf("dead") = "dead"
  BY DEF ResultOf
<1>4. \A p \in Running \cup {"start"} : ResultOf(p) = "none"
  BY DEF ResultOf, Running
<1> QED BY <1>1, <1>2, <1>3, <1>4

\* The variables of the abstract file, as long as what the path refers to, or may
\* again, is not torn.
Mapped ==
    /\ Value(Target) = Target
    /\ {Value(e) : e \in past \cup {Target}} = past \cup {Target}
    /\ Result = Results

\* Everything at the path or in its past is whole.
LEMMA NothingIsTorn == IInv => Mapped
<1> SUFFICES ASSUME IInv PROVE Mapped
  OBVIOUS
<1>1. /\ \A w \in Writer : w \in past \cup {Target} => file[w].data = "whole"
      /\ file["original"].data = "whole" /\ file["other"].data = "whole"
  BY DEF IInv, PathIsVisible, WholeBeforeVisible
<1>2. \A e \in past \cup {Target} : Value(e) = e
  BY <1>1 DEF Value, File
<1>3. Result = Results
  BY DEF Result, Results, ResultOf
<1> QED BY <1>2, <1>3 DEF Mapped

\* Every step of the writer, read through the mapping, is a step of the abstract file.
LEMMA StepMaps ==
    ASSUME IInv, IInv', Mapped, Mapped', [Next]_vars
    PROVE  [Atomic!Next]_Atomic!vars
<1> USE DEF Goto, Abandon
<1>0. /\ dir \in [Name -> Entry] /\ pc \in [Writer -> Position] /\ visible \subseteq Writer
      /\ VisibleWhenReplaced /\ OwnsTemp /\ "target" \in Name /\ Target \in Entry
      /\ Writer \cap Special = {}
  BY WriterAssumption DEF IInv, TypeOK, Position, Name, Target, Special
<1> DEFINE v == Value(Target)
           disk == {Value(e) : e \in past \cup {Target}}
<1>1. /\ v = Target /\ v' = Target' /\ disk = past \cup {Target} /\ disk' = past' \cup {Target'}
      /\ Result = Results /\ Result' = Results'
  BY DEF Mapped
<1> HIDE DEF v, disk
<1>2. ASSUME UNCHANGED <<v, disk, visible, Result>> PROVE [Atomic!Next]_Atomic!vars
  BY <1>2 DEF Atomic!vars, v, disk
<1>3. ASSUME NEW w \in Writer, w \notin visible, UNCHANGED <<v, disk, visible>>, Result[w] = "none",
             Result' = [Result EXCEPT ![w] = "error"]
      PROVE  Atomic!Next
  BY <1>3 DEF Atomic!Next, Atomic!Report, v, disk
<1>4. ASSUME NEW w \in Writer, w \in visible, UNCHANGED <<v, disk, visible>>, Result[w] = "none",
             Result' = [Result EXCEPT ![w] = "ok"]
      PROVE  Atomic!Next
  BY <1>4 DEF Atomic!Next, Atomic!Report, v, disk
<1>5. ASSUME NEW w \in Writer, UNCHANGED <<v, disk, visible>>, Result[w] = "none",
             Result' = [Result EXCEPT ![w] = "dead"]
      PROVE  Atomic!Next
  BY <1>5 DEF Atomic!Next, Atomic!Vanish, v, disk
<1>6. ASSUME NEW w \in Writer, w \notin visible, Result[w] = "none", v' = w, disk' = disk \cup {w},
             visible' = visible \cup {w}, UNCHANGED Result
      PROVE  Atomic!Next
  BY <1>6 DEF Atomic!Next, Atomic!Commit, v, disk
<1>7. ASSUME NEW e \in Foreign, v' = e, disk' = disk \cup {e}, UNCHANGED <<visible, Result>>
      PROVE  Atomic!Next
  BY <1>7 DEF Atomic!Next, Atomic!Replace, v, disk
<1>8. ASSUME disk' = {v}, UNCHANGED <<v, visible, Result>> PROVE Atomic!Next
  BY <1>8 DEF Atomic!Next, Atomic!Settle, v, disk
<1>9. ASSUME v' \in disk, disk' = {v'}, UNCHANGED visible,
             NEW lost \in SUBSET {w \in Writer : Result[w] = "none"},
             Result' = [w \in Writer |-> IF w \in lost THEN "dead" ELSE Result[w]]
      PROVE  Atomic!Next
  BY <1>9 DEF Atomic!Next, Atomic!PowerLoss, v, disk
<1>10. ASSUME NEW w \in Writer, NEW to \in Position, pc' = [pc EXCEPT ![w] = to]
       PROVE  Result' = [Result EXCEPT ![w] = ResultOf(to)] /\ Result[w] = ResultOf(pc[w])
  BY <1>0, <1>1, <1>10 DEF Results
<1>11. ASSUME NEW w \in Writer, pc[w] \in Running \cup {"start"}
       PROVE  Result[w] = "none"
  BY <1>1, <1>11, ResultsOfPositions DEF Results
<1>12. ASSUME NEW w \in Writer, pc[w] \in Running \cup {"start"}, NEW to \in Running,
              pc' = [pc EXCEPT ![w] = to]
       PROVE  UNCHANGED Result
  BY <1>0, <1>1, <1>12, ResultsOfPositions DEF Results, Position
<1> HIDE DEF Results
<1>20. ASSUME NEW w \in Writer, Stat(w) \/ Recheck(w) \/ Close(w) \/ Chmod(w) \/ Write(w) \/ Fsync(w)
       PROVE  [Atomic!Next]_Atomic!vars
  <2>1. /\ UNCHANGED <<dir, past, visible>> /\ pc[w] \in Running \cup {"start"} /\ w \notin visible
        /\ \E to \in Running \cup {"error"} : pc' = [pc EXCEPT ![w] = to]
    BY <1>0, <1>20 DEF Stat, Recheck, Close, Chmod, Write, Fsync, Running, VisibleWhenReplaced
  <2>2. UNCHANGED <<v, disk>>
    BY <1>1, <2>1 DEF Target
  <2>3. CASE pc' = [pc EXCEPT ![w] = "error"]
    <3>1. Result' = [Result EXCEPT ![w] = "error"]
      BY <1>10, <2>3, ResultsOfPositions DEF Position
    <3> QED BY <1>3, <1>11, <2>1, <2>2, <3>1
  <2>4. ASSUME NEW to \in Running, pc' = [pc EXCEPT ![w] = to] PROVE UNCHANGED Result
    BY <1>12, <2>1, <2>4
  <2> QED BY <1>2, <2>1, <2>2, <2>3, <2>4
<1>21. ASSUME NEW w \in Writer, Alloc(w) \/ Unlink(w) PROVE [Atomic!Next]_Atomic!vars
  <2>1. /\ UNCHANGED visible /\ pc[w] \in {"alloc", "unlink"} /\ w \notin visible
        /\ \E to \in {"alloc", "write", "chmod", "error"} : pc' = [pc EXCEPT ![w] = to]
    BY <1>0, <1>21 DEF Alloc, Unlink, VisibleWhenReplaced
  <2>2. dir'["target"] = dir["target"] /\ past' \in {past, past \cup {Target}}
    BY <1>0, <1>21, NamesAssumption DEF Alloc, Unlink, Link, OwnsTemp, Holding, Name
  <2>3. UNCHANGED <<v, disk>>
    BY <1>1, <2>2 DEF Target
  <2>4. CASE pc' = [pc EXCEPT ![w] = "error"]
    <3>1. Result' = [Result EXCEPT ![w] = "error"]
      BY <1>10, <2>4, ResultsOfPositions DEF Position
    <3>2. Result[w] = "none"
      BY <1>11, <2>1 DEF Running
    <3> QED BY <1>3, <2>1, <2>3, <3>1, <3>2
  <2>5. ASSUME NEW to \in {"alloc", "write", "chmod"}, pc' = [pc EXCEPT ![w] = to] PROVE UNCHANGED Result
    BY <1>12, <2>1, <2>5 DEF Running
  <2> QED BY <1>2, <2>1, <2>3, <2>4, <2>5
<1>22. ASSUME NEW w \in Writer, Replace(w) PROVE [Atomic!Next]_Atomic!vars
  <2>1. /\ pc[w] = "replace" /\ w \notin visible /\ temp[w] \in TempName /\ dir[temp[w]] = w
    BY <1>0, <1>22 DEF Replace, VisibleWhenReplaced, OwnsTemp, Holding
  <2>2. UNCHANGED Result /\ Result[w] = "none"
    <3>1. \E to \in {"replaced", "unlink"} : pc' = [pc EXCEPT ![w] = to]
      BY <1>22 DEF Replace
    <3> QED BY <1>11, <1>12, <2>1, <3>1 DEF Running
  <2>3. CASE UNCHANGED <<dir, past, visible>>
    <3>1. UNCHANGED <<v, disk>>
      BY <1>1, <2>3 DEF Target
    <3> QED BY <1>2, <2>2, <2>3, <3>1
  <2>4. CASE ~UNCHANGED <<dir, past, visible>>
    <3>1. visible' = visible \cup {w} /\ past' = past \cup {Target}
      BY <1>22, <2>4 DEF Replace, Link
    <3>2. dir'["target"] = w
      BY <1>0, <1>22, <2>1, <2>4, NamesAssumption DEF Replace, Link, Name
    <3>3. v' = w /\ disk' = disk \cup {w}
      BY <1>1, <3>1, <3>2 DEF Target
    <3> QED BY <1>6, <2>1, <2>2, <3>1, <3>3
  <2> QED BY <2>3, <2>4
<1>23. ASSUME NEW w \in Writer, Return(w) PROVE [Atomic!Next]_Atomic!vars
  <2>1. pc[w] = "replaced" /\ w \in visible /\ UNCHANGED <<dir, past, visible>>
    BY <1>0, <1>23 DEF Return, VisibleWhenReplaced
  <2>2. UNCHANGED <<v, disk>>
    BY <1>1, <2>1 DEF Target
  <2>3. Result' = [Result EXCEPT ![w] = "ok"]
    <3>1. pc' = [pc EXCEPT ![w] = "done"] /\ "done" \in Position
      BY <1>23 DEF Return, Position
    <3> QED BY <1>10, <3>1, ResultsOfPositions
  <2>4. Result[w] = "none"
    BY <1>11, <2>1 DEF Running
  <2> QED BY <1>4, <2>1, <2>2, <2>3, <2>4
<1>24. ASSUME NEW w \in Writer, Kill(w) PROVE [Atomic!Next]_Atomic!vars
  <2>1. pc[w] \in Running /\ UNCHANGED <<dir, past, visible>>
    BY <1>24 DEF Kill
  <2>2. UNCHANGED <<v, disk>>
    BY <1>1, <2>1 DEF Target
  <2>3. Result' = [Result EXCEPT ![w] = "dead"]
    BY <1>10, <1>24, ResultsOfPositions DEF Kill, Position
  <2> QED BY <1>5, <1>11, <2>1, <2>2, <2>3
<1>25. CASE Swap
  <2>1. PICK e \in Foreign : Link([dir EXCEPT !["target"] = e])
    BY <1>25 DEF Swap
  <2>2. dir'["target"] = e /\ past' = past \cup {Target}
    BY <1>0, <2>1 DEF Link
  <2>3. v' = e /\ disk' = disk \cup {e}
    BY <1>1, <2>2 DEF Target
  <2>4. UNCHANGED <<visible, Result>>
    BY <1>1, <1>25 DEF Swap, Results
  <2> QED BY <1>7, <2>3, <2>4
<1>26. CASE Flush
  <2>1. disk' = {v} /\ UNCHANGED v
    BY <1>1, <1>26 DEF Flush, Target
  <2>2. UNCHANGED <<visible, Result>>
    BY <1>1, <1>26 DEF Flush, Results
  <2> QED BY <1>8, <2>1, <2>2
<1>27. CASE PowerLoss
  <2> DEFINE lost == {w \in Writer : pc[w] \in Running}
  <2>1. dir'["target"] \in past \cup {Target} /\ past' = {} /\ UNCHANGED visible
    BY <1>27 DEF PowerLoss, Name
  <2>2. v' \in disk /\ disk' = {v'}
    BY <1>1, <2>1 DEF Target
  <2>3. Result' = [w \in Writer |-> IF w \in lost THEN "dead" ELSE Result[w]]
    <3>1. pc' = [w \in Writer |-> IF pc[w] \in Running THEN "dead" ELSE pc[w]]
      BY <1>27 DEF PowerLoss
    <3> QED BY <1>1, <3>1, ResultsOfPositions DEF Results
  <2>4. lost \in SUBSET {w \in Writer : Result[w] = "none"}
    BY <1>11
  <2> QED BY <1>9, <2>1, <2>2, <2>3, <2>4
<1>28. CASE UNCHANGED vars
  <2>1. UNCHANGED <<v, disk, visible, Result>>
    BY <1>1, <1>28 DEF vars, Target, Results
  <2> QED BY <1>2, <2>1
<1> QED BY <1>20, <1>21, <1>22, <1>23, <1>24, <1>25, <1>26, <1>27, <1>28 DEF Next

\* Whatever fails, overlaps, is killed, swapped or lost, a call of atomic_write_text is one
\* atomic write of the path, for any number of writers and names.
THEOREM WritesAreAtomic == Spec => ImplementsAtomicFile
<1>1. Init /\ Mapped => Atomic!Init
  <2> SUFFICES ASSUME Init, Mapped PROVE Atomic!Init
    OBVIOUS
  <2>1. Target \in Foreign /\ past = {} /\ visible = {}
    BY WriterAssumption DEF Init, Target, Name, Foreign, Entry, File
  <2>2. Result = [w \in Writer |-> "none"]
    BY ResultsOfPositions DEF Init, Mapped, Results
  <2> QED BY <2>1, <2>2 DEF Mapped, Atomic!Init
<1>2. IInv /\ IInv' /\ Mapped /\ Mapped' /\ [Next]_vars => [Atomic!Next]_Atomic!vars
  BY StepMaps
<1> QED BY <1>1, <1>2, NothingIsTorn, IInvAlways, PTL DEF Spec, ImplementsAtomicFile, Atomic!Spec
=============================================================================
