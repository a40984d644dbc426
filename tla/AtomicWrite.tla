---------------------------- MODULE AtomicWrite ----------------------------
(***************************************************************************)
(* src/agentcapdiff/outputio.py: concurrent calls of atomic_write_text on   *)
(* one output path.  Every system call is a step; it may fail, the process  *)
(* may be killed before it, somebody else may replace the directory entry,  *)
(* and a power loss may undo what was not synced.                            *)
(***************************************************************************)
EXTENDS Naturals, FiniteSets

CONSTANTS Writer,        \* calls of atomic_write_text, one process each
          TempName,      \* names a temporary file may be given
          MaxAttempts,   \* attempts at a free temporary name (16 in the code)
          Faults,        \* system calls that may fail
          MaxSwaps,      \* bound: replacements of the path from outside
          MaxPowerLoss   \* bound: power losses

ASSUME NamesAssumption == "target" \notin TempName
ASSUME WriterAssumption == Writer \cap {"original", "other", "missing", "link", "directory"} = {}
ASSUME FaultsAssumption ==
    Faults \subseteq {"stat", "open", "chmod", "write", "fsync", "close", "replace", "unlink"}
ASSUME BoundsAssumption == MaxAttempts \in Nat /\ MaxSwaps \in Nat /\ MaxPowerLoss \in Nat

VARIABLES dir,           \* the directory: what each name refers to
          past,          \* earlier entries of the path a power loss may bring back
          file,          \* file[i]: data, mode and sync state of file i
          pc,            \* pc[w]: the system call writer w is at
          temp,          \* temp[w]: the name of w's temporary file
          mode,          \* mode[w]: existing_mode, read by w's first stat
          attempts,      \* attempts[w]: temporary names tried by w
          swaps, losses, \* outside replacements and power losses so far
          exposed,       \* history: writers with a swap since their last check
          visible        \* history: writers whose contents reached the path

vars == <<dir, past, file, pc, temp, mode, attempts, swaps, losses, exposed, visible>>

Name == TempName \cup {"target"}
File == Writer \cup {"original", "other"}
Entry == File \cup {"missing", "link", "directory"}
Foreign == Entry \ Writer
Mode == {"shared", "default"}
Running == {"alloc", "chmod", "write", "fsync", "recheck", "close", "replace",
            "unlink", "replaced"}

TypeOK ==
    /\ dir \in [Name -> Entry] /\ past \subseteq Entry
    /\ file \in [File -> [data : {"empty", "part", "whole"}, mode : Mode, synced : BOOLEAN]]
    /\ pc \in [Writer -> Running \cup {"start", "done", "error", "dead"}]
    /\ temp \in [Writer -> TempName \cup {"none"}]
    /\ mode \in [Writer -> Mode \cup {"none"}]
    /\ attempts \in [Writer -> 0..MaxAttempts]
    /\ swaps \in 0..MaxSwaps /\ losses \in 0..MaxPowerLoss
    /\ exposed \subseteq Writer /\ visible \subseteq Writer

Init ==
    /\ \E e \in {"original", "missing", "link", "directory"} :
          dir = [n \in Name |-> IF n = "target" THEN e ELSE "missing"]
    /\ past = {}
    /\ file = [i \in File |-> [data |-> IF i \in Writer THEN "empty" ELSE "whole",
                               mode |-> IF i = "original" THEN "shared" ELSE "default",
                               synced |-> i \notin Writer]]
    /\ pc = [w \in Writer |-> "start"]
    /\ temp = [w \in Writer |-> "none"]
    /\ mode = [w \in Writer |-> "none"]
    /\ attempts = [w \in Writer |-> 0]
    /\ swaps = 0 /\ losses = 0
    /\ exposed = {} /\ visible = {}

----------------------------------------------------------------------------

Goto(w, from, to) == pc[w] = from /\ pc' = [pc EXCEPT ![w] = to]
MayFail(call) == call \in Faults

\* A failure while the descriptor is open: the finally clause closes it, then unlinks; a close
\* that fails there hides the unlink.
Abandon(w, from) == Goto(w, from, "unlink") \/ (MayFail("close") /\ Goto(w, from, "error"))
Checked(w) == exposed' = exposed \ {w}

Target == dir["target"]

\* A directory update: until it is flushed a power loss may undo it.
Link(d) == dir' = d /\ past' = past \cup {Target}

Unsafe == Target \in {"link", "directory"}

\* The umask: what open(2) grants of a requested mode.
Masked(m) == IF m = "shared" THEN "default" ELSE m

\* open(O_CREAT | O_EXCL) refuses a name that exists.
Taken(n) == dir[n] # "missing"

\* Pin the parent directory and stat the path: links and non-files are refused.
Stat(w) ==
    /\ \/ ~Unsafe /\ Goto(w, "start", "alloc")
          /\ mode' = [mode EXCEPT ![w] = IF Target = "missing" THEN "none" ELSE file[Target].mode]
       \/ (Unsafe \/ MayFail("stat")) /\ Goto(w, "start", "error") /\ UNCHANGED mode
    /\ Checked(w)
    /\ UNCHANGED <<dir, past, file, temp, attempts, swaps, losses, visible>>

CreateModeUnchecked(w) == Masked(mode[w])

\* The mode a new file gets: the existing one or the default, through the umask.
CreateMode(w) == IF mode[w] = "none" THEN "default" ELSE Masked(mode[w])

\* The loop over temporary names; the created file has the masked mode.
Alloc(w) ==
    /\ \/ \E n \in TempName :
          /\ pc[w] = "alloc" /\ attempts[w] < MaxAttempts
          /\ attempts' = [attempts EXCEPT ![w] = @ + 1]
          /\ IF Taken(n)
             THEN Goto(w, "alloc", "alloc") /\ UNCHANGED <<dir, past, file, temp>>
             ELSE /\ Link([dir EXCEPT ![n] = w])
                  /\ temp' = [temp EXCEPT ![w] = n]
                  /\ file' = [file EXCEPT ![w].mode = CreateMode(w)]
                  /\ Goto(w, "alloc", IF mode[w] = "none" THEN "write" ELSE "chmod")
       \/ /\ attempts[w] = MaxAttempts \/ MayFail("open")
          /\ Goto(w, "alloc", "error") /\ UNCHANGED <<dir, past, file, temp, attempts>>
    /\ UNCHANGED <<mode, swaps, losses, exposed, visible>>

ChmodSkipped(w) ==
    /\ Goto(w, "chmod", "write")
    /\ UNCHANGED <<dir, past, file, temp, mode, attempts, swaps, losses, exposed, visible>>

Chmod(w) ==
    /\ \/ Goto(w, "chmod", "write") /\ file' = [file EXCEPT ![w].mode = mode[w]]
       \/ MayFail("chmod") /\ Abandon(w, "chmod") /\ UNCHANGED file
    /\ UNCHANGED <<dir, past, temp, mode, attempts, swaps, losses, exposed, visible>>

\* _write_all: a short write is followed by another one, a failed one ends it.
Write(w) ==
    /\ \/ Goto(w, "write", "write") /\ file[w].data = "empty"
          /\ file' = [file EXCEPT ![w].data = "part"]
       \/ Goto(w, "write", "fsync") /\ file' = [file EXCEPT ![w].data = "whole"]
       \/ MayFail("write") /\ Abandon(w, "write") /\ UNCHANGED file
    /\ UNCHANGED <<dir, past, temp, mode, attempts, swaps, losses, exposed, visible>>

FsyncSkipped(w) ==
    /\ Goto(w, "fsync", "recheck")
    /\ UNCHANGED <<dir, past, file, temp, mode, attempts, swaps, losses, exposed, visible>>

Fsync(w) ==
    /\ \/ Goto(w, "fsync", "recheck") /\ file' = [file EXCEPT ![w].synced = TRUE]
       \/ MayFail("fsync") /\ Abandon(w, "fsync") /\ UNCHANGED file
    /\ UNCHANGED <<dir, past, temp, mode, attempts, swaps, losses, exposed, visible>>

RecheckIgnored(w) ==
    /\ Goto(w, "recheck", "close")
    /\ Checked(w)
    /\ UNCHANGED <<dir, past, file, temp, mode, attempts, swaps, losses, visible>>

\* The path is checked once more: it may have become unsafe while we wrote.
Recheck(w) ==
    /\ \/ ~Unsafe /\ Goto(w, "recheck", "close")
       \/ (Unsafe \/ MayFail("stat")) /\ Abandon(w, "recheck")
    /\ Checked(w)
    /\ UNCHANGED <<dir, past, file, temp, mode, attempts, swaps, losses, visible>>

\* A close that fails has released the descriptor, but temp_fd still holds it:
\* the finally clause closes it again, which raises before the unlink.
Close(w) ==
    /\ \/ Goto(w, "close", "replace")
       \/ MayFail("close") /\ Goto(w, "close", "error")
    /\ UNCHANGED <<dir, past, file, temp, mode, attempts, swaps, losses, exposed, visible>>

\* os.replace swaps the directory entry itself; it never follows a link, and
\* refuses to replace a directory by a file.
Replace(w) ==
    /\ \/ /\ Goto(w, "replace", "replaced")
          /\ Target # "directory"
          /\ Link([dir EXCEPT !["target"] = dir[temp[w]], ![temp[w]] = "missing"])
          /\ visible' = visible \cup {w}
       \/ /\ Target = "directory" \/ MayFail("replace")
          /\ Goto(w, "replace", "unlink") /\ UNCHANGED <<dir, past, visible>>
    /\ UNCHANGED <<file, temp, mode, attempts, swaps, losses, exposed>>

UnlinkSkipped(w) ==
    /\ Goto(w, "unlink", "error")
    /\ UNCHANGED <<dir, past, file, temp, mode, attempts, swaps, losses, exposed, visible>>

\* The finally clause after a failure with the descriptor closed, then OutputWriteError.
Unlink(w) ==
    /\ \/ Goto(w, "unlink", "error") /\ Link([dir EXCEPT ![temp[w]] = "missing"])
       \/ MayFail("unlink") /\ Goto(w, "unlink", "error") /\ UNCHANGED <<dir, past>>
    /\ UNCHANGED <<file, temp, mode, attempts, swaps, losses, exposed, visible>>

Return(w) ==
    /\ Goto(w, "replaced", "done")
    /\ UNCHANGED <<dir, past, file, temp, mode, attempts, swaps, losses, exposed, visible>>

----------------------------------------------------------------------------
(* The environment *)

Kill(w) ==
    /\ pc[w] \in Running /\ pc' = [pc EXCEPT ![w] = "dead"]
    /\ UNCHANGED <<dir, past, file, temp, mode, attempts, swaps, losses, exposed, visible>>

\* Somebody replaces what is at the path: by nothing, a link, a directory, a file.
Swap ==
    /\ swaps < MaxSwaps /\ swaps' = swaps + 1
    /\ \E e \in Foreign \ {Target} : Link([dir EXCEPT !["target"] = e])
    /\ exposed' = Writer
    /\ UNCHANGED <<file, pc, temp, mode, attempts, losses, visible>>

\* The system flushes the directory by itself.
Flush ==
    /\ past # {} /\ past' = {}
    /\ UNCHANGED <<dir, file, pc, temp, mode, attempts, swaps, losses, exposed, visible>>

\* Running writers are gone, unsynced directory updates may be undone, and
\* unsynced data may be lost.
PowerLoss ==
    /\ losses < MaxPowerLoss /\ losses' = losses + 1
    /\ \E e \in past \cup {Target}, gone \in SUBSET {n \in TempName : dir[n] # "missing"} :
          dir' = [n \in Name |-> IF n = "target" THEN e
                                ELSE IF n \in gone THEN "missing" ELSE dir[n]]
    /\ past' = {}
    /\ \E lost \in SUBSET {w \in Writer : ~file[w].synced /\ file[w].data # "empty"} :
          file' = [i \in File |-> IF i \in lost THEN [file[i] EXCEPT !.data = "empty"]
                                                ELSE file[i]]
    /\ pc' = [w \in Writer |-> IF pc[w] \in Running THEN "dead" ELSE pc[w]]
    /\ UNCHANGED <<temp, mode, attempts, swaps, exposed, visible>>

----------------------------------------------------------------------------

Next == \/ \E w \in Writer :
              \/ Stat(w) \/ Alloc(w) \/ Chmod(w) \/ Write(w) \/ Fsync(w)
              \/ Recheck(w) \/ Close(w) \/ Replace(w) \/ Unlink(w) \/ Return(w) \/ Kill(w)
        \/ Swap \/ Flush \/ PowerLoss

Spec == Init /\ [][Next]_vars

----------------------------------------------------------------------------
(* Properties *)

\* A temporary file outlives its call only if the process was killed: every
\* failure after its creation goes through the finally clause that removes it.
NoTempLeft ==
    losses = 0 => \A n \in TempName, w \in Writer :
                     dir[n] = w => pc[w] \in Running \cup {"dead"}

\* Replacing a file keeps the mode it has at that moment, although the mode was
\* read at the start and other writers may have replaced the file since.
KeepsMode ==
    [][\A w \in Writer :
          swaps = 0 /\ Target \in File /\ w \notin visible /\ w \in visible'
          => file'[w].mode = file[Target].mode]_vars

\* A link, which every check refuses, is replaced only if it was put there after
\* the last check of the writer that replaces it.
ReplacesOnlyWhatItChecked ==
    [][\A w \in Writer : dir["target"] = "link" /\ dir'["target"] = w /\ losses' = losses
          => w \in exposed]_vars

----------------------------------------------------------------------------
(* Refinement: a call is one atomic write of the path *)

Value(e) == IF e \in File /\ file[e].data # "whole" THEN "torn" ELSE e

Result == [w \in Writer |-> CASE pc[w] = "done" -> "ok" [] pc[w] = "error" -> "error"
                              [] pc[w] = "dead" -> "dead" [] OTHER -> "none"]

Atomic == INSTANCE AtomicFile WITH value <- Value(Target),
                                   onDisk <- {Value(e) : e \in past \cup {Target}},
                                   committed <- visible, result <- Result

\* Whatever fails, overlaps or is cut short, the path holds one complete content,
\* also after a power loss, and an error is reported exactly when the path was
\* not replaced.
ImplementsAtomicFile == Atomic!Spec
============================================================================
