----------------------------- MODULE AtomicFile -----------------------------
(***************************************************************************)
(* What atomic_write_text promises of an output path: its contents are      *)
(* always those of one complete write (or what somebody else put there), a  *)
(* write is visible at one instant, and it reports success exactly when it   *)
(* became visible.  A power loss may take the path back to earlier contents.*)
(***************************************************************************)
CONSTANTS Writer,    \* one per call of atomic_write_text
          Foreign    \* what the path may hold that no writer put there

VARIABLES value,     \* whose contents the path holds
          onDisk,    \* contents a power loss may leave: the current or earlier ones
          committed, \* the writers whose contents became visible
          result     \* what each writer reported

vars == <<value, onDisk, committed, result>>

Init == /\ value \in Foreign
        /\ onDisk = {value}
        /\ committed = {}
        /\ result = [w \in Writer |-> "none"]

Commit(w) ==
    /\ w \notin committed /\ result[w] = "none"
    /\ value' = w
    /\ onDisk' = onDisk \cup {w}
    /\ committed' = committed \cup {w}
    /\ UNCHANGED result

Report(w) ==
    /\ result[w] = "none"
    /\ result' = [result EXCEPT ![w] = IF w \in committed THEN "ok" ELSE "error"]
    /\ UNCHANGED <<value, onDisk, committed>>

\* A writer is killed: nothing is reported.
Vanish(w) ==
    /\ result[w] = "none"
    /\ result' = [result EXCEPT ![w] = "dead"]
    /\ UNCHANGED <<value, onDisk, committed>>

\* Somebody else replaces what is at the path.
Replace == \E v \in Foreign : /\ value' = v
                              /\ onDisk' = onDisk \cup {v}
                              /\ UNCHANGED <<committed, result>>

\* The system writes the current contents to the disk when it likes.
Settle == onDisk' = {value} /\ UNCHANGED <<value, committed, result>>

PowerLoss ==
    /\ value' \in onDisk /\ onDisk' = {value'}
    /\ \E lost \in SUBSET {w \in Writer : result[w] = "none"} :
          result' = [w \in Writer |-> IF w \in lost THEN "dead" ELSE result[w]]
    /\ UNCHANGED committed

Next == \/ \E w \in Writer : Commit(w) \/ Report(w) \/ Vanish(w)
        \/ Replace \/ Settle \/ PowerLoss

Spec == Init /\ [][Next]_vars
=============================================================================
