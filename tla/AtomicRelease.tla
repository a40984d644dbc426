--------------------------- MODULE AtomicRelease ---------------------------
(***************************************************************************)
(* What the release workflow promises for one tag: at most one source       *)
(* commit is ever published, the publication is never undone, and a         *)
(* workflow run may report success only for the commit that is published.   *)
(***************************************************************************)
CONSTANTS Run,      \* workflow runs for the tag
          Sha,      \* source commits the tag has pointed to
          NoSha     \* not a commit

VARIABLES published,    \* the commit whose immutable release exists, or NoSha
          source,       \* source[r]: the commit run r builds, NoSha before its trigger
          verdict       \* verdict[r]: what run r has reported

vars == <<published, source, verdict>>

Init == /\ published = NoSha
        /\ source = [r \in Run |-> NoSha]
        /\ verdict = [r \in Run |-> "none"]

\* A push of the tag or a re-run starts run r for commit s; a run that was
\* still waiting may be given up for it.
Trigger(r, s) ==
    /\ source[r] = NoSha
    /\ source' = [source EXCEPT ![r] = s]
    /\ \E given \in SUBSET {q \in Run : verdict[q] = "none" /\ source[q] # NoSha} :
          verdict' = [q \in Run |-> IF q \in given THEN "failed" ELSE verdict[q]]
    /\ UNCHANGED published

\* The only change of what is published: from nothing to the commit of a run
\* that has not reported yet.
Publish(r) ==
    /\ published = NoSha
    /\ source[r] # NoSha /\ verdict[r] = "none"
    /\ published' = source[r]
    /\ UNCHANGED <<source, verdict>>

Succeed(r) ==
    /\ verdict[r] = "none"
    /\ source[r] # NoSha /\ published = source[r]
    /\ verdict' = [verdict EXCEPT ![r] = "success"]
    /\ UNCHANGED <<published, source>>

Fail(r) ==
    /\ verdict[r] = "none" /\ source[r] # NoSha
    /\ verdict' = [verdict EXCEPT ![r] = "failed"]
    /\ UNCHANGED <<published, source>>

Next == \E r \in Run :
            \/ \E s \in Sha : Trigger(r, s)
            \/ Publish(r) \/ Succeed(r) \/ Fail(r)

Spec == Init /\ [][Next]_vars
============================================================================
