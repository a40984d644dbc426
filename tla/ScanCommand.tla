---------------------------- MODULE ScanCommand ----------------------------
(***************************************************************************)
(* agentcapdiff scan and agentcapdiff snapshot: main of cli.py, scan of      *)
(* scanner.py and the seal of result_semantics.py, as several commands run   *)
(* on one tree.  Each reading of the clock and of the policy file is a step: *)
(* midnight may pass, and the file be edited, between two of them.  What the *)
(* policy finds is PolicyRules', the output path is AtomicFile's.            *)
(***************************************************************************)
EXTENDS PolicyRules

CONSTANTS Command,     \* running commands
          Options,     \* the command lines considered
          Contents,    \* policies the policy file may hold
          Inventory, Score, \* capabilities of the tree and their risk score
          Absent, Malformed, \* there is no policy file; it cannot be loaded
          MaxDay,      \* bound: the last day
          MaxEdits     \* bound: edits of the policy file

ASSUME CommandAssumption ==
    /\ Options \subseteq [snapshot : BOOLEAN, failOn : {"never", "MEDIUM", "HIGH"}, toPath : BOOLEAN]
    /\ Contents \subseteq Policy /\ Inventory \subseteq Capability /\ Score \in Nat
    /\ Absent # Malformed /\ {Absent, Malformed} \cap Policy = {}
    /\ None \notin Policy /\ None \notin Nat
    /\ MaxDay \in Nat /\ MaxEdits \in Nat

VARIABLES day,         \* the UTC date
          policyFile,  \* what the policy file holds
          edits,       \* edits of it so far
          options,     \* options[w]: the command line of w
          pc,          \* pc[w]: the step w is at
          asOf,        \* asOf[w]: the date load_policy read
          loaded,      \* loaded[w]: the policy w uses
          findings,    \* findings[w]: result.findings
          code,        \* code[w]: exit code, None before
          offered,     \* history: what the policy file held while w ran
          rendered,    \* history: the date when w made its report
          shown,       \* history: commands that printed their report
          value, onDisk, committed, result   \* the output path: see AtomicFile

path == <<value, onDisk, committed, result>>
clock == <<day, policyFile, edits>>
vars == <<clock, options, pc, asOf, loaded, findings, code, offered, rendered, shown, path>>

\* The default Policy() of the code, which is used when there is no policy file.
Default == [deny |-> {}, review |-> {}, maxRisk |-> 60, allow |-> <<>>, constraints |-> <<>>,
            unknown |-> "review", trust |-> {}, suppressions |-> {}]

Output == INSTANCE AtomicFile WITH Writer <- Command, Foreign <- {"other"}

Running == {"discover", "load", "read", "evaluate", "seal", "verify", "render", "write", "written"}
Day == 0..MaxDay

TypeOK ==
    /\ day \in Day /\ policyFile \in Contents \cup {Absent, Malformed} /\ edits \in 0..MaxEdits
    /\ options \in [Command -> Options]
    /\ pc \in [Command -> Running \cup {"start", "exited", "killed"}]
    /\ asOf \in [Command -> Day] /\ loaded \in [Command -> Contents \cup {Default, None}]
    /\ findings \in [Command -> SUBSET Finding] /\ code \in [Command -> {None, 0, 1, 2, 3}]
    /\ offered \in [Command -> SUBSET (Contents \cup {Absent, Malformed})]
    /\ rendered \in [Command -> Day] /\ shown \subseteq Command
    /\ value \in Command \cup {"other"} /\ committed \subseteq Command
    /\ onDisk \subseteq Command \cup {"other"}
    /\ result \in [Command -> {"none", "ok", "error", "dead"}]

Init ==
    /\ day = 0 /\ policyFile \in Contents \cup {Absent, Malformed} /\ edits = 0
    /\ options \in [Command -> Options]
    /\ pc = [w \in Command |-> "start"] /\ asOf = [w \in Command |-> 0]
    /\ loaded = [w \in Command |-> None] /\ findings = [w \in Command |-> {}]
    /\ code = [w \in Command |-> None]
    /\ offered = [w \in Command |-> {}] /\ rendered = [w \in Command |-> 0]
    /\ shown = {} /\ Output!Init

----------------------------------------------------------------------------
(* Steps of a command *)

Goto(w, from, to) ==
    pc[w] = from /\ pc' = [pc EXCEPT ![w] = to] /\ UNCHANGED <<code, shown, path>>

Exits(w, from, c) ==
    /\ pc[w] = from /\ pc' = [pc EXCEPT ![w] = "exited"]
    /\ code' = [code EXCEPT ![w] = c]

Rejects(w, from, c) == Exits(w, from, c) /\ UNCHANGED <<shown, path>>

Use(w, p) == loaded' = [loaded EXCEPT ![w] = p]

\* main: a policy path that does not exist stands for the built-in defaults.
Start(w) ==
    /\ Goto(w, "start", "discover")
    /\ IF policyFile = Absent THEN Use(w, Default) ELSE UNCHANGED loaded
    /\ offered' = [offered EXCEPT ![w] = {policyFile}]
    /\ UNCHANGED <<clock, options, asOf, findings, rendered>>

\* discover_tools and inference: a path that is missing or a limit that is exceeded
\* is exit code 3, any other OSError of the traversal a traceback.
Discover(w) ==
    /\ Goto(w, "discover", "load") \/ \E c \in {1, 3} : Rejects(w, "discover", c)
    /\ UNCHANGED <<clock, options, asOf, loaded, findings, offered, rendered>>

\* load_policy, up to its reading of the clock.
Load(w) ==
    /\ \/ loaded[w] = Default /\ Goto(w, "load", "evaluate") /\ UNCHANGED <<asOf, loaded>>
       \/ /\ loaded[w] = None
          /\ IF policyFile = Absent
             THEN Goto(w, "load", "evaluate") /\ Use(w, Default) /\ UNCHANGED asOf
             ELSE Goto(w, "load", "read") /\ asOf' = [asOf EXCEPT ![w] = day] /\ UNCHANGED loaded
    /\ UNCHANGED <<clock, options, findings, offered, rendered>>

ReadOrDefault(w) ==
    /\ Goto(w, "read", "evaluate")
    /\ Use(w, IF policyFile \in {Absent, Malformed} THEN Default ELSE policyFile)
    /\ UNCHANGED <<clock, options, asOf, findings, offered, rendered>>

ReadUnchecked(w) ==
    /\ pc[w] = "read"
    /\ IF policyFile = Absent THEN Rejects(w, "read", 3) /\ UNCHANGED loaded
                              ELSE Goto(w, "read", "evaluate") /\ Use(w, policyFile)
    /\ UNCHANGED <<clock, options, asOf, findings, offered, rendered>>

\* The file is read and checked against the date read before.
Read(w) ==
    /\ pc[w] = "read"
    /\ IF policyFile \in {Absent, Malformed} \/ Expired(policyFile, asOf[w])
       THEN Rejects(w, "read", 3) /\ UNCHANGED loaded
       ELSE Goto(w, "read", "evaluate") /\ Use(w, policyFile)
    /\ UNCHANGED <<clock, options, asOf, findings, offered, rendered>>

Looked == CHOOSE judged \in Representatives(Inventory) : TRUE
Verdict(p) == Outcome(p, Inventory, Looked, Score)

\* policy_to_record and evaluate_policy; the later of their two dates decides.
Evaluate(w) ==
    /\ pc[w] = "evaluate"
    /\ IF Expired(loaded[w], day)
       THEN Rejects(w, "evaluate", 3) /\ UNCHANGED findings
       ELSE Goto(w, "evaluate", "seal") /\ findings' = [findings EXCEPT ![w] = Verdict(loaded[w])]
    /\ UNCHANGED <<clock, options, asOf, loaded, offered, rendered>>

\* seal evaluates again; the command then verifies the sealed result.
Check(w, from, to) ==
    /\ pc[w] = from
    /\ IF Expired(loaded[w], day) \/ findings[w] # Verdict(loaded[w])
       THEN Rejects(w, from, 3) ELSE Goto(w, from, to)
    /\ UNCHANGED <<clock, options, asOf, loaded, findings, offered, rendered>>

Seal(w) == Check(w, "seal", "verify")
Verify(w) == Check(w, "verify", "render")

\* _should_fail on the sealed result's severity; snapshot has no threshold.
ExitCode(w) ==
    IF ~options[w].snapshot /\ options[w].failOn # "never" /\ Reaches(findings[w], options[w].failOn)
    THEN 2 ELSE 0

RenderUnchecked(w) ==
    /\ IF options[w].snapshot \/ options[w].toPath
       THEN Goto(w, "render", "write")
       ELSE Exits(w, "render", ExitCode(w)) /\ shown' = shown \cup {w} /\ UNCHANGED path
    /\ rendered' = [rendered EXCEPT ![w] = day]
    /\ UNCHANGED <<clock, options, asOf, loaded, findings, offered>>

\* Every report function verifies again.  Nothing catches what this raises: the
\* interpreter prints a traceback and exits with 1.  A report may be printed.
Render(w) ==
    /\ pc[w] = "render"
    /\ IF Expired(loaded[w], day) THEN Rejects(w, "render", 1)
       ELSE IF options[w].snapshot \/ options[w].toPath
       THEN Goto(w, "render", "write")
       ELSE Exits(w, "render", ExitCode(w)) /\ shown' = shown \cup {w} /\ UNCHANGED path
    /\ rendered' = [rendered EXCEPT ![w] = day]
    /\ UNCHANGED <<clock, options, asOf, loaded, findings, offered>>

WriteErrorIgnored(w) ==
    /\ \/ pc[w] = "write" /\ pc' = [pc EXCEPT ![w] = "written"] /\ Output!Commit(w) /\ UNCHANGED code
       \/ Exits(w, "write", ExitCode(w)) /\ w \notin committed /\ Output!Report(w)
    /\ UNCHANGED <<clock, options, asOf, loaded, findings, offered, rendered, shown>>

\* atomic_write_text: the report becomes visible, or OutputWriteError is exit code 3.
Write(w) ==
    /\ \/ pc[w] = "write" /\ pc' = [pc EXCEPT ![w] = "written"] /\ Output!Commit(w) /\ UNCHANGED code
       \/ Exits(w, "write", 3) /\ w \notin committed /\ Output!Report(w)
    /\ UNCHANGED <<clock, options, asOf, loaded, findings, offered, rendered, shown>>

Return(w) ==
    /\ Exits(w, "written", ExitCode(w)) /\ Output!Report(w)
    /\ UNCHANGED <<clock, options, asOf, loaded, findings, offered, rendered, shown>>

----------------------------------------------------------------------------
(* The environment *)

Kill(w) ==
    /\ pc[w] \in Running /\ pc' = [pc EXCEPT ![w] = "killed"] /\ Output!Vanish(w)
    /\ UNCHANGED <<clock, options, asOf, loaded, findings, code, offered, rendered, shown>>

Midnight ==
    /\ day < MaxDay /\ day' = day + 1
    /\ UNCHANGED <<policyFile, edits, options, pc, asOf, loaded, findings, code, offered, rendered,
                   shown, path>>

\* The policy file is rewritten or removed.
Edit ==
    /\ edits < MaxEdits /\ edits' = edits + 1
    /\ policyFile' \in (Contents \cup {Absent, Malformed}) \ {policyFile}
    /\ offered' = [w \in Command |-> IF pc[w] \in Running THEN offered[w] \cup {policyFile'}
                                                          ELSE offered[w]]
    /\ UNCHANGED <<day, options, pc, asOf, loaded, findings, code, rendered, shown, path>>

Next == \/ \E w \in Command :
              \/ Start(w) \/ Discover(w) \/ Load(w) \/ Read(w) \/ Evaluate(w) \/ Seal(w)
              \/ Verify(w) \/ Render(w) \/ Write(w) \/ Return(w) \/ Kill(w)
        \/ Midnight \/ Edit

Spec == Init /\ [][Next]_vars

----------------------------------------------------------------------------
(* Properties *)

\* What w may take for its policy: contents of the file while it ran.
Candidates(w) ==
    (offered[w] \cap Contents) \cup (IF Absent \in offered[w] THEN {Default} ELSE {})

\* A report, printed or at the path, is of a policy that was in force: the file
\* held it while the command ran, and when the report was made none of the
\* exceptions it honours had run out, whenever midnight passed before.
ReportsAreInForce ==
    \A w \in shown \cup committed :
        loaded[w] \in Candidates(w) /\ ~Expired(loaded[w], rendered[w])

\* A scan lets a change through only if a policy in the file, or the default while
\* there is none, does: no failure to load, evaluate or verify turns into exit 0.
GateHolds ==
    \A w \in Command :
        code[w] = 0 /\ ~options[w].snapshot /\ options[w].failOn # "never" =>
            \E p \in Candidates(w) : ~Reaches(Verdict(p), options[w].failOn)

\* The exit code tells whether there is a report: 0 and 2 are given with one, and
\* a rejected command leaves neither a printed report nor one at the path.
ExitMatchesOutput ==
    \A w \in Command :
        /\ code[w] \in {0, 2} => w \in shown \cup committed
        /\ code[w] \in {1, 3} => w \notin shown \cup committed

\* "A suppression is valid through its expiry date": a command is turned away by
\* its policy only if the file was broken or removed under it, or an exception
\* is past its last day at that moment; the repeated checks reject nothing else.
RejectsForCause ==
    [][\A w \in Command :
          pc[w] \notin {"discover", "write"} /\ code[w] = None /\ code'[w] \in {1, 3} =>
              \/ Malformed \in offered[w]
              \/ Absent \in offered[w] /\ offered[w] # {Absent}
              \/ \E p \in offered[w] \cap Contents : \E s \in p.suppressions : s.expires < day]_vars
============================================================================
