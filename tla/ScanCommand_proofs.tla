------------------------ MODULE ScanCommand_proofs ------------------------
(* Proofs about agentcapdiff scan and snapshot, for any number of commands, *)
(* days and edits of the policy file.                                        *)
EXTENDS ScanCommand, PolicyRules_proofs, SequenceTheorems, TLAPS

----------------------------------------------------------------------------
(* The default policy and the inventory *)

\* The empty mapping maps a part of any set into any set.
LEMMA NothingIsMapped ==
    ASSUME NEW S, NEW T
    PROVE  <<>> \in UNION {[D -> T] : D \in SUBSET S}
<1>1. <<>> \in Seq(T) /\ Len(<<>>) = 0
  BY EmptySeq
<1>2. <<>> \in [1..0 -> T]
  BY <1>1, LenProperties
<1>3. 1..0 \in SUBSET S
  OBVIOUS
<1> QED BY <1>2, <1>3

\* The built-in defaults are a policy, and one that never expires.
LEMMA DefaultIsAPolicy == Default \in Policy /\ \A d : ~Expired(Default, d)
<1>1. <<>> \in UNION {[D -> SUBSET CapId] : D \in SUBSET Identity}
  BY NothingIsMapped
<1>2. <<>> \in UNION {[D -> Constraint] : D \in SUBSET CapId}
  BY NothingIsMapped
<1>3. Default \in Policy
  BY <1>1, <1>2 DEF Default, Policy
<1> QED BY <1>3 DEF Default, Expired

\* Every inventory has one capability per key to look at.
LEMMA LookedIsInventoried == Looked \subseteq Inventory
<1> DEFINE First(c) == CHOOSE d \in Inventory : Key(d) = Key(c)
           R == {First(c) : c \in Inventory}
<1>1. \A c \in Inventory : First(c) \in Inventory /\ Key(First(c)) = Key(c)
  OBVIOUS
<1>2. \A c, d \in Inventory : Key(c) = Key(d) => First(c) = First(d)
  OBVIOUS
<1>3. \A c \in Inventory : \A e \in R : Key(e) = Key(c) <=> e = First(c)
  BY <1>1, <1>2
<1>4. R \in Representatives(Inventory)
  <2>1. R \in SUBSET Inventory
    BY <1>1
  <2>2. \A c \in Inventory : \E d \in R : \A e \in R : Key(e) = Key(c) <=> e = d
    <3> TAKE c \in Inventory
    <3> First(c) \in R
      OBVIOUS
    <3> WITNESS First(c) \in R
    <3> QED BY <1>3
  <2> QED BY <2>1, <2>2 DEF Representatives
<1> QED BY <1>4 DEF Looked, Representatives

\* Evaluation yields well-formed findings.
LEMMA VerdictIsTyped ==
    ASSUME NEW p \in Policy
    PROVE  Verdict(p) \subseteq Finding
<1>1. Inventory \in SUBSET Capability /\ Looked \in SUBSET Inventory
  BY CommandAssumption, LookedIsInventoried
<1> QED BY <1>1, OutcomeIsTyped DEF Verdict

----------------------------------------------------------------------------
(* The invariant *)

Deciding == {"evaluate", "seal", "verify", "render", "write", "written"}

\* A command that got past load_policy, or left something behind.
Decided(w) == pc[w] \in Deciding \/ code[w] \in {0, 2} \/ w \in shown \cup committed

\* Its policy is one the file held, or the default while there was none.
PolicyInv(w) ==
    /\ pc[w] \in Running => policyFile \in offered[w]
    /\ pc[w] = "start" => loaded[w] = None
    /\ pc[w] \in {"discover", "load"} => loaded[w] \in {None} \cup Candidates(w)
    /\ pc[w] = "read" => asOf[w] <= day /\ \E p \in offered[w] : p # Absent
    /\ Decided(w) => loaded[w] \in Candidates(w)

\* Its findings are that policy's, and its report was made while it was in force.
ReportInv(w) ==
    /\ pc[w] \in Deciding \ {"evaluate"} \/ code[w] \in {0, 2} => findings[w] = Verdict(loaded[w])
    /\ pc[w] \in {"write", "written"} \/ w \in shown \cup committed => ~Expired(loaded[w], rendered[w])

\* Where a command is tells what it has shown and committed.
OutputInv(w) ==
    /\ pc[w] # "exited" => code[w] = None
    /\ pc[w] = "exited" => code[w] # None
    /\ code[w] \in {0, 2} => w \in shown \cup committed /\ code[w] = ExitCode(w)
    /\ w \in shown => pc[w] = "exited" /\ code[w] \in {0, 2}
    /\ w \in committed => pc[w] \in {"written", "killed"} \/ code[w] \in {0, 2}
    /\ pc[w] = "written" => w \in committed

CommandInv(w) == PolicyInv(w) /\ ReportInv(w) /\ OutputInv(w)

IInv == TypeOK /\ \A w \in Command : CommandInv(w)

\* Nothing has happened in the beginning.
LEMMA InitSatisfies == Init => IInv
<1> SUFFICES ASSUME Init PROVE IInv
  OBVIOUS
<1>1. TypeOK
  BY CommandAssumption DEF Init, TypeOK, Output!Init, Day
<1>2. ASSUME NEW w \in Command PROVE CommandInv(w)
  BY <1>2, CommandAssumption
  DEF Init, Output!Init, CommandInv, PolicyInv, ReportInv, OutputInv, Decided, Deciding, Running
<1> QED BY <1>1, <1>2 DEF IInv

\* What the invariant says of a command whose state a step leaves alone still holds.
LEMMA OthersKeepInv ==
    ASSUME NEW v, CommandInv(v), UNCHANGED <<clock, options>>,
           pc'[v] = pc[v], asOf'[v] = asOf[v], loaded'[v] = loaded[v], findings'[v] = findings[v],
           code'[v] = code[v], offered'[v] = offered[v], rendered'[v] = rendered[v],
           v \in shown' <=> v \in shown, v \in committed' <=> v \in committed
    PROVE  CommandInv(v)'
<1>1. Candidates(v)' = Candidates(v) /\ ExitCode(v)' = ExitCode(v) /\ (Decided(v)' <=> Decided(v))
  BY DEF clock, Candidates, ExitCode, Decided
<1> QED BY <1>1 DEF clock, CommandInv, PolicyInv, ReportInv, OutputInv

\* A command that starts has the policy file as its only candidate.
LEMMA StartKeepsInv ==
    ASSUME IInv, NEW w \in Command, Start(w)
    PROVE  IInv'
<1> USE DEF IInv, Start, Goto, Use, path, clock
<1>1. TypeOK'
  BY DEF TypeOK, Running
<1>2. CommandInv(w)'
  BY CommandAssumption
  DEF TypeOK, Running, Deciding, CommandInv, PolicyInv, ReportInv, OutputInv, Decided, Candidates
<1>3. ASSUME NEW v \in Command \ {w} PROVE CommandInv(v)'
  BY <1>3, OthersKeepInv DEF TypeOK
<1> QED BY <1>1, <1>2, <1>3

\* Discovery passes on what was known or rejects.
LEMMA DiscoverKeepsInv ==
    ASSUME IInv, NEW w \in Command, Discover(w)
    PROVE  IInv'
<1> USE DEF IInv, Discover, Goto, Rejects, Exits, path, clock
<1>1. TypeOK'
  BY DEF TypeOK, Running
<1>2. CommandInv(w)'
  BY CommandAssumption
  DEF TypeOK, Running, Deciding, CommandInv, PolicyInv, ReportInv, OutputInv, Decided, Candidates
<1>3. ASSUME NEW v \in Command \ {w} PROVE CommandInv(v)'
  BY <1>3, OthersKeepInv DEF TypeOK
<1> QED BY <1>1, <1>2, <1>3

\* load_policy uses the defaults only while there is no file.
LEMMA LoadKeepsInv ==
    ASSUME IInv, NEW w \in Command, Load(w)
    PROVE  IInv'
<1> USE DEF IInv, Load, Goto, Use, path, clock
<1>1. TypeOK'
  BY DEF TypeOK, Running
<1>2. CommandInv(w)'
  BY DefaultIsAPolicy, CommandAssumption
  DEF TypeOK, Day, Running, Deciding, CommandInv, PolicyInv, ReportInv, OutputInv, Decided, Candidates
<1>3. ASSUME NEW v \in Command \ {w} PROVE CommandInv(v)'
  BY <1>3, OthersKeepInv DEF TypeOK
<1> QED BY <1>1, <1>2, <1>3

\* A policy that is read is one the file holds.
LEMMA ReadKeepsInv ==
    ASSUME IInv, NEW w \in Command, Read(w)
    PROVE  IInv'
<1> USE DEF IInv, Read, Goto, Rejects, Exits, Use, path, clock
<1>1. TypeOK'
  BY DEF TypeOK, Running
<1>2. CommandInv(w)'
  BY CommandAssumption
  DEF TypeOK, Running, Deciding, CommandInv, PolicyInv, ReportInv, OutputInv, Decided, Candidates
<1>3. ASSUME NEW v \in Command \ {w} PROVE CommandInv(v)'
  BY <1>3, OthersKeepInv DEF TypeOK
<1> QED BY <1>1, <1>2, <1>3

\* What a command may take for its policy is a policy.
LEMMA CandidatesArePolicies ==
    ASSUME NEW w
    PROVE  Candidates(w) \subseteq Policy
BY DefaultIsAPolicy, CommandAssumption DEF Candidates

\* Evaluation finds what the policy says.
LEMMA EvaluateKeepsInv ==
    ASSUME IInv, NEW w \in Command, Evaluate(w)
    PROVE  IInv'
<1> USE DEF IInv, Evaluate, Goto, Rejects, Exits, path, clock
<1>1. TypeOK'
  <2>1. pc[w] = "evaluate" /\ loaded[w] \in Candidates(w)
    BY DEF CommandInv, PolicyInv, Decided, Deciding
  <2>2. Verdict(loaded[w]) \subseteq Finding
    BY <2>1, CandidatesArePolicies, VerdictIsTyped
  <2> QED BY <2>1, <2>2 DEF TypeOK, Running
<1>2. CommandInv(w)'
  BY CommandAssumption
  DEF TypeOK, Running, Deciding, CommandInv, PolicyInv, ReportInv, OutputInv, Decided, Candidates
<1>3. ASSUME NEW v \in Command \ {w} PROVE CommandInv(v)'
  BY <1>3, OthersKeepInv DEF TypeOK
<1> QED BY <1>1, <1>2, <1>3

\* Sealing changes nothing but rejects what does not hold any more.
LEMMA SealKeepsInv ==
    ASSUME IInv, NEW w \in Command, Seal(w)
    PROVE  IInv'
<1> USE DEF IInv, Seal, Check, Goto, Rejects, Exits, path, clock
<1>1. TypeOK'
  BY DEF TypeOK, Running
<1>2. CommandInv(w)'
  BY CommandAssumption
  DEF TypeOK, Running, Deciding, CommandInv, PolicyInv, ReportInv, OutputInv, Decided, Candidates
<1>3. ASSUME NEW v \in Command \ {w} PROVE CommandInv(v)'
  BY <1>3, OthersKeepInv DEF TypeOK
<1> QED BY <1>1, <1>2, <1>3

\* So does the verification of the sealed result.
LEMMA VerifyKeepsInv ==
    ASSUME IInv, NEW w \in Command, Verify(w)
    PROVE  IInv'
<1> USE DEF IInv, Verify, Check, Goto, Rejects, Exits, path, clock
<1>1. TypeOK'
  BY DEF TypeOK, Running
<1>2. CommandInv(w)'
  BY CommandAssumption
  DEF TypeOK, Running, Deciding, CommandInv, PolicyInv, ReportInv, OutputInv, Decided, Candidates
<1>3. ASSUME NEW v \in Command \ {w} PROVE CommandInv(v)'
  BY <1>3, OthersKeepInv DEF TypeOK
<1> QED BY <1>1, <1>2, <1>3

\* A report is made only of a policy in force.
LEMMA RenderKeepsInv ==
    ASSUME IInv, NEW w \in Command, Render(w)
    PROVE  IInv'
<1> USE DEF IInv, Render, Goto, Rejects, Exits, ExitCode, path, clock
<1>1. TypeOK'
  BY DEF TypeOK, Running
<1>2. CommandInv(w)'
  BY CommandAssumption
  DEF TypeOK, Running, Deciding, CommandInv, PolicyInv, ReportInv, OutputInv, Decided, Candidates
<1>3. ASSUME NEW v \in Command \ {w} PROVE CommandInv(v)'
  BY <1>3, OthersKeepInv DEF TypeOK
<1> QED BY <1>1, <1>2, <1>3

\* A write commits the report or is reported as failed.
LEMMA WriteKeepsInv ==
    ASSUME IInv, NEW w \in Command, Write(w)
    PROVE  IInv'
<1> USE DEF IInv, Write, Exits, Output!Commit, Output!Report, ExitCode, path, clock
<1>1. TypeOK'
  BY DEF TypeOK, Running
<1>2. CommandInv(w)'
  BY CommandAssumption
  DEF TypeOK, Running, Deciding, CommandInv, PolicyInv, ReportInv, OutputInv, Decided, Candidates
<1>3. ASSUME NEW v \in Command \ {w} PROVE CommandInv(v)'
  BY <1>3, OthersKeepInv DEF TypeOK
<1> QED BY <1>1, <1>2, <1>3

\* The exit code is given after the report.
LEMMA ReturnKeepsInv ==
    ASSUME IInv, NEW w \in Command, Return(w)
    PROVE  IInv'
<1> USE DEF IInv, Return, Exits, Output!Report, ExitCode, path, clock
<1>1. TypeOK'
  BY DEF TypeOK, Running
<1>2. CommandInv(w)'
  BY CommandAssumption
  DEF TypeOK, Running, Deciding, CommandInv, PolicyInv, ReportInv, OutputInv, Decided, Candidates
<1>3. ASSUME NEW v \in Command \ {w} PROVE CommandInv(v)'
  BY <1>3, OthersKeepInv DEF TypeOK
<1> QED BY <1>1, <1>2, <1>3

\* A killed command leaves what it has written.
LEMMA KillKeepsInv ==
    ASSUME IInv, NEW w \in Command, Kill(w)
    PROVE  IInv'
<1> USE DEF IInv, Kill, Output!Vanish, ExitCode, path, clock
<1>1. TypeOK'
  BY DEF TypeOK, Running
<1>2. CommandInv(w)'
  BY CommandAssumption
  DEF TypeOK, Running, Deciding, CommandInv, PolicyInv, ReportInv, OutputInv, Decided, Candidates
<1>3. ASSUME NEW v \in Command \ {w} PROVE CommandInv(v)'
  BY <1>3, OthersKeepInv DEF TypeOK
<1> QED BY <1>1, <1>2, <1>3

\* Midnight changes nothing a command has established.
LEMMA MidnightKeepsInv ==
    ASSUME IInv, Midnight
    PROVE  IInv'
<1> USE DEF IInv, Midnight, path
<1>1. TypeOK'
  BY CommandAssumption DEF TypeOK, Day
<1>2. ASSUME NEW v \in Command PROVE CommandInv(v)'
  BY <1>2 DEF TypeOK, Day, CommandInv, PolicyInv, ReportInv, OutputInv, Decided, Candidates, ExitCode
<1> QED BY <1>1, <1>2

\* An edit adds to what the file held while a command ran.
LEMMA EditKeepsInv ==
    ASSUME IInv, Edit
    PROVE  IInv'
<1> USE DEF IInv, Edit, path
<1>1. TypeOK'
  BY CommandAssumption DEF TypeOK
<1>2. ASSUME NEW v \in Command PROVE CommandInv(v)'
  <2>1. offered[v] \subseteq offered'[v] /\ (pc[v] \in Running => policyFile' \in offered'[v])
    BY <1>2 DEF TypeOK
  <2>2. Candidates(v) \subseteq Candidates(v)'
    BY <2>1 DEF Candidates
  <2> QED BY <1>2, <2>1, <2>2 DEF CommandInv, PolicyInv, ReportInv, OutputInv, Decided, ExitCode
<1> QED BY <1>1, <1>2

\* Every step of the system keeps the invariant.
LEMMA NextKeepsInv == IInv /\ [Next]_vars => IInv'
<1> SUFFICES ASSUME IInv, [Next]_vars PROVE IInv'
  OBVIOUS
<1>1. ASSUME NEW w \in Command,
             \/ Start(w) \/ Discover(w) \/ Load(w) \/ Read(w) \/ Evaluate(w) \/ Seal(w)
             \/ Verify(w) \/ Render(w) \/ Write(w) \/ Return(w) \/ Kill(w)
      PROVE  IInv'
  BY <1>1, StartKeepsInv, DiscoverKeepsInv, LoadKeepsInv, ReadKeepsInv, EvaluateKeepsInv,
     SealKeepsInv, VerifyKeepsInv, RenderKeepsInv, WriteKeepsInv, ReturnKeepsInv, KillKeepsInv
<1>2. CASE Midnight
  BY <1>2, MidnightKeepsInv
<1>3. CASE Edit
  BY <1>3, EditKeepsInv
<1>4. CASE UNCHANGED vars
  <2>1. TypeOK'
    BY <1>4 DEF IInv, TypeOK, vars, clock, path
  <2>2. ASSUME NEW v \in Command PROVE CommandInv(v)'
    BY <1>4, <2>2, OthersKeepInv DEF IInv, vars, path
  <2> QED BY <2>1, <2>2 DEF IInv
<1> QED BY <1>1, <1>2, <1>3, <1>4 DEF Next

----------------------------------------------------------------------------
(* Theorems *)

\* The inductive invariant: where a command is tells what it has loaded, found and left.
THEOREM IInvAlways == Spec => []IInv
<1> QED BY InitSatisfies, NextKeepsInv, PTL DEF Spec

\* The type invariant of cli.py's commands.
THEOREM TypeCorrect == Spec => []TypeOK
<1>1. IInv => TypeOK
  BY DEF IInv
<1> QED BY <1>1, IInvAlways, PTL

\* However often the policy file is edited and midnight passes, a report is of a
\* policy that was in force.
THEOREM ReportsAreInForceAlways == Spec => []ReportsAreInForce
<1>1. IInv => ReportsAreInForce
  <2> SUFFICES ASSUME IInv, NEW w \in shown \cup committed
               PROVE  loaded[w] \in Candidates(w) /\ ~Expired(loaded[w], rendered[w])
    BY DEF ReportsAreInForce
  <2> QED BY DEF IInv, TypeOK, CommandInv, PolicyInv, ReportInv, Decided
<1> QED BY <1>1, IInvAlways, PTL

\* No failure on the way turns a rejection into exit code 0.
THEOREM GateAlwaysHolds == Spec => []GateHolds
<1>1. IInv => GateHolds
  <2> SUFFICES ASSUME IInv, NEW w \in Command, code[w] = 0, ~options[w].snapshot,
                      options[w].failOn # "never"
               PROVE  \E p \in Candidates(w) : ~Reaches(Verdict(p), options[w].failOn)
    BY DEF GateHolds
  <2>1. loaded[w] \in Candidates(w) /\ findings[w] = Verdict(loaded[w]) /\ ExitCode(w) = 0
    BY DEF IInv, CommandInv, PolicyInv, ReportInv, OutputInv, Decided
  <2>2. ~Reaches(Verdict(loaded[w]), options[w].failOn)
    BY <2>1 DEF ExitCode
  <2> QED BY <2>1, <2>2
<1> QED BY <1>1, IInvAlways, PTL

\* The exit code always tells whether there is a report.
THEOREM ExitAlwaysMatchesOutput == Spec => []ExitMatchesOutput
<1>1. IInv => ExitMatchesOutput
  BY CommandAssumption DEF IInv, CommandInv, OutputInv, ExitMatchesOutput
<1> QED BY <1>1, IInvAlways, PTL

\* Why a command may turn its policy away.
Cause(w) ==
    \/ Malformed \in offered[w]
    \/ Absent \in offered[w] /\ offered[w] # {Absent}
    \/ \E p \in offered[w] \cap Contents : \E s \in p.suppressions : s.expires < day

\* A policy in use that has expired is one the file held.
LEMMA ExpiredIsACause ==
    ASSUME IInv, NEW w \in Command, pc[w] \in Deciding, Expired(loaded[w], day)
    PROVE  Cause(w)
<1>1. loaded[w] \in Candidates(w) /\ loaded[w] # Default
  BY DefaultIsAPolicy DEF IInv, CommandInv, PolicyInv, Decided
<1> QED BY <1>1 DEF Cause, Candidates, Expired

\* So is one that had expired on the day load_policy has read.
LEMMA UnreadableIsACause ==
    ASSUME IInv, NEW w \in Command, pc[w] = "read",
           policyFile \in {Absent, Malformed} \/ Expired(policyFile, asOf[w])
    PROVE  Cause(w)
<1>1. policyFile \in offered[w] /\ asOf[w] \in Nat /\ day \in Nat /\ asOf[w] <= day
      /\ \E p \in offered[w] : p # Absent
  BY CommandAssumption DEF IInv, TypeOK, Day, CommandInv, PolicyInv, Running
<1>2. CASE policyFile \in {Absent, Malformed}
  BY <1>1, <1>2 DEF Cause
<1>3. CASE policyFile \in Contents /\ Expired(policyFile, asOf[w])
  <2>1. PICK s \in policyFile.suppressions : s.expires < asOf[w]
    BY <1>3 DEF Expired
  <2>2. s.expires \in Nat
    BY <1>3, CommandAssumption DEF Policy, Suppression
  <2>3. s.expires < day
    BY <1>1, <2>1, <2>2
  <2> QED BY <1>1, <1>3, <2>1, <2>3 DEF Cause
<1> QED BY <1>2, <1>3 DEF IInv, TypeOK

\* A command rejects for the policy's sake only a policy that gave it cause to.
THEOREM RejectsForCauseAlways == Spec => RejectsForCause
<1>1. ASSUME IInv, Next, NEW w \in Command,
             pc[w] \notin {"discover", "write"}, code[w] = None, code'[w] \in {1, 3}
      PROVE  Cause(w)
  <2>1. PICK v \in Command : \/ Read(v) \/ Evaluate(v) \/ Seal(v) \/ Verify(v) \/ Render(v)
                             \/ Discover(v) \/ Write(v) \/ Return(v) \/ code' = code
    BY <1>1 DEF Next, Start, Load, Kill, Midnight, Edit, Goto
  <2>2. v = w
    BY <1>1, <2>1, CommandAssumption
    DEF IInv, TypeOK, Read, Evaluate, Seal, Verify, Check, Render, Discover, Write, Return, Goto,
        Rejects, Exits
  <2>3. ASSUME NEW a, NEW b, Goto(w, a, b) PROVE FALSE
    BY <1>1, <2>3, CommandAssumption DEF Goto
  <2>4. CASE Read(w)
    BY <1>1, <2>3, <2>4, UnreadableIsACause DEF Read
  <2>5. CASE Evaluate(w) \/ Render(w)
    BY <1>1, <2>3, <2>5, ExpiredIsACause, CommandAssumption
    DEF Evaluate, Render, Exits, ExitCode, Deciding, IInv, TypeOK
  <2>6. CASE Seal(w) \/ Verify(w)
    <3>1. pc[w] \in {"seal", "verify"} /\ (Expired(loaded[w], day) \/ findings[w] # Verdict(loaded[w]))
      BY <2>3, <2>6 DEF Seal, Verify, Check
    <3>2. findings[w] = Verdict(loaded[w])
      BY <1>1, <3>1 DEF IInv, CommandInv, ReportInv, Deciding
    <3> QED BY <1>1, <3>1, <3>2, ExpiredIsACause DEF Deciding
  <2>7. CASE Discover(w) \/ Write(w) \/ Return(w) \/ code' = code
    BY <1>1, <2>3, <2>7, CommandAssumption
    DEF Discover, Write, Return, Rejects, Exits, ExitCode, IInv, TypeOK
  <2> QED BY <2>1, <2>2, <2>4, <2>5, <2>6, <2>7
<1>2. IInv /\ [Next]_vars => [\A w \in Command :
          pc[w] \notin {"discover", "write"} /\ code[w] = None /\ code'[w] \in {1, 3} => Cause(w)]_vars
  BY <1>1
<1> QED BY <1>2, IInvAlways, PTL DEF Spec, RejectsForCause, Cause
============================================================================
