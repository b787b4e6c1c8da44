--------------------------- MODULE MCFileOwnership ---------------------------
(***************************************************************************)
(* FileOwnership with two tasks that write below the same directory: one   *)
(* declares the directory glob, the other a file in it.  Beside it, as     *)
(* states of their own, the inputs of PlanGraph.                           *)
(***************************************************************************)
EXTENDS FileOwnership, PlanGraph, TLC

CONSTANTS dirTask, fileTask

MCGlobs == {"src/**", "src/a.ts"}
MCOverlaps == MCGlobs \X MCGlobs
MCWithin == {<<g, g>> : g \in MCGlobs} \cup {<<"src/a.ts", "src/**">>}
MCFiles == [t \in Tasks |-> IF t = dirTask THEN {"src/**"} ELSE {"src/a.ts"}]
FileFirst == [t \in Tasks |-> IF t = fileTask THEN 7 ELSE 5]
Symmetry == Permutations(Agents)

\* What can be known of a task of a plan.
Fact(s, isAccepted, t, r) == [status |-> s, accepted |-> isAccepted, type |-> t, resolution |-> r]
MCFacts ==
  {Fact("pending", FALSE, "code", "none"), Fact("pending", FALSE, "acceptance", "none"),
   Fact("done", FALSE, "code", "none"), Fact("done", TRUE, "code", "none"),
   Fact("cancelled", FALSE, "code", "none"), Fact("failed", FALSE, "code", "resolved")}

VARIABLE part

allVars == <<part, vars, analysisVars>>

AllInit ==
  /\ Init
  /\ \/ part = "files" /\ NothingToAnalyse
     \/ part = "analysis" /\ (PlansInit \/ PatternsInit)

AllNext ==
  \/ part = "files"    /\ Next         /\ UNCHANGED <<part, analysisVars>>
  \/ part = "analysis" /\ AnalysisNext /\ UNCHANGED <<part, vars>>

AllSpec == AllInit /\ [][AllNext]_allVars /\ OwnershipFairness

\* What is computed from a plan (parser.ts, planning.ts, dag-analysis.ts) and from two
\* file patterns (ownership.ts) is what their words say.
PlansAreUnderstood == part = "analysis" => AnalysisTypeOK /\ AnalysisIsRight /\ OverlapIsExact
=============================================================================
