------------------------------ MODULE PlanGraph ------------------------------
(***************************************************************************)
(* What is computed from the tasks of a plan, by the hub when it accepts   *)
(* the plan and by the command line when it advises on it: whether the     *)
(* dependencies have a cycle, when each task can start, which chain is the *)
(* longest, who waits for whom, and whether two file patterns can name one *)
(* file.                                                                   *)
(*                                                                         *)
(* A plan is a function from the names of its tasks to their facts; the    *)
(* dependencies are a set of names, repetitions and order do not matter.   *)
(* A pattern is a sequence of tokens, the wildcards among them.            *)
(*                                                                         *)
(* Each computation is compared with its plain definition, for every small *)
(* plan and every pair of short patterns: a state is one input, and        *)
(* nothing moves.                                                          *)
(***************************************************************************)
EXTENDS Naturals, Sequences, FiniteSets

Greatest(S) == CHOOSE n \in S : \A m \in S : m <= n

-----------------------------------------------------------------------------
(* Acceptance of a plan.                                                   *)

\* The tasks left when those that wait for nothing are sorted out again and
\* again: the ones on a cycle and the ones behind it.
detectCycle(deps) ==
  LET names == DOMAIN deps
      left[k \in Nat] == IF k = 0 THEN names
                         ELSE {t \in left[k - 1] : deps[t] \cap left[k - 1] # {}}
  IN  left[Cardinality(names)]

Resolved(deps) == \A t \in DOMAIN deps : deps[t] \subseteq DOMAIN deps

validateParsedPlan(deps) == Resolved(deps) /\ detectCycle(deps) = {}

-----------------------------------------------------------------------------
(* Advice on a plan.                                                       *)

DependencyMet(dependency, type) ==
  IF dependency.resolution # "none" THEN dependency.resolution = "resolved"
  ELSE dependency.status = "done" /\ (type = "acceptance" \/ dependency.accepted)

Succeeded(task) == DependencyMet(task, "code")
Abandoned(task) == task.status \in {"cancelled", "superseded"} \/ task.resolution = "cancelled"

\* Without the tasks that wait for files: ownership is looked at after the dependencies.
classifyTask(plan, t) ==
  CASE Succeeded(plan[t]) \/ Abandoned(plan[t]) -> "terminal"
    [] plan[t].status = "done" -> "review_waiting"
    [] plan[t].status = "running" -> "running"
    [] plan[t].status = "pending" ->
         IF \A d \in plan[t].deps : d \in DOMAIN plan /\ DependencyMet(plan[d], plan[t].type)
         THEN "runnable_now" ELSE "dependency_waiting"
    [] OTHER -> "blocked"

Remaining(plan) == {t \in DOMAIN plan : ~Succeeded(plan[t]) /\ ~Abandoned(plan[t])}
Unresolved(plan) ==
  [t \in Remaining(plan) |->
     {d \in plan[t].deps \cap Remaining(plan) : ~DependencyMet(plan[d], plan[t].type)}]
Children(waits, t) == {c \in DOMAIN waits : t \in waits[c]}

\* The wave a task can start in, given what each task waits for.
WaveFor_Dense(waits) == [t \in DOMAIN waits |-> 1 + Cardinality(waits[t])]
WaveFor(waits) ==
  LET wave[t \in DOMAIN waits] ==
        IF waits[t] = {} THEN 1 ELSE 1 + Greatest({wave[d] : d \in waits[t]})
  IN  wave

\* Of two chains of one length the code takes the first in the alphabet.
Longer(chains) == CHOOSE c \in chains : \A d \in chains : Len(d) <= Len(c)

CriticalPath(waits) ==
  LET longestPathFrom[t \in DOMAIN waits] ==
        IF Children(waits, t) = {} THEN <<t>>
        ELSE <<t>> \o Longer({longestPathFrom[c] : c \in Children(waits, t)})
  IN  IF DOMAIN waits = {} THEN <<>> ELSE Longer({longestPathFrom[t] : t \in DOMAIN waits})

BlockedBy(waits) ==
  LET blocked[t \in DOMAIN waits] ==
        Children(waits, t) \cup UNION {blocked[c] : c \in Children(waits, t)}
  IN  blocked

-----------------------------------------------------------------------------
(* File patterns.                                                          *)

Slash == "/"
Stars == {"*", "**"}
Wildcards == Stars \cup {"?"}

\* A position of a pattern is reached from an earlier one by skipping stars.
globEpsilonClosure(p, i) == {j \in i .. Len(p) + 1 : \A k \in i .. j - 1 : p[k] \in Stars}

globConsumes_Deep(token, c) == token = c \/ token \in Wildcards
globConsumes(token, c) == token = c \/ token \in {"?", "**"} \/ (token = "*" /\ c # Slash)

globNextPosition(p, i) == IF p[i] \in Stars THEN i ELSE i + 1

After(p, i, c) ==
  IF i <= Len(p) /\ globConsumes(p[i], c) THEN globEpsilonClosure(p, globNextPosition(p, i)) ELSE {}

\* The pairs of positions two patterns reach on a common beginning; every letter
\* neither of them names behaves as one.
globsOverlap(p, q, other) ==
  LET letters == ({p[i] : i \in DOMAIN p} \cup {q[i] : i \in DOMAIN q} \cup {Slash, other}) \ Wildcards
      step(pairs) == pairs \cup UNION {After(p, x[1], c) \X After(q, x[2], c) : x \in pairs, c \in letters}
      reached[k \in Nat] == IF k = 0 THEN globEpsilonClosure(p, 1) \X globEpsilonClosure(q, 1)
                            ELSE step(reached[k - 1])
  IN  p = q \/ <<Len(p) + 1, Len(q) + 1>> \in reached[(Len(p) + 1) * (Len(q) + 1)]

\* The regular expression the hub makes of a pattern, applied to the letters of a path.
StandsFor(token, c) ==
  CASE token = "*" -> c # Slash
    [] token \in {"?", "**"} -> TRUE
    [] OTHER -> c = token

globMatch(p, path) ==
  LET matches[i \in 1 .. Len(p) + 1, j \in 1 .. Len(path) + 1] ==
        IF i > Len(p) THEN j > Len(path)
        ELSE LET here == j <= Len(path) /\ StandsFor(p[i], path[j])
             IN  IF p[i] \in Stars THEN matches[i + 1, j] \/ (here /\ matches[i, j + 1])
                 ELSE here /\ matches[i + 1, j + 1]
  IN  matches[1, 1]

-----------------------------------------------------------------------------
(* The inputs.                                                             *)

CONSTANTS
  Names,         \* the tasks of a plan
  Facts,         \* what can be known of a task besides what it depends on
  Letters,       \* of a path, the separator among them
  Other,         \* a letter no pattern names
  PatternLength, PathLength

ASSUME AnalysisAssumption ==
  /\ Facts \subseteq [status : {"pending", "running", "blocked", "done", "failed", "cancelled", "superseded"},
                      accepted : BOOLEAN, type : {"code", "acceptance"},
                      resolution : {"none", "required", "resolved", "cancelled"}]
  /\ Slash \in Letters /\ Other \notin Letters /\ Letters \cap Wildcards = {}
  /\ PatternLength \in Nat /\ PathLength \in Nat

VARIABLES
  facts,      \* what is known of each task of the plan that is analysed
  waitsFor,   \* what each of them depends on
  patterns    \* the two patterns that are compared

analysisVars == <<facts, waitsFor, patterns>>

UpTo(S, n) == UNION {[1 .. k -> S] : k \in 0 .. n}
Patterns == UpTo(Letters \cup Wildcards, PatternLength) \ {<<>>}
Paths == UpTo(Letters \cup {Other}, PathLength)

\* Plans are analysed, or patterns are compared.
PlansInit ==
  /\ facts \in [Names -> Facts] /\ waitsFor \in [Names -> SUBSET Names]
  /\ patterns = <<<<>>, <<>>>>
PatternsInit ==
  /\ facts = <<>> /\ waitsFor = <<>>
  /\ patterns \in Patterns \X Patterns
NothingToAnalyse == facts = <<>> /\ waitsFor = <<>> /\ patterns = <<<<>>, <<>>>>

AnalysisNext == UNCHANGED analysisVars
AnalysisSpec == (PlansInit \/ PatternsInit) /\ [][AnalysisNext]_analysisVars

AnalysisTypeOK ==
  /\ DOMAIN facts = DOMAIN waitsFor
  /\ \A t \in DOMAIN facts : facts[t] \in Facts /\ waitsFor[t] \subseteq Names
  /\ patterns \in UpTo(Letters \cup Wildcards, PatternLength) \X UpTo(Letters \cup Wildcards, PatternLength)

-----------------------------------------------------------------------------
Task(t) == [status |-> facts[t].status, accepted |-> facts[t].accepted, type |-> facts[t].type,
            resolution |-> facts[t].resolution, deps |-> waitsFor[t]]
Waiting == Unresolved([t \in DOMAIN facts |-> Task(t)])

\* Sequences of n tasks of which each one waits for the one before it.
Walks(waits, n) ==
  {w \in [1 .. n -> DOMAIN waits] : \A i \in 1 .. n - 1 : w[i] \in waits[w[i + 1]]}
Chains(waits) == UNION {Walks(waits, n) : n \in 1 .. Cardinality(DOMAIN waits)}
Endless(waits) == Walks(waits, Cardinality(DOMAIN waits) + 1)

\* The tasks a submission is refused for are the ones whose dependencies lead
\* back without end, so a plan that passes has an order to be done in.
CyclesAreFound ==
  detectCycle(waitsFor) = {w[Len(w)] : w \in Endless(waitsFor)}

\* In a plan whose open tasks have an order, a task's wave is the length of the
\* longest chain that ends in it, the critical path is a chain and none is longer,
\* and a task holds up those some chain leads to from it.
WavesAreDepths ==
  LET wave == WaveFor(Waiting)
  IN  \A t \in DOMAIN Waiting :
        wave[t] = Greatest({Len(c) : c \in {d \in Chains(Waiting) : d[Len(d)] = t}})
PathIsLongest ==
  LET path == CriticalPath(Waiting)
  IN  /\ path \in Chains(Waiting) \cup {<<>>}
      /\ \A c \in Chains(Waiting) : Len(c) <= Len(path)
BlockedIsBehind ==
  LET blocked == BlockedBy(Waiting)
  IN  \A t \in DOMAIN Waiting :
        blocked[t] = {c[Len(c)] : c \in {d \in Chains(Waiting) : d[1] = t /\ Len(d) > 1}}

\* What can be claimed now waits for nothing, whatever else is open.
RunnableComesFirst ==
  \A t \in DOMAIN facts :
    classifyTask([u \in DOMAIN facts |-> Task(u)], t) = "runnable_now" => Waiting[t] = {}

\* The advice on a plan (planning.ts, dag-analysis.ts, parser.ts) agrees with the
\* plain meaning of its words, for any state its tasks may be in.
AnalysisIsRight ==
  /\ CyclesAreFound
  /\ RunnableComesFirst
  /\ Endless(Waiting) = {} => WavesAreDepths /\ PathIsLongest /\ BlockedIsBehind

\* Two patterns are taken to overlap (ownership.ts) exactly when they match some path
\* together, and the order of the two does not matter: what FileOwnership assumes.
Language == [p \in Patterns |-> {w \in Paths : globMatch(p, w)}]
OverlapIsExact ==
  patterns[1] # <<>> =>
    /\ globsOverlap(patterns[1], patterns[2], Other)
         <=> Language[patterns[1]] \cap Language[patterns[2]] # {}
    /\ globsOverlap(patterns[1], patterns[2], Other) <=> globsOverlap(patterns[2], patterns[1], Other)
=============================================================================
