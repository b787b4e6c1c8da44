------------------------ MODULE PlansAndWakeups_proofs ------------------------
(***************************************************************************)
(* Proofs about the submission of plans, the supersede of delivered work,  *)
(* and the reservations a wake-up makes.  One inductive invariant each:    *)
(*                                                                         *)
(* PlanSubmission: whatever submissions of the same plan cross each other, *)
(* claims and deliveries, a task that runs keeps the text it was given,    *)
(* which is the hub's unless a submission overtook the claim, and a        *)
(* delivery is not taken back.                                             *)
(*                                                                         *)
(* Supersede: a delivery has one verdict, what was promised is durable and *)
(* a decision is never overwritten, although locks lapse under their       *)
(* holders and a task is read long before its script runs.                 *)
(*                                                                         *)
(* WakeReservation: a task is kept for one agent, who alone can claim it   *)
(* meanwhile; what was redeemed is not given back by a late failure, and   *)
(* no claim leaves files behind.                                           *)
(***************************************************************************)
EXTENDS MCPlansAndWakeups, TLAPS

-----------------------------------------------------------------------------
(* The submission of plans *)

\* Between WATCH and EXEC: what a submission listed is as it was previewed, and nothing
\* that waits there is reserved, or a write has broken the watch.
ExecKnows(s) ==
  StageOf(s, "exec") /\ s \notin broken =>
    \A n \in Names : submit[s].files[n] # 0 =>
      submit[s].preview[n] = entry[n] /\ ~(entry[n].status = "pending" /\ entry[n].reserved)

\* What was read and not overwritten since is the text of the hub.
ReadingsAreCurrent == \A n \in Names : \A text \in readings[n] : text = entry[n].text

SubmissionInv ==
  /\ SubmissionTypeOK /\ RunsKeepTheirText /\ DoneStaysDone /\ ReadingsAreCurrent
  /\ \A s \in Submits : ExecKnows(s)

\* A request moves, and leaves the tasks alone.
LEMMA RequestMoves ==
  ASSUME SubmissionInv, NEW s \in Submits, NEW c \in Submission \cup {NoSubmit},
         submit' = [submit EXCEPT ![s] = c],
         UNCHANGED <<published, entry, claimVars, copied>>,
         directory' \in [Plans -> [Names -> 0 .. ContentBound]],
         broken' = broken \/ broken' = broken \ {s},
         c # NoSubmit /\ c.at = "exec" => ExecKnows(s)'
  PROVE  SubmissionInv'
<1>1. submit \in [Submits -> Submission \cup {NoSubmit}] /\ broken \in SUBSET Submits
  BY DEF SubmissionInv, SubmissionTypeOK
<1>2. submit' \in [Submits -> Submission \cup {NoSubmit}] /\ submit'[s] = c /\ \A r \in Submits \ {s} : submit'[r] = submit[r]
  BY <1>1
<1>3. SubmissionTypeOK'
  BY <1>1, <1>2 DEF SubmissionInv, SubmissionTypeOK, claimVars
<1>4. RunsKeepTheirText' /\ DoneStaysDone' /\ ReadingsAreCurrent'
  BY DEF SubmissionInv, RunsKeepTheirText, DoneStaysDone, ReadingsAreCurrent, claimVars
<1>5. ASSUME NEW r \in Submits PROVE ExecKnows(r)'
  <2>1. CASE r = s
    BY <1>2, <2>1 DEF ExecKnows, StageOf, Under
  <2>2. CASE r # s
    <3>1. ExecKnows(r) /\ submit'[r] = submit[r] /\ (r \in broken => r \in broken')
      BY <1>2, <2>2 DEF SubmissionInv
    <3> QED
      BY <3>1 DEF ExecKnows, StageOf, Under
  <2> QED
    BY <2>1, <2>2
<1> QED
  BY <1>3, <1>4, <1>5 DEF SubmissionInv

\* A request that goes to another of its stages.
LEMMA StageIs ==
  ASSUME SubmissionTypeOK, NEW s \in Submits, Under(s),
         NEW step \in {"check", "preview", "watch", "exec", "copy"}
  PROVE  /\ [submit[s] EXCEPT !.at = step] \in Submission
         /\ MovesOn(s, step) => submit' = [submit EXCEPT ![s] = [submit[s] EXCEPT !.at = step]]
BY DEF SubmissionTypeOK, Under, MovesOn, Submission

LEMMA BeginsInv ==
  ASSUME SubmissionInv, NEW s \in Submits, NEW p \in Plans, NEW texts \in [Names -> 0 .. ContentBound], Begins(s, p, texts),
         UNCHANGED <<published, entry, claimVars, copied, broken>>,
         directory' \in [Plans -> [Names -> 0 .. ContentBound]]
  PROVE  SubmissionInv'
<1> DEFINE c == [plan |-> p, files |-> texts, at |-> "check", left |-> {}, preview |-> [n \in Names |-> Missing]]
<1>1. Missing \in Entry
  BY SubmissionAssumption DEF Missing, Entry
<1>2. c \in Submission /\ c.at = "check"
  BY <1>1 DEF Submission
<1>3. submit' = [submit EXCEPT ![s] = c]
  BY DEF Begins
<1> HIDE DEF c
<1> QED
  BY <1>2, <1>3, RequestMoves

LEMMA CreateInv ==
  ASSUME SubmissionInv, NEW s \in Submits, NEW p \in Plans, Create(s, p) \/ Resubmit(s, p)
  PROVE  SubmissionInv'
<1>1. directory \in [Plans -> [Names -> 0 .. ContentBound]]
  BY DEF SubmissionInv, SubmissionTypeOK
<1>2. CASE Create(s, p)
  <2>1. PICK some \in SUBSET Names :
          directory' = [directory EXCEPT ![p] = [n \in Names |-> IF n \in some THEN 1 ELSE 0]]
    BY <1>2 DEF Create
  <2>2. directory' \in [Plans -> [Names -> 0 .. ContentBound]]
    <3>1. {0, 1} \subseteq 0 .. ContentBound
      BY SubmissionAssumption
    <3>2. [n \in Names |-> IF n \in some THEN 1 ELSE 0] \in [Names -> 0 .. ContentBound]
      BY <3>1
    <3> QED
      BY <1>1, <2>1, <3>2
  <2>3. directory'[p] \in [Names -> 0 .. ContentBound]
    BY <2>2
  <2> QED
    BY <1>2, <2>2, <2>3, BeginsInv DEF Create
<1>3. CASE Resubmit(s, p)
  BY <1>1, <1>3, BeginsInv DEF Resubmit
<1> QED
  BY <1>2, <1>3

LEMMA UpsertInv ==
  ASSUME SubmissionInv, NEW s \in Submits, NEW p \in Plans, NEW n \in Names, NEW c \in Contents, Upsert(s, p, n, c)
  PROVE  SubmissionInv'
<1>1. directory \in [Plans -> [Names -> 0 .. ContentBound]] /\ c \in 0 .. ContentBound
  BY SubmissionAssumption DEF SubmissionInv, SubmissionTypeOK, Contents
<1>2. directory' = [directory EXCEPT ![p] = [directory[p] EXCEPT ![n] = c]]
  BY <1>1 DEF Upsert
<1>3. directory' \in [Plans -> [Names -> 0 .. ContentBound]]
  <2>1. [directory[p] EXCEPT ![n] = c] \in [Names -> 0 .. ContentBound]
    BY <1>1
  <2> QED
    BY <1>1, <1>2, <2>1
<1>4. directory'[p] \in [Names -> 0 .. ContentBound]
  BY <1>3
<1> QED
  BY <1>3, <1>4, BeginsInv DEF Upsert

LEMMA RefusedInv ==
  ASSUME SubmissionInv, NEW s \in Submits, Refused(s), UNCHANGED <<directory, published, entry, claimVars, copied>>,
         broken' = broken \/ broken' = broken \ {s}
  PROVE  SubmissionInv'
BY RequestMoves DEF Refused, SubmissionInv, SubmissionTypeOK

LEMMA CheckInv ==
  ASSUME SubmissionInv, NEW s \in Submits, CheckPlan(s) \/ Preview(s) \/ Watch(s) \/ AnswerSubmit(s)
  PROVE  SubmissionInv'
<1>1. /\ directory \in [Plans -> [Names -> 0 .. ContentBound]] /\ SubmissionTypeOK /\ broken \in SUBSET Submits
      /\ entry \in [Names -> Entry] /\ submit \in [Submits -> Submission \cup {NoSubmit}]
  BY DEF SubmissionInv, SubmissionTypeOK
<1>2. Under(s) /\ submit[s] \in Submission
  BY <1>1 DEF CheckPlan, Preview, Watch, AnswerSubmit, StageOf, Under
<1>3. ASSUME NEW step \in {"check", "preview", "watch", "exec", "copy"}, step # "exec", MovesOn(s, step),
             UNCHANGED <<directory, published, entry, claimVars, copied, broken>>
      PROVE  SubmissionInv'
  <2> DEFINE c == [submit[s] EXCEPT !.at = step]
  <2>1. c \in Submission /\ submit' = [submit EXCEPT ![s] = c]
    BY <1>1, <1>2, <1>3, StageIs
  <2>2. c.at = step
    BY <1>2 DEF Submission
  <2> HIDE DEF c
  <2> QED
    BY <1>1, <1>3, <2>1, <2>2, RequestMoves
<1>4. CASE CheckPlan(s)
  BY <1>1, <1>3, <1>4, RefusedInv DEF CheckPlan
<1>5. CASE Preview(s)
  <2> DEFINE c == [submit[s] EXCEPT !.at = "watch", !.preview = entry]
  <2>1. c \in Submission /\ c.at = "watch"
    BY <1>1, <1>2 DEF Submission
  <2>2. submit' = [submit EXCEPT ![s] = c]
    BY <1>1, <1>5 DEF Preview
  <2> HIDE DEF c
  <2> QED
    BY <1>1, <1>5, <2>1, <2>2, RequestMoves DEF Preview
<1>6. CASE AnswerSubmit(s)
  BY <1>6, RefusedInv DEF AnswerSubmit
<1>7. CASE Watch(s)
  <2>1. CASE Refused(s) /\ UNCHANGED broken
    BY <1>7, <2>1, RefusedInv DEF Watch
  <2>2. CASE /\ Same(s) /\ \A n \in Listed(s) : ~(entry[n].status = "pending" /\ entry[n].reserved)
             /\ MovesOn(s, "exec") /\ broken' = broken \ {s}
    <3> DEFINE c == [submit[s] EXCEPT !.at = "exec"]
    <3>1. c \in Submission /\ submit' = [submit EXCEPT ![s] = c] /\ c.files = submit[s].files /\ c.preview = submit[s].preview
      BY <1>1, <1>2, <2>2, StageIs DEF Submission
    <3> HIDE DEF c
    <3>2. submit'[s] = c /\ UNCHANGED <<directory, published, entry, claimVars, copied>>
      BY <1>1, <1>7, <3>1 DEF Watch
    <3>3. ExecKnows(s)'
      BY <2>2, <3>1, <3>2 DEF ExecKnows, Same, Listed
    <3> QED
      BY <1>1, <2>2, <3>1, <3>2, <3>3, RequestMoves
  <2> QED
    BY <1>7, <2>1, <2>2 DEF Watch
<1> QED
  BY <1>4, <1>5, <1>6, <1>7

\* A task is written: whoever watches it learns of it.
LEMMA EntryMoves ==
  ASSUME SubmissionInv, NEW n \in Names, NEW e \in Entry, entry' = [entry EXCEPT ![n] = e],
         copied' \in [Names -> Copy], given' \in [Names -> 0 .. ContentBound],
         \A m \in Names \ {n} : copied'[m] = copied[m] /\ given'[m] = given[m] /\ (m \in overtaken => m \in overtaken'),
         overtaken' \subseteq Names, UNCHANGED <<readings, outdated>>, e.text = entry[n].text,
         e.status \in {"running", "done"} => given'[n] = e.text \/ n \in overtaken',
         e.status = "done" => copied'[n].status = "done",
         UNCHANGED <<directory, published, submit>>,
         Touches \/ TouchesTask(n)
  PROVE  SubmissionInv'
<1>1. entry \in [Names -> Entry] /\ broken \in SUBSET Submits
  BY DEF SubmissionInv, SubmissionTypeOK
<1>2. entry' \in [Names -> Entry] /\ entry'[n] = e /\ \A m \in Names \ {n} : entry'[m] = entry[m]
  BY <1>1
<1>3. broken \subseteq broken' /\ broken' \subseteq Submits
  BY <1>1 DEF Touches, TouchesTask, Watching
<1>4. SubmissionTypeOK'
  BY <1>2, <1>3 DEF SubmissionInv, SubmissionTypeOK
<1>5. RunsKeepTheirText' /\ DoneStaysDone' /\ ReadingsAreCurrent'
  BY <1>2 DEF SubmissionInv, RunsKeepTheirText, DoneStaysDone, ReadingsAreCurrent
<1>6. ASSUME NEW s \in Submits PROVE ExecKnows(s)'
  <2>1. StageOf(s, "exec") /\ s \notin broken' => s \notin broken /\ submit[s].files[n] = 0
    BY <1>3 DEF Touches, TouchesTask, Watching, Listed
  <2>2. ExecKnows(s)
    BY DEF SubmissionInv
  <2> QED
    BY <1>2, <2>1, <2>2 DEF ExecKnows, StageOf, Under
<1> QED
  BY <1>4, <1>5, <1>6 DEF SubmissionInv

LEMMA ReservesInv ==
  ASSUME SubmissionInv, NEW n \in Names, NEW on \in BOOLEAN, Reserves(n, on)
  PROVE  SubmissionInv'
<1>1. /\ entry[n] \in Entry /\ entry \in [Names -> Entry] /\ entry[n].status = "pending"
      /\ copied \in [Names -> Copy] /\ given \in [Names -> 0 .. ContentBound]
  BY DEF SubmissionInv, SubmissionTypeOK, Reserves
<1> DEFINE e == [entry[n] EXCEPT !.reserved = on]
<1>2. e \in Entry /\ e.status = "pending" /\ e.text = entry[n].text /\ entry' = [entry EXCEPT ![n] = e]
  BY <1>1 DEF Entry, Reserves
<1> HIDE DEF e
<1>3. UNCHANGED <<directory, published, given, readings, outdated, overtaken, copied, submit>> /\ TouchesTask(n)
  BY DEF Reserves, claimVars
<1>4. overtaken \subseteq Names
  BY DEF SubmissionInv, SubmissionTypeOK
<1> QED
  BY <1>1, <1>2, <1>3, <1>4, EntryMoves

LEMMA ReadsInv ==
  ASSUME SubmissionInv, NEW n \in Names, Reads(n)
  PROVE  SubmissionInv'
<1>1. /\ UNCHANGED <<directory, published, entry, given, outdated, overtaken, copied, submit, broken>>
      /\ readings \in [Names -> SUBSET (0 .. ContentBound)] /\ entry[n].text \in 0 .. ContentBound
  BY DEF Reads, SubmissionInv, SubmissionTypeOK, Entry
<1>2. /\ readings' \in [Names -> SUBSET (0 .. ContentBound)] /\ readings'[n] = readings[n] \cup {entry[n].text}
      /\ \A m \in Names \ {n} : readings'[m] = readings[m]
  BY <1>1 DEF Reads
<1>3. SubmissionTypeOK'
  BY <1>1, <1>2 DEF SubmissionInv, SubmissionTypeOK
<1>4. ReadingsAreCurrent'
  BY <1>1, <1>2 DEF SubmissionInv, ReadingsAreCurrent
<1> QED
  BY <1>1, <1>3, <1>4 DEF SubmissionInv, RunsKeepTheirText, DoneStaysDone, ExecKnows, StageOf, Under

LEMMA ClaimsInv ==
  ASSUME SubmissionInv, NEW n \in Names, Claims(n)
  PROVE  SubmissionInv'
<1>1. /\ entry[n] \in Entry /\ entry \in [Names -> Entry] /\ entry[n].runs \in Nat /\ entry[n].text \in 0 .. ContentBound
      /\ copied \in [Names -> Copy] /\ copied[n] \in Copy /\ given \in [Names -> 0 .. ContentBound]
      /\ {readings[n], outdated[n]} \subseteq SUBSET (0 .. ContentBound) /\ overtaken \subseteq Names
  BY DEF SubmissionInv, SubmissionTypeOK, Entry
<1> DEFINE k == entry[n].runs + 1
           e == [entry[n] EXCEPT !.status = "running", !.reserved = FALSE, !.runs = k]
<1>2. k \in Nat /\ entry' = [entry EXCEPT ![n].status = "running", ![n].reserved = FALSE, ![n].runs = k]
  <2>1. k \in Nat
    BY <1>1
  <2>2. entry' = [entry EXCEPT ![n].status = "running", ![n].reserved = FALSE, ![n].runs = @ + 1]
    BY DEF Claims
  <2> QED
    BY <1>1, <2>1, <2>2 DEF Entry
<1> HIDE DEF k
<1>7. entry' = [entry EXCEPT ![n] = e]
  BY <1>1, <1>2
<1>3. e \in Entry /\ e.status = "running" /\ e.text = entry[n].text
  BY <1>1, <1>2 DEF Entry
<1> HIDE DEF e
<1>4. PICK text \in readings[n] \cup outdated[n] :
        /\ given' = [given EXCEPT ![n] = text]
        /\ \/ text \in readings[n] /\ overtaken' = overtaken \ {n}
           \/ overtaken' = overtaken \cup {n}
  BY DEF Claims
<1>8. text \in readings[n] => text = entry[n].text
  BY DEF SubmissionInv, ReadingsAreCurrent
<1>5. /\ given' \in [Names -> 0 .. ContentBound] /\ (given'[n] = entry[n].text \/ n \in overtaken')
      /\ \A m \in Names \ {n} : given'[m] = given[m] /\ (m \in overtaken => m \in overtaken')
      /\ overtaken' \subseteq Names
  BY <1>1, <1>4, <1>8
<1>6. copied' \in [Names -> Copy] /\ \A m \in Names \ {n} : copied'[m] = copied[m]
  <2> DEFINE w == [copied[n] EXCEPT !.status = IF copied[n].status = "missing" THEN copied[n].status ELSE "running"]
  <2>1. copied' = [copied EXCEPT ![n] = w]
    BY <1>1 DEF Claims, Persisted
  <2>2. w \in Copy
    BY <1>1 DEF Copy
  <2> HIDE DEF w
  <2> QED
    BY <1>1, <2>1, <2>2
<1>9. UNCHANGED <<directory, published, readings, outdated, submit>> /\ Touches
  BY DEF Claims
<1> QED
  BY <1>3, <1>5, <1>6, <1>7, <1>9, EntryMoves

LEMMA RunEndsInv ==
  ASSUME SubmissionInv, NEW n \in Names, NEW st \in {"pending", "done"}, RunEnds(n, st)
  PROVE  SubmissionInv'
<1>1. /\ entry[n] \in Entry /\ entry \in [Names -> Entry] /\ entry[n].status = "running"
      /\ (given[n] = entry[n].text \/ n \in overtaken) /\ overtaken \subseteq Names
      /\ copied \in [Names -> Copy] /\ given \in [Names -> 0 .. ContentBound]
  BY DEF SubmissionInv, SubmissionTypeOK, RunsKeepTheirText, RunEnds
<1> DEFINE e == [entry[n] EXCEPT !.status = st]
           w == [plan |-> entry[n].plan, text |-> entry[n].text, status |-> st]
<1>2. e \in Entry /\ e.status = st /\ e.text = entry[n].text /\ entry' = [entry EXCEPT ![n] = e]
  BY <1>1 DEF Entry, RunEnds
<1>3. w \in Copy /\ w.status = st /\ copied' = [copied EXCEPT ![n] = w]
  BY <1>1 DEF Entry, Copy, RunEnds
<1> HIDE DEF e, w
<1>4. copied' \in [Names -> Copy] /\ copied'[n].status = st /\ \A m \in Names \ {n} : copied'[m] = copied[m]
  BY <1>1, <1>3
<1>5. UNCHANGED <<directory, published, given, readings, outdated, overtaken, submit>> /\ Touches
  BY DEF RunEnds, claimVars
<1> QED
  BY <1>1, <1>2, <1>4, <1>5, EntryMoves

\* What a submission overwrites is still what it previewed: it waits, and is not reserved.
LEMMA OverwrittenWaits ==
  ASSUME SubmissionInv, NEW s \in Submits, StageOf(s, "exec"), Unbroken(s), NEW n \in Overwritten(s)
  PROVE  /\ n \in Names /\ entry[n].status \in {"missing", "pending"}
         /\ ~(entry[n].status = "pending" /\ entry[n].reserved)
<1>1. ExecKnows(s) /\ s \notin broken /\ n \in Names /\ submit[s].files[n] # 0
  BY DEF SubmissionInv, Unbroken, Overwritten, Listed
<1>2. submit[s].preview[n] = entry[n] /\ ~(entry[n].status = "pending" /\ entry[n].reserved)
  BY <1>1 DEF ExecKnows
<1> QED
  BY <1>1, <1>2 DEF Overwritten

LEMMA ExecInv ==
  ASSUME SubmissionInv, NEW s \in Submits, ExecSubmit(s)
  PROVE  SubmissionInv'
<1>1. /\ directory \in [Plans -> [Names -> 0 .. ContentBound]] /\ SubmissionTypeOK /\ broken \in SUBSET Submits
      /\ entry \in [Names -> Entry] /\ submit \in [Submits -> Submission \cup {NoSubmit}] /\ published \in SUBSET Plans
      /\ StageOf(s, "exec") /\ Under(s) /\ UNCHANGED <<directory, given, overtaken, copied>>
  BY DEF SubmissionInv, SubmissionTypeOK, ExecSubmit, StageOf
<1>2. submit[s] \in Submission
  BY <1>1 DEF Under
<1>3. CASE ~Unbroken(s)
  BY <1>1, <1>3, RefusedInv DEF ExecSubmit, claimVars
<1>4. CASE Unbroken(s)
  <2>1. /\ entry' = [n \in Names |-> IF n \notin Overwritten(s) THEN entry[n]
                       ELSE [entry[n] EXCEPT !.plan = submit[s].plan, !.text = submit[s].files[n], !.status = "pending"]]
        /\ published' = published \cup {submit[s].plan}
        /\ submit' = [submit EXCEPT ![s].at = "copy", ![s].left = Listed(s)]
        /\ broken' = broken \cup (Watching \ {s})
        /\ readings' = [n \in Names |-> IF n \in Overwritten(s) THEN {} ELSE readings[n]]
        /\ outdated' = [n \in Names |-> IF n \in Overwritten(s) THEN outdated[n] \cup readings[n] ELSE outdated[n]]
    BY <1>4 DEF ExecSubmit
  <2>2. /\ submit[s].plan \in Plans /\ submit[s].files \in [Names -> 0 .. ContentBound] /\ Listed(s) \in SUBSET Names
    BY <1>2 DEF Submission, Listed
  <2> DEFINE c == [submit[s] EXCEPT !.at = "copy", !.left = Listed(s)]
  <2>3. c \in Submission /\ c.at = "copy" /\ submit' = [submit EXCEPT ![s] = c]
    BY <1>1, <1>2, <2>1, <2>2 DEF Submission
  <2> HIDE DEF c
  <2>4. submit' \in [Submits -> Submission \cup {NoSubmit}] /\ submit'[s] = c /\ \A r \in Submits \ {s} : submit'[r] = submit[r]
    BY <1>1, <2>3
  <2>5. ASSUME NEW n \in Names
        PROVE  /\ entry'[n] \in Entry
               /\ n \in Overwritten(s) => entry'[n].status = "pending"
               /\ n \notin Overwritten(s) => entry'[n] = entry[n]
    <3>1. CASE n \notin Overwritten(s)
      BY <1>1, <2>1, <3>1
    <3>2. CASE n \in Overwritten(s)
      <4>1. entry'[n] = [entry[n] EXCEPT !.plan = submit[s].plan, !.text = submit[s].files[n], !.status = "pending"]
        BY <2>1, <3>2
      <4>2. submit[s].files[n] \in 0 .. ContentBound /\ entry[n] \in Entry
        BY <1>1, <2>2
      <4> QED
        BY <2>2, <3>2, <4>1, <4>2 DEF Entry
    <3> QED
      BY <3>1, <3>2
  <2>6. SubmissionTypeOK'
    <3>1. entry' \in [Names -> Entry]
      BY <2>1, <2>5
    <3>2. published' \in SUBSET Plans /\ broken' \in SUBSET Submits
      BY <1>1, <2>1, <2>2 DEF Watching
    <3>3. {readings', outdated'} \subseteq [Names -> SUBSET (0 .. ContentBound)]
      <4>1. \A n \in Names : readings[n] \in SUBSET (0 .. ContentBound) /\ outdated[n] \in SUBSET (0 .. ContentBound)
        BY <1>1 DEF SubmissionTypeOK
      <4> QED
        BY <2>1, <4>1
    <3> QED
      BY <1>1, <2>4, <3>1, <3>2, <3>3 DEF SubmissionTypeOK
  <2>9. ReadingsAreCurrent'
    BY <2>1, <2>5 DEF SubmissionInv, ReadingsAreCurrent
  <2>7. RunsKeepTheirText' /\ DoneStaysDone'
    BY <1>1, <2>5 DEF SubmissionInv, RunsKeepTheirText, DoneStaysDone
  <2>8. ASSUME NEW r \in Submits PROVE ExecKnows(r)'
    <3>1. CASE r = s
      BY <2>3, <2>4, <3>1 DEF ExecKnows, StageOf
    <3>2. CASE r # s
      BY <2>1, <2>4, <3>2 DEF ExecKnows, StageOf, Under, Watching
    <3> QED
      BY <3>1, <3>2
  <2> QED
    BY <2>6, <2>7, <2>8, <2>9 DEF SubmissionInv
<1> QED
  BY <1>3, <1>4

LEMMA CopyTaskInv ==
  ASSUME SubmissionInv, NEW s \in Submits, NEW n \in Names, CopyTask(s, n)
  PROVE  SubmissionInv'
<1>1. /\ SubmissionTypeOK /\ broken \in SUBSET Submits /\ copied \in [Names -> Copy] /\ copied[n] \in Copy
      /\ entry \in [Names -> Entry] /\ entry[n] \in Entry /\ submit \in [Submits -> Submission \cup {NoSubmit}]
      /\ StageOf(s, "copy") /\ Under(s) /\ UNCHANGED <<directory, published, entry, given, readings, outdated, overtaken, broken>>
      /\ copied' = [copied EXCEPT ![n] = Written(s, n)]
      /\ submit' = [submit EXCEPT ![s].left = @ \ {n}]
  BY DEF SubmissionInv, SubmissionTypeOK, CopyTask, StageOf, claimVars
<1>2. /\ submit[s] \in Submission /\ submit[s].plan \in Plans /\ submit[s].files[n] \in 0 .. ContentBound
      /\ submit[s].left \in SUBSET Names
  BY <1>1 DEF Under, Submission
<1> DEFINE c == [submit[s] EXCEPT !.left = @ \ {n}]
<1>3. c \in Submission /\ c.at = "copy" /\ submit' = [submit EXCEPT ![s] = c]
  BY <1>1, <1>2 DEF Submission, StageOf
<1> HIDE DEF c
<1>4. submit' \in [Submits -> Submission \cup {NoSubmit}] /\ submit'[s] = c /\ \A r \in Submits \ {s} : submit'[r] = submit[r]
  BY <1>1, <1>3
<1>5. Written(s, n) \in Copy /\ (entry[n].status = "done" => Written(s, n).status = "done")
  <2>1. CASE n \notin Overwritten(s) \/ entry[n].status # "pending"
    <3>1. Written(s, n) = [plan |-> entry[n].plan, text |-> entry[n].text, status |-> entry[n].status]
      BY <2>1 DEF Written, CopyOf
    <3> QED
      BY <1>1, <3>1 DEF Entry, Copy
  <2>2. CASE ~(n \notin Overwritten(s) \/ entry[n].status # "pending")
    <3>1. Written(s, n) = [plan |-> submit[s].plan, text |-> submit[s].files[n],
                           status |-> IF copied[n].status = "missing" THEN "pending" ELSE copied[n].status]
      BY <2>2 DEF Written
    <3>2. (IF copied[n].status = "missing" THEN "pending" ELSE copied[n].status) \in {"missing", "pending", "running", "done"}
      BY <1>1 DEF Copy
    <3> QED
      BY <1>2, <2>2, <3>1, <3>2 DEF Copy
  <2> QED
    BY <2>1, <2>2
<1>6. copied' \in [Names -> Copy] /\ copied'[n] = Written(s, n) /\ \A m \in Names \ {n} : copied'[m] = copied[m]
  BY <1>1, <1>5
<1>7. SubmissionTypeOK'
  BY <1>1, <1>4, <1>6 DEF SubmissionTypeOK
<1>8. RunsKeepTheirText' /\ DoneStaysDone' /\ ReadingsAreCurrent'
  BY <1>1, <1>5, <1>6 DEF SubmissionInv, RunsKeepTheirText, DoneStaysDone, ReadingsAreCurrent
<1>9. ASSUME NEW r \in Submits PROVE ExecKnows(r)'
  <2>1. CASE r = s
    BY <1>3, <1>4, <2>1 DEF ExecKnows, StageOf
  <2>2. CASE r # s
    BY <1>1, <1>4, <2>2 DEF SubmissionInv, ExecKnows, StageOf, Under
  <2> QED
    BY <2>1, <2>2
<1> QED
  BY <1>7, <1>8, <1>9 DEF SubmissionInv

LEMMA HubStopsInv == SubmissionInv /\ HubStops => SubmissionInv'
<1> SUFFICES ASSUME SubmissionInv, HubStops PROVE SubmissionInv'
  OBVIOUS
<1>1. /\ UNCHANGED <<directory, published, entry, given, overtaken, copied>> /\ submit' = [s \in Submits |-> NoSubmit] /\ broken' = {}
      /\ readings' = [n \in Names |-> {}] /\ outdated' = [n \in Names |-> {}]
  BY DEF HubStops
<1>2. {readings', outdated'} \subseteq [Names -> SUBSET (0 .. ContentBound)] /\ ReadingsAreCurrent'
  BY <1>1 DEF ReadingsAreCurrent
<1> QED
  BY <1>1, <1>2 DEF SubmissionInv, SubmissionTypeOK, RunsKeepTheirText, DoneStaysDone, ExecKnows, StageOf, Under

LEMMA InitSubmissionInv == SubmissionInit => SubmissionInv
<1> SUFFICES ASSUME SubmissionInit PROVE SubmissionInv
  OBVIOUS
<1>1. Missing \in Entry /\ Missing.status = "missing" /\ [plan |-> NoPlan, text |-> 0, status |-> "missing"] \in Copy
      /\ 0 \in 0 .. ContentBound
  BY SubmissionAssumption DEF Missing, Entry, Copy
<1>2. SubmissionTypeOK
  BY <1>1 DEF SubmissionInit, SubmissionTypeOK
<1>3. RunsKeepTheirText /\ DoneStaysDone /\ ReadingsAreCurrent
  BY <1>1 DEF SubmissionInit, RunsKeepTheirText, DoneStaysDone, ReadingsAreCurrent
<1> QED
  BY <1>2, <1>3 DEF SubmissionInit, SubmissionInv, ExecKnows, StageOf, Under

LEMMA SubmissionInvStep == SubmissionInv /\ [SubmissionNext]_submissionVars => SubmissionInv'
<1>1. SubmissionInv /\ SubmissionNext => SubmissionInv'
  BY CreateInv, UpsertInv, CheckInv, ExecInv, CopyTaskInv, HubStopsInv, ReservesInv, ReadsInv, ClaimsInv, RunEndsInv DEF SubmissionNext
<1>2. SubmissionInv /\ UNCHANGED submissionVars => SubmissionInv'
  BY DEF submissionVars, claimVars, SubmissionInv, SubmissionTypeOK, RunsKeepTheirText, DoneStaysDone, ReadingsAreCurrent,
     ExecKnows, StageOf, Under
<1> QED
  BY <1>1, <1>2

LEMMA ReservedStays == SubmissionInv /\ [SubmissionNext]_submissionVars => [ReservedIsStable]_submissionVars
<1> SUFFICES ASSUME SubmissionInv, SubmissionNext PROVE ReservedIsStable
  OBVIOUS
<1>1. entry \in [Names -> Entry]
  BY DEF SubmissionInv, SubmissionTypeOK
<1>2. CASE entry' = entry
  BY <1>2 DEF ReservedIsStable
<1>3. ASSUME NEW s \in Submits, ExecSubmit(s), entry' # entry PROVE ReservedIsStable
  <2>1. /\ entry' = [n \in Names |-> IF n \notin Overwritten(s) THEN entry[n]
                       ELSE [entry[n] EXCEPT !.plan = submit[s].plan, !.text = submit[s].files[n], !.status = "pending"]]
        /\ Unbroken(s) /\ StageOf(s, "exec")
    BY <1>3 DEF ExecSubmit
  <2> QED
    BY <2>1, OverwrittenWaits DEF ReservedIsStable
<1>4. ASSUME NEW n \in Names, NEW on \in BOOLEAN, Reserves(n, on) PROVE ReservedIsStable
  BY <1>1, <1>4 DEF Reserves, ReservedIsStable, Entry
<1>5. ASSUME NEW n \in Names, Claims(n) PROVE ReservedIsStable
  BY <1>1, <1>5 DEF Claims, ReservedIsStable, Entry
<1>6. ASSUME NEW n \in Names, NEW st \in {"pending", "done"}, RunEnds(n, st) PROVE ReservedIsStable
  BY <1>1, <1>6 DEF RunEnds, ReservedIsStable, Entry
<1> QED
  BY <1>2, <1>3, <1>4, <1>5, <1>6 DEF SubmissionNext, Create, Resubmit, Upsert, CheckPlan, Preview, Watch, AnswerSubmit,
     CopyTask, HubStops, Reads

\* Directories, tasks, copies and requests have their types.
THEOREM SubmissionTypes == SubmissionSpec => []SubmissionTypeOK
<1>1. SubmissionInv => SubmissionTypeOK
  BY DEF SubmissionInv
<1> QED
  BY <1>1, InitSubmissionInv, SubmissionInvStep, PTL DEF SubmissionSpec

\* For any plans, requests, claims and stops of the hub: who runs a task has the text of
\* the hub, unless a submission overwrote it between the reading and the commit of his
\* claim, and it does not change under him; no finished task falls back in SQLite, and what
\* is reserved is not rewritten.
THEOREM Submission_Safe == SubmissionSpec => SubmissionIsSafe
<1>1. SubmissionInv => RunsKeepTheirText /\ DoneStaysDone
  BY DEF SubmissionInv
<1> QED
  BY <1>1, InitSubmissionInv, SubmissionInvStep, ReservedStays, PTL DEF SubmissionSpec, SubmissionIsSafe

-----------------------------------------------------------------------------
(* The supersede of delivered work *)

\* A verdict of the current round is the state of the task.
VerdictsAreSeen ==
  \A t \in Tasks, r \in 0 .. RoundBound :
    /\ <<t, r, "accepted">> \in verdicts =>
         /\ r <= work[t].round
         /\ r = work[t].round => \/ work[t].status \in {"pending", "cancelled"}
                                 \/ (work[t].status = "done" /\ work[t].accepted)
    /\ <<t, r, "superseded">> \in verdicts => r = work[t].round /\ work[t].status = "superseded"

DecidedIsSuperseded ==
  \A t \in Tasks : decided[t].by # NoOne => work[t].status = "superseded"

\* What a decider is about to answer for: what it has not stored yet is left to it.
DeciderKnows(d) ==
  decision[d] # NoDecision =>
    /\ d \in TaskDeciders => \E t \in Tasks : decision[d].want = {t}
    /\ decision[d].at = "persist" =>
         \A t \in decision[d].want : work[t].status = "superseded" /\ (t \in decision[d].left \/ t \in saved)

SupersedeInv ==
  /\ SupersedeTypeOK /\ \A t \in Tasks : work[t].round <= RoundBound
  /\ VerdictsAreSeen /\ OneVerdict /\ DecidedIsSuperseded
  /\ \A d \in Deciders : DeciderKnows(d)
  /\ AnswerIsDurable

MarkRecord == [seen : [Tasks -> Work], number : Nat]
ReviewRecord == [task : Tasks, round : Nat, at : {"read", "commit"}]

LEMMA AbsentIs == Absent \in [Tasks -> Work]
BY DEF Absent, Work

LEMMA InitSupersedeInv == SupersedeInit => SupersedeInv
<1> SUFFICES ASSUME SupersedeInit PROVE SupersedeInv
  OBVIOUS
<1>1. /\ work = Absent /\ Absent \in [Tasks -> Work] /\ verdicts = {} /\ promised = {} /\ \A t \in Tasks : decided[t].by = NoOne
      /\ \A d \in Deciders : decision[d] = NoDecision
  BY AbsentIs DEF SupersedeInit
<1>2. 0 \in 0 .. LapseBound /\ 0 <= RoundBound
  BY SupersedeAssumption
<1>3. SupersedeTypeOK
  <2>1. [t \in Tasks |-> [by |-> NoOne, number |-> 0]] \in [Tasks -> MarkAll]
    BY DEF MarkAll
  <2>2. [d \in PlanDeciders |-> [seen |-> Absent, number |-> 0]] \in [PlanDeciders -> [seen : [Tasks -> Work], number : Nat]]
    BY <1>1
  <2> QED
    BY <1>1, <1>2, <2>1, <2>2 DEF SupersedeInit, SupersedeTypeOK
<1>4. \A t \in Tasks : work[t].round = 0
  BY <1>1 DEF Absent
<1> QED
  BY <1>1, <1>2, <1>3, <1>4 DEF SupersedeInv, VerdictsAreSeen, OneVerdict, DecidedIsSuperseded, DeciderKnows, AnswerIsDurable

\* Work and verdicts as they were: only the requests move.
LEMMA RequestsMove ==
  ASSUME SupersedeInv, UNCHANGED <<work, decided, verdicts>>, SupersedeTypeOK',
         saved \subseteq saved', AnswerIsDurable',
         \A d \in Deciders : decision'[d] = decision[d] \/ decision'[d] = NoDecision \/ DeciderKnows(d)'
  PROVE  SupersedeInv'
<1>1. (\A t \in Tasks : work'[t].round <= RoundBound) /\ VerdictsAreSeen' /\ OneVerdict' /\ DecidedIsSuperseded'
  BY DEF SupersedeInv, VerdictsAreSeen, OneVerdict, DecidedIsSuperseded
<1>2. \A d \in Deciders : DeciderKnows(d)'
  BY DEF SupersedeInv, DeciderKnows
<1> QED
  BY <1>1, <1>2 DEF SupersedeInv

\* One decider's request becomes c, or ends, with the locks it takes or gives back.
LEMMA DecisionIs ==
  ASSUME SupersedeInv, NEW d \in Deciders, NEW c \in Decision \cup {NoDecision},
         decision' = [decision EXCEPT ![d] = c],
         lock' \in [Tasks -> Deciders \cup {NoOne, "reviewer"}], planLock' \in [PlanIds -> Deciders \cup {NoOne}],
         moved' \subseteq PlanDeciders,
         UNCHANGED <<work, decided, token, review, verdicts, lapses>>,
         saved' \in SUBSET Tasks, saved \subseteq saved', promised' \in SUBSET Tasks, AnswerIsDurable',
         c = NoDecision \/ DeciderKnows(d)'
  PROVE  SupersedeInv'
<1>1. decision \in [Deciders -> Decision \cup {NoDecision}]
  BY DEF SupersedeInv, SupersedeTypeOK
<1>2. decision' \in [Deciders -> Decision \cup {NoDecision}] /\ decision'[d] = c /\ \A e \in Deciders \ {d} : decision'[e] = decision[e]
  BY <1>1
<1>3. SupersedeTypeOK'
  BY <1>2 DEF SupersedeInv, SupersedeTypeOK
<1> QED
  BY <1>2, <1>3, RequestsMove

LEMMA LeavesIs ==
  ASSUME SupersedeInv, NEW d \in Deciders, Leaves(d), moved' \subseteq PlanDeciders,
         UNCHANGED <<work, decided, saved, token, review, verdicts, promised, lapses>>
  PROVE  SupersedeInv'
<1>1. /\ lock \in [Tasks -> Deciders \cup {NoOne, "reviewer"}] /\ planLock \in [PlanIds -> Deciders \cup {NoOne}]
      /\ saved \in SUBSET Tasks /\ promised \in SUBSET Tasks /\ AnswerIsDurable
  BY DEF SupersedeInv, SupersedeTypeOK
<1>2. lock' \in [Tasks -> Deciders \cup {NoOne, "reviewer"}] /\ planLock' \in [PlanIds -> Deciders \cup {NoOne}]
  BY <1>1 DEF Leaves
<1>3. AnswerIsDurable'
  BY <1>1 DEF AnswerIsDurable
<1> QED
  BY <1>1, <1>2, <1>3, DecisionIs DEF Leaves

LEMMA StepIs ==
  ASSUME SupersedeInv, NEW d \in Deciders, NEW c \in Decision, Step(d, c), moved' \subseteq PlanDeciders,
         UNCHANGED <<work, decided, token, review, verdicts, lapses>>,
         saved' \in SUBSET Tasks, saved \subseteq saved', promised' = promised,
         d \in TaskDeciders => \E t \in Tasks : c.want = {t},
         c.at = "persist" => \A t \in c.want : work[t].status = "superseded" /\ (t \in c.left \/ t \in saved')
  PROVE  SupersedeInv'
<1>1. /\ lock \in [Tasks -> Deciders \cup {NoOne, "reviewer"}] /\ planLock \in [PlanIds -> Deciders \cup {NoOne}]
      /\ promised \in SUBSET Tasks /\ AnswerIsDurable /\ decision \in [Deciders -> Decision \cup {NoDecision}]
  BY DEF SupersedeInv, SupersedeTypeOK
<1>2. decision' = [decision EXCEPT ![d] = c] /\ UNCHANGED <<lock, planLock>>
  BY DEF Step
<1>3. decision'[d] = c
  BY <1>1, <1>2
<1>4. AnswerIsDurable' /\ DeciderKnows(d)'
  BY <1>1, <1>3 DEF AnswerIsDurable, DeciderKnows
<1> QED
  BY <1>1, <1>2, <1>4, DecisionIs

\* What a decision under way holds.
LEMMA DecisionKnows ==
  ASSUME SupersedeInv, NEW d \in Deciders, ~Idle(d)
  PROVE  /\ decision[d] \in Decision /\ decision[d].plan \in PlanIds /\ decision[d].want \in SUBSET Tasks
         /\ decision[d].held \in SUBSET Tasks /\ decision[d].left \in SUBSET Tasks /\ decision[d].seen \in [Tasks -> Work]
         /\ decision[d].at \in {"look", "lock", "tasks", "revisions", "commit", "persist"}
         /\ d \in TaskDeciders => \E t \in Tasks : decision[d].want = {t}
         /\ decision[d].at = "persist" =>
              \A t \in decision[d].want : work[t].status = "superseded" /\ (t \in decision[d].left \/ t \in saved)
BY DEF SupersedeInv, SupersedeTypeOK, Decision, Idle, DeciderKnows

LEMMA FreshIs ==
  ASSUME NEW p \in PlanIds
  PROVE  Fresh(p) \in Decision /\ Fresh(p).at = "look" /\ Fresh(p).want = {}
BY AbsentIs DEF Fresh, Decision

LEMMA SnapshotIs ==
  ASSUME SupersedeInv, NEW p \in PlanIds
  PROVE  Snapshot(p) \in [Tasks -> Work]
BY AbsentIs DEF Snapshot, SupersedeInv, SupersedeTypeOK

LEMMA PreviewPlanInv ==
  ASSUME SupersedeInv, NEW d \in PlanDeciders, NEW p \in PlanIds, PreviewPlan(d, p)
  PROVE  SupersedeInv'
<1>1. /\ UNCHANGED <<work, moved, decided, saved, lock, planLock, decision, review, verdicts, promised, lapses>>
      /\ token' = [token EXCEPT ![d] = [seen |-> Snapshot(p), number |-> @.number + 1]]
      /\ token \in [PlanDeciders -> MarkRecord] /\ SupersedeTypeOK /\ AnswerIsDurable
  BY DEF PreviewPlan, SupersedeInv, SupersedeTypeOK, MarkRecord
<1>2. [seen |-> Snapshot(p), number |-> token[d].number + 1] \in MarkRecord
  <2>1. token[d].number \in Nat
    BY <1>1 DEF MarkRecord
  <2>2. token[d].number + 1 \in Nat
    BY <2>1
  <2> QED
    BY <2>2, SnapshotIs DEF MarkRecord
<1>3. token' \in [PlanDeciders -> MarkRecord]
  BY <1>1, <1>2
<1>4. SupersedeTypeOK' /\ AnswerIsDurable'
  BY <1>1, <1>3 DEF SupersedeTypeOK, MarkRecord, AnswerIsDurable
<1> QED
  BY <1>1, <1>4, RequestsMove

LEMMA StartPlanInv ==
  ASSUME SupersedeInv, NEW d \in PlanDeciders, NEW p \in PlanIds, StartPlan(d, p)
  PROVE  SupersedeInv'
<1>1. /\ UNCHANGED <<work, moved, decided, saved, lock, token, review, verdicts, promised, lapses>>
      /\ planLock' = [planLock EXCEPT ![p] = d] /\ decision' = [decision EXCEPT ![d] = Fresh(p)]
      /\ d \in Deciders /\ d \notin TaskDeciders
      /\ SupersedeTypeOK /\ AnswerIsDurable /\ decision \in [Deciders -> Decision \cup {NoDecision}]
  BY SupersedeAssumption DEF StartPlan, SupersedeInv, SupersedeTypeOK, Deciders
<1>2. /\ planLock' \in [PlanIds -> Deciders \cup {NoOne}] /\ lock' \in [Tasks -> Deciders \cup {NoOne, "reviewer"}]
      /\ moved' \subseteq PlanDeciders /\ saved' \in SUBSET Tasks /\ promised' \in SUBSET Tasks
  BY <1>1 DEF SupersedeTypeOK
<1>3. decision'[d] = Fresh(p) /\ AnswerIsDurable'
  BY <1>1 DEF AnswerIsDurable
<1>4. DeciderKnows(d)'
  BY <1>1, <1>3, FreshIs DEF DeciderKnows
<1> QED
  BY <1>1, <1>2, <1>3, <1>4, FreshIs, DecisionIs

LEMMA LookInv ==
  ASSUME SupersedeInv, NEW d \in PlanDeciders, Look(d)
  PROVE  SupersedeInv'
<1>1. /\ UNCHANGED <<work, moved, decided, saved, token, review, verdicts, promised, lapses>>
      /\ d \in Deciders /\ d \notin TaskDeciders /\ ~Idle(d) /\ SupersedeTypeOK
      /\ moved \subseteq PlanDeciders /\ saved \in SUBSET Tasks
  BY SupersedeAssumption DEF Look, Is, SupersedeInv, SupersedeTypeOK, Deciders
<1>2. decision[d] \in Decision /\ decision[d].plan \in PlanIds
  BY <1>1, DecisionKnows
<1>3. CASE Replayed(d) # {}
  <2> DEFINE these == Replayed(d)
             c == [decision[d] EXCEPT !.at = "persist", !.left = these, !.want = these]
  <2>1. Step(d, c)
    BY <1>3 DEF Look
  <2>2. these \in SUBSET Tasks /\ \A t \in these : work[t].status = "superseded"
    BY DEF Replayed, TasksOf
  <2> HIDE DEF these
  <2>3. c \in Decision /\ c.want = these /\ c.left = these
    BY <1>2, <2>2 DEF Decision
  <2> HIDE DEF c
  <2> QED
    BY <1>1, <2>1, <2>2, <2>3, StepIs
<1>4. CASE Replayed(d) = {}
  <2> DEFINE these == CandidatesIn(work, decision[d].plan)
             c == [decision[d] EXCEPT !.at = "lock", !.want = these]
  <2>1. Step(d, c)
    BY <1>4 DEF Look
  <2>2. these \in SUBSET Tasks
    BY DEF CandidatesIn, TasksOf
  <2> HIDE DEF these
  <2>3. c \in Decision /\ c.at = "lock"
    BY <1>2, <2>2 DEF Decision
  <2> HIDE DEF c
  <2> QED
    BY <1>1, <2>1, <2>3, StepIs
<1> QED
  BY <1>3, <1>4

LEMMA TakeInv ==
  ASSUME SupersedeInv, NEW d \in PlanDeciders, NEW t \in Tasks, Take(d, t)
  PROVE  SupersedeInv'
<1>1. /\ UNCHANGED <<work, moved, decided, saved, planLock, token, review, verdicts, promised, lapses>>
      /\ d \in Deciders /\ d \notin TaskDeciders /\ ~Idle(d) /\ SupersedeTypeOK /\ decision[d].at = "lock" /\ AnswerIsDurable
      /\ lock' = [lock EXCEPT ![t] = d] /\ decision' = [decision EXCEPT ![d].held = @ \cup {t}]
      /\ decision \in [Deciders -> Decision \cup {NoDecision}]
  BY SupersedeAssumption DEF Take, Is, SupersedeInv, SupersedeTypeOK, Deciders
<1>2. decision[d] \in Decision /\ decision[d].held \in SUBSET Tasks
  BY <1>1, DecisionKnows
<1> DEFINE c == [decision[d] EXCEPT !.held = @ \cup {t}]
<1>3. c \in Decision /\ c.at = "lock" /\ decision' = [decision EXCEPT ![d] = c]
  BY <1>1, <1>2 DEF Decision
<1> HIDE DEF c
<1>4. decision'[d] = c /\ AnswerIsDurable'
  BY <1>1, <1>3 DEF AnswerIsDurable
<1>5. DeciderKnows(d)'
  BY <1>1, <1>3, <1>4 DEF DeciderKnows
<1>6. /\ planLock' \in [PlanIds -> Deciders \cup {NoOne}] /\ lock' \in [Tasks -> Deciders \cup {NoOne, "reviewer"}]
      /\ moved' \subseteq PlanDeciders /\ saved' \in SUBSET Tasks /\ promised' \in SUBSET Tasks
  BY <1>1 DEF SupersedeTypeOK
<1> QED
  BY <1>1, <1>3, <1>4, <1>5, <1>6, DecisionIs

LEMMA ReadTasksInv ==
  ASSUME SupersedeInv, NEW d \in PlanDeciders, ReadTasks(d) \/ ReadRevisions(d) \/ GivesUp(d)
  PROVE  SupersedeInv'
<1>1. /\ UNCHANGED <<work, decided, saved, token, review, verdicts, promised, lapses>>
      /\ d \in Deciders /\ d \notin TaskDeciders /\ ~Idle(d) /\ moved' \subseteq PlanDeciders /\ saved \in SUBSET Tasks
  BY SupersedeAssumption DEF ReadTasks, ReadRevisions, GivesUp, Is, SupersedeInv, SupersedeTypeOK, Deciders
<1>2. decision[d] \in Decision /\ decision[d].plan \in PlanIds
  BY <1>1, DecisionKnows
<1>3. CASE ReadTasks(d)
  <2> DEFINE seen == Snapshot(decision[d].plan)
             c == [decision[d] EXCEPT !.at = "revisions", !.seen = seen]
  <2>1. Step(d, c) /\ seen \in [Tasks -> Work]
    BY <1>2, <1>3, SnapshotIs DEF ReadTasks
  <2> HIDE DEF seen
  <2>2. c \in Decision /\ c.at = "revisions"
    BY <1>2, <2>1 DEF Decision
  <2> HIDE DEF c
  <2> QED
    BY <1>1, <2>1, <2>2, StepIs
<1>4. ASSUME Step(d, [decision[d] EXCEPT !.at = "commit", !.want = CandidatesIn(decision[d].seen, decision[d].plan)])
      PROVE SupersedeInv'
  <2> DEFINE these == CandidatesIn(decision[d].seen, decision[d].plan)
             c == [decision[d] EXCEPT !.at = "commit", !.want = these]
  <2>1. Step(d, c) /\ these \in SUBSET Tasks
    BY <1>4 DEF CandidatesIn, TasksOf
  <2> HIDE DEF these
  <2>2. c \in Decision /\ c.at = "commit"
    BY <1>2, <2>1 DEF Decision
  <2> HIDE DEF c
  <2> QED
    BY <1>1, <2>1, <2>2, StepIs
<1>5. CASE ReadRevisions(d)
  BY <1>1, <1>4, <1>5, LeavesIs DEF ReadRevisions
<1>6. CASE GivesUp(d)
  BY <1>1, <1>6, LeavesIs DEF GivesUp
<1> QED
  BY <1>3, <1>5, <1>6

\* Locks come and go without a decision.
LEMMA LocksMove ==
  ASSUME SupersedeInv, UNCHANGED <<work, decided, verdicts, saved, promised, decision, moved, token>>,
         lock' \in [Tasks -> Deciders \cup {NoOne, "reviewer"}], planLock' \in [PlanIds -> Deciders \cup {NoOne}],
         lapses' \in 0 .. LapseBound, review' \in ReviewRecord \cup {NoReview}
  PROVE  SupersedeInv'
<1>1. SupersedeTypeOK' /\ AnswerIsDurable'
  BY DEF SupersedeInv, SupersedeTypeOK, AnswerIsDurable, ReviewRecord
<1> QED
  BY <1>1, RequestsMove DEF SupersedeInv, SupersedeTypeOK

LEMMA LocksLapseInv ==
  ASSUME SupersedeInv,
         \/ \E t \in Tasks : LockLapses(t) \/ BeginReview(t)
         \/ \E p \in PlanIds : PlanLockLapses(p)
  PROVE  SupersedeInv'
<1>1. /\ lock \in [Tasks -> Deciders \cup {NoOne, "reviewer"}] /\ planLock \in [PlanIds -> Deciders \cup {NoOne}]
      /\ lapses \in 0 .. LapseBound /\ review \in ReviewRecord \cup {NoReview} /\ work \in [Tasks -> Work] /\ LapseBound \in Nat
  BY SupersedeAssumption DEF SupersedeInv, SupersedeTypeOK, ReviewRecord
<1>2. CASE \E t \in Tasks : LockLapses(t)
  <2> PICK t \in Tasks : LockLapses(t)
    BY <1>2
  <2>1. lapses' \in 0 .. LapseBound
    BY <1>1 DEF LockLapses
  <2> QED
    BY <1>1, <2>1, LocksMove DEF LockLapses
<1>3. CASE \E t \in Tasks : BeginReview(t)
  <2> PICK t \in Tasks : BeginReview(t)
    BY <1>3
  <2>1. work[t].round \in Nat
    BY <1>1 DEF Work
  <2>2. review' \in ReviewRecord
    BY <2>1 DEF BeginReview, ReviewRecord
  <2> QED
    BY <1>1, <2>2, LocksMove DEF BeginReview
<1>4. CASE \E p \in PlanIds : PlanLockLapses(p)
  <2> PICK p \in PlanIds : PlanLockLapses(p)
    BY <1>4
  <2>1. lapses' \in 0 .. LapseBound
    BY <1>1 DEF PlanLockLapses
  <2> QED
    BY <1>1, <2>1, LocksMove DEF PlanLockLapses
<1> QED
  BY <1>2, <1>3, <1>4

\* What a decider knows of superseded tasks stays true.
LEMMA DecidersKeep ==
  ASSUME SupersedeInv, decision' = decision, saved' = saved,
         \A u \in Tasks : work[u].status = "superseded" => work'[u] = work[u]
  PROVE  \A d \in Deciders : DeciderKnows(d)'
<1> SUFFICES ASSUME NEW d \in Deciders, decision[d] # NoDecision
             PROVE  /\ d \in TaskDeciders => \E t \in Tasks : decision[d].want = {t}
                    /\ decision[d].at = "persist" =>
                         \A t \in decision[d].want : work'[t].status = "superseded" /\ (t \in decision[d].left \/ t \in saved)
  BY DEF DeciderKnows
<1> QED
  BY DecisionKnows DEF Idle

\* A submission, a delivery, a cancellation or a reset: never of a superseded task.
LEMMA WritesIs ==
  ASSUME SupersedeInv, NEW t \in Tasks, NEW r \in Work, Writes(t, r),
         work[t].status # "superseded", r.round <= RoundBound,
         (r.round = work[t].round /\ r.status \in {"pending", "cancelled"}) \/ r.round = work[t].round + 1,
         UNCHANGED <<decided, saved, lock, planLock, token, decision, review, verdicts, promised, lapses>>
  PROVE  SupersedeInv'
<1>1. /\ work \in [Tasks -> Work] /\ SupersedeTypeOK /\ VerdictsAreSeen /\ OneVerdict /\ DecidedIsSuperseded /\ AnswerIsDurable
      /\ \A u \in Tasks : work[u].round <= RoundBound /\ work[u].round \in Nat
  BY DEF SupersedeInv, SupersedeTypeOK, Work
<1>2. /\ work' \in [Tasks -> Work] /\ work'[t] = r /\ \A u \in Tasks \ {t} : work'[u] = work[u]
      /\ moved' \subseteq PlanDeciders
  BY <1>1 DEF Writes, Bump
<1>3. SupersedeTypeOK'
  BY <1>1, <1>2 DEF SupersedeTypeOK
<1>4. \A u \in Tasks : work'[u].round <= RoundBound
  BY <1>1, <1>2
<1>5. r.round \in Nat
  BY DEF Work
<1>6. VerdictsAreSeen'
  <2> SUFFICES ASSUME NEW u \in Tasks, NEW n \in 0 .. RoundBound
               PROVE  /\ <<u, n, "accepted">> \in verdicts =>
                           /\ n <= work'[u].round
                           /\ n = work'[u].round => \/ work'[u].status \in {"pending", "cancelled"}
                                                    \/ work'[u].status = "done" /\ work'[u].accepted
                      /\ <<u, n, "superseded">> \in verdicts => n = work'[u].round /\ work'[u].status = "superseded"
    BY DEF VerdictsAreSeen
  <2>1. CASE u # t
    BY <1>1, <1>2, <2>1 DEF VerdictsAreSeen
  <2>2. CASE u = t
    <3>1. <<t, n, "superseded">> \notin verdicts /\ (<<t, n, "accepted">> \in verdicts => n <= work[t].round)
      BY <1>1, <2>2 DEF VerdictsAreSeen
    <3>2. work'[u].round = r.round /\ work'[u].status = r.status /\ n \in Nat /\ work[t].round \in Nat
      BY <1>1, <1>2, <2>2, SupersedeAssumption
    <3> QED
      BY <1>5, <2>2, <3>1, <3>2
  <2> QED
    BY <2>1, <2>2
<1>7. decided' = decided /\ saved' = saved /\ decision' = decision /\ promised' = promised /\ verdicts' = verdicts
  OBVIOUS
<1>8. \A u \in Tasks : work[u].status = "superseded" => work'[u] = work[u]
  BY <1>2
<1>9. OneVerdict' /\ DecidedIsSuperseded' /\ AnswerIsDurable'
  <2>1. OneVerdict'
    BY <1>1, <1>7 DEF OneVerdict
  <2>2. DecidedIsSuperseded'
    BY <1>1, <1>7, <1>8 DEF DecidedIsSuperseded
  <2>3. AnswerIsDurable'
    BY <1>1, <1>7, <1>8 DEF AnswerIsDurable, SupersedeTypeOK
  <2> QED
    BY <2>1, <2>2, <2>3
<1>10. \A d \in Deciders : DeciderKnows(d)'
  BY <1>7, <1>8, DecidersKeep
<1> QED
  BY <1>3, <1>4, <1>6, <1>9, <1>10 DEF SupersedeInv

LEMMA WritingInv ==
  ASSUME SupersedeInv, NEW t \in Tasks, PublishLate(t) \/ Deliver(t) \/ Cancel(t) \/ Reset(t)
  PROVE  SupersedeInv'
<1>1. work[t] \in Work /\ work[t].round \in Nat /\ work[t].round <= RoundBound /\ RoundBound \in Nat
  BY SupersedeAssumption DEF SupersedeInv, SupersedeTypeOK, Work
<1>2. CASE PublishLate(t)
  <2> DEFINE r == [work[t] EXCEPT !.status = "pending"]
  <2>1. r \in Work /\ r.round = work[t].round /\ r.status = "pending" /\ Writes(t, r)
    BY <1>1, <1>2 DEF PublishLate, Work
  <2> HIDE DEF r
  <2> QED
    BY <1>1, <1>2, <2>1, WritesIs DEF PublishLate
<1>3. CASE Deliver(t)
  <2> DEFINE n == work[t].round + 1
             r == [work[t] EXCEPT !.status = "done", !.round = n]
  <2>1. n \in Nat /\ n <= RoundBound
    BY <1>1, <1>3 DEF Deliver
  <2>2. r \in Work /\ r.round = n /\ Writes(t, r)
    BY <1>1, <1>3, <2>1 DEF Deliver, Work
  <2> HIDE DEF r
  <2> QED
    BY <1>1, <1>3, <2>1, <2>2, WritesIs DEF Deliver
<1>4. CASE Cancel(t)
  <2> DEFINE r == [work[t] EXCEPT !.status = "cancelled"]
  <2>1. r \in Work /\ r.round = work[t].round /\ r.status = "cancelled" /\ Writes(t, r)
    BY <1>1, <1>4 DEF Cancel, Work
  <2> HIDE DEF r
  <2> QED
    BY <1>1, <1>4, <2>1, WritesIs DEF Cancel
<1>5. CASE Reset(t)
  <2> DEFINE r == [work[t] EXCEPT !.status = "pending", !.accepted = FALSE]
  <2>1. r \in Work /\ r.round = work[t].round /\ r.status = "pending" /\ Writes(t, r)
    BY <1>1, <1>5 DEF Reset, Work
  <2> HIDE DEF r
  <2> QED
    BY <1>1, <1>5, <2>1, WritesIs DEF Reset
<1> QED
  BY <1>2, <1>3, <1>4, <1>5

LEMMA EndReviewInv ==
  ASSUME SupersedeInv, EndReview
  PROVE  SupersedeInv'
<1> DEFINE t == review.task
<1>1. /\ lock \in [Tasks -> Deciders \cup {NoOne, "reviewer"}] /\ planLock \in [PlanIds -> Deciders \cup {NoOne}]
      /\ review \in ReviewRecord /\ work \in [Tasks -> Work] /\ t \in Tasks /\ lapses \in 0 .. LapseBound
      /\ UNCHANGED <<decided, saved, planLock, token, decision, promised, lapses>> /\ review' = NoReview
      /\ lock' = [lock EXCEPT ![t] = IF @ = "reviewer" THEN NoOne ELSE @]
  BY DEF EndReview, SupersedeInv, SupersedeTypeOK, ReviewRecord
<1>2. lock' \in [Tasks -> Deciders \cup {NoOne, "reviewer"}]
  BY <1>1
<1>3. CASE UNCHANGED <<work, moved, verdicts>>
  BY <1>1, <1>2, <1>3, LocksMove
<1>4. ASSUME work[t].status = "done", work[t].round = review.round, ~work[t].accepted,
             Writes(t, [work[t] EXCEPT !.accepted = TRUE]), verdicts' = verdicts \cup {<<t, review.round, "accepted">>}
      PROVE SupersedeInv'
  <2> DEFINE r == [work[t] EXCEPT !.accepted = TRUE]
             n == review.round
  <2>1. r \in Work /\ r.status = "done" /\ r.accepted = TRUE /\ r.round = n /\ Writes(t, r)
    BY <1>1, <1>4 DEF Work
  <2>2. n \in 0 .. RoundBound /\ verdicts' = verdicts \cup {<<t, n, "accepted">>}
    BY <1>1, <1>4, SupersedeAssumption DEF SupersedeInv, Work
  <2>3. /\ SupersedeTypeOK /\ VerdictsAreSeen /\ OneVerdict /\ DecidedIsSuperseded /\ AnswerIsDurable
        /\ \A u \in Tasks : work[u].round <= RoundBound
    BY DEF SupersedeInv
  <2> HIDE DEF r
  <2>4. /\ work' \in [Tasks -> Work] /\ work'[t] = r /\ \A u \in Tasks \ {t} : work'[u] = work[u]
        /\ moved' \subseteq PlanDeciders
    BY <1>1, <2>1 DEF Writes, Bump
  <2> HIDE DEF t, n
  <2>5. SupersedeTypeOK'
    <3>1. verdicts' \subseteq Tasks \X (0 .. RoundBound) \X {"accepted", "superseded"}
      BY <1>1, <2>2, <2>3 DEF SupersedeTypeOK
    <3> QED
      BY <1>1, <1>2, <2>3, <2>4, <3>1 DEF SupersedeTypeOK
  <2>6. work[t].status = "done" /\ work[t].round = n /\ r.round <= RoundBound
    BY <1>4, <2>1, <2>2, SupersedeAssumption DEF n, t
  <2>7. VerdictsAreSeen'
    <3>1. \A m \in 0 .. RoundBound : <<t, m, "superseded">> \notin verdicts'
      BY <1>1, <2>2, <2>3, <2>6 DEF VerdictsAreSeen
    <3>2. \A u \in Tasks \ {t}, m \in 0 .. RoundBound, v \in {"accepted", "superseded"} : <<u, m, v>> \in verdicts' <=> <<u, m, v>> \in verdicts
      BY <2>2
    <3>3. \A m \in 0 .. RoundBound : <<t, m, "accepted">> \in verdicts' => m <= r.round
      <4> SUFFICES ASSUME NEW m \in 0 .. RoundBound, <<t, m, "accepted">> \in verdicts'
                   PROVE  m <= n
        BY <2>1
      <4>1. m = n \/ <<t, m, "accepted">> \in verdicts
        BY <2>2
      <4>2. n <= n
        BY <2>2, SupersedeAssumption
      <4> QED
        BY <1>1, <2>3, <2>6, <4>1, <4>2 DEF VerdictsAreSeen
    <3> QED
      BY <2>1, <2>3, <2>4, <3>1, <3>2, <3>3 DEF VerdictsAreSeen
  <2>8. OneVerdict'
    <3>1. <<t, n, "superseded">> \notin verdicts
      BY <1>1, <2>2, <2>3, <2>6 DEF VerdictsAreSeen
    <3> QED
      BY <2>2, <2>3, <3>1 DEF OneVerdict
  <2>9. DecidedIsSuperseded' /\ AnswerIsDurable'
    <3>1. \A u \in Tasks : work[u].status = "superseded" => work'[u] = work[u]
      BY <2>4, <2>6
    <3>2. decided' = decided /\ saved' = saved /\ promised' = promised /\ promised \subseteq Tasks
      BY <1>1, <2>3 DEF SupersedeTypeOK
    <3> QED
      BY <2>3, <3>1, <3>2 DEF DecidedIsSuperseded, AnswerIsDurable
  <2>10. \A d \in Deciders : DeciderKnows(d)'
    <3>1. decision' = decision /\ saved' = saved
      BY <1>1
    <3> QED
      BY <2>4, <2>6, <3>1, DecidersKeep
  <2>11. \A u \in Tasks : work'[u].round <= RoundBound
    BY <2>3, <2>4, <2>6
  <2> QED
    BY <2>5, <2>7, <2>8, <2>9, <2>10, <2>11 DEF SupersedeInv
<1> QED
  BY <1>3, <1>4 DEF EndReview

\* The script's writes: done and unaccepted deliveries become superseded.
LEMMA SupersededIs ==
  ASSUME SupersedeInv, NEW d \in Deciders, NEW these \in SUBSET Tasks, NEW number \in Nat, NEW c \in Decision,
         Superseded(d, these, number), Step(d, c),
         \A t \in these : work[t].status = "done" /\ ~work[t].accepted,
         c.want = these, c.left = these, d \in TaskDeciders => \E t \in Tasks : these = {t},
         UNCHANGED <<saved, token, review, promised, lapses>>
  PROVE  SupersedeInv'
<1>1. /\ work \in [Tasks -> Work] /\ SupersedeTypeOK /\ VerdictsAreSeen /\ OneVerdict /\ DecidedIsSuperseded /\ AnswerIsDurable
      /\ \A u \in Tasks : work[u].round <= RoundBound /\ work[u].round \in Nat
      /\ decision \in [Deciders -> Decision \cup {NoDecision}] /\ decided \in [Tasks -> MarkAll] /\ RoundBound \in Nat
  BY SupersedeAssumption DEF SupersedeInv, SupersedeTypeOK, Work
<1>2. /\ work' = [t \in Tasks |-> IF t \in these THEN [work[t] EXCEPT !.status = "superseded"] ELSE work[t]]
      /\ decided' = [t \in Tasks |-> IF t \in these THEN [by |-> d, number |-> number] ELSE decided[t]]
      /\ verdicts' = verdicts \cup {<<t, work[t].round, "superseded">> : t \in these}
      /\ moved' \subseteq PlanDeciders
      /\ decision' = [decision EXCEPT ![d] = c] /\ UNCHANGED <<lock, planLock>>
      /\ saved' = saved /\ promised' = promised /\ UNCHANGED <<token, review, lapses>>
  BY DEF Superseded, Bump, Step
<1>3. \A t \in these : work'[t] \in Work /\ work'[t].status = "superseded" /\ work'[t].round = work[t].round
  <2> TAKE t \in these
  <2>1. work'[t] = [work[t] EXCEPT !.status = "superseded"] /\ work[t] \in Work
    BY <1>1, <1>2
  <2> QED
    BY <2>1 DEF Work
<1>4. \A t \in Tasks \ these : work'[t] = work[t] /\ decided'[t] = decided[t]
  BY <1>2
<1>5. work' \in [Tasks -> Work] /\ \A t \in Tasks : work'[t].round <= RoundBound
  BY <1>1, <1>2, <1>3, <1>4
<1>6. decided' \in [Tasks -> MarkAll]
  <2>1. [by |-> d, number |-> number] \in MarkAll
    BY DEF MarkAll
  <2> QED
    BY <1>1, <1>2, <2>1
<1>7. decision' \in [Deciders -> Decision \cup {NoDecision}] /\ decision'[d] = c /\ \A e \in Deciders \ {d} : decision'[e] = decision[e]
  BY <1>1, <1>2
<1>8. verdicts' \subseteq Tasks \X (0 .. RoundBound) \X {"accepted", "superseded"}
  <2>1. \A t \in these : work[t].round \in 0 .. RoundBound
    BY <1>1
  <2> QED
    BY <1>1, <1>2, <2>1 DEF SupersedeTypeOK
<1>9. SupersedeTypeOK'
  BY <1>1, <1>2, <1>5, <1>6, <1>7, <1>8 DEF SupersedeTypeOK
<1>10. \A u \in Tasks, n \in 0 .. RoundBound : <<u, n, "accepted">> \in verdicts' <=> <<u, n, "accepted">> \in verdicts
  BY <1>2
<1>11. \A u \in Tasks, n \in 0 .. RoundBound :
         <<u, n, "superseded">> \in verdicts' <=> <<u, n, "superseded">> \in verdicts \/ (u \in these /\ n = work[u].round)
  BY <1>2
<1>12. \A u \in these, n \in 0 .. RoundBound :
         <<u, n, "superseded">> \notin verdicts /\ (<<u, n, "accepted">> \in verdicts => n <= work[u].round /\ n # work[u].round)
  BY <1>1 DEF VerdictsAreSeen
<1>13. VerdictsAreSeen'
  <2> SUFFICES ASSUME NEW u \in Tasks, NEW n \in 0 .. RoundBound
               PROVE  /\ <<u, n, "accepted">> \in verdicts' =>
                           /\ n <= work'[u].round
                           /\ n = work'[u].round => \/ work'[u].status \in {"pending", "cancelled"}
                                                    \/ work'[u].status = "done" /\ work'[u].accepted
                      /\ <<u, n, "superseded">> \in verdicts' => n = work'[u].round /\ work'[u].status = "superseded"
    BY DEF VerdictsAreSeen
  <2>1. CASE u \in these
    BY <1>3, <1>10, <1>11, <1>12, <2>1
  <2>2. CASE u \notin these
    BY <1>1, <1>4, <1>10, <1>11, <2>2 DEF VerdictsAreSeen
  <2> QED
    BY <2>1, <2>2
<1>14. OneVerdict'
  BY <1>1, <1>10, <1>11, <1>12 DEF OneVerdict
<1>15. DecidedIsSuperseded' /\ AnswerIsDurable'
  BY <1>1, <1>2, <1>3, <1>4 DEF DecidedIsSuperseded, AnswerIsDurable, SupersedeTypeOK
<1>16. \A e \in Deciders : DeciderKnows(e)'
  <2>1. DeciderKnows(d)'
    BY <1>2, <1>3, <1>7 DEF DeciderKnows
  <2>2. \A u \in Tasks : work[u].status = "superseded" => work'[u] = work[u]
    BY <1>4
  <2>3. ASSUME NEW e \in Deciders \ {d} PROVE DeciderKnows(e)'
    <3>1. decision[e] # NoDecision => decision[e].want \subseteq Tasks
      BY <1>1 DEF Decision
    <3>2. DeciderKnows(e) /\ decision'[e] = decision[e]
      BY <1>7, <2>3 DEF SupersedeInv
    <3> QED
      BY <1>2, <2>2, <3>1, <3>2 DEF DeciderKnows
  <2> QED
    BY <2>1, <2>3
<1> QED
  BY <1>5, <1>9, <1>13, <1>14, <1>15, <1>16 DEF SupersedeInv

LEMMA CommitInv ==
  ASSUME SupersedeInv,
         \/ \E d \in PlanDeciders : CommitPlan(d)
         \/ \E d \in TaskDeciders : CommitTask(d)
  PROVE  SupersedeInv'
<1>1. ASSUME NEW d \in Deciders, Is(d, "commit"), NEW number \in Nat, Unchanged(d, decision[d].want),
             Superseded(d, decision[d].want, number),
             Step(d, [decision[d] EXCEPT !.at = "persist", !.left = decision[d].want, !.seen = Absent]),
             UNCHANGED <<saved, token, review, promised, lapses>>
      PROVE  SupersedeInv'
  <2> DEFINE these == decision[d].want
             c == [decision[d] EXCEPT !.at = "persist", !.left = these, !.seen = Absent]
  <2>1. decision[d] \in Decision /\ these \in SUBSET Tasks /\ (d \in TaskDeciders => \E t \in Tasks : these = {t})
    BY <1>1, DecisionKnows DEF Is
  <2>2. \A t \in these : work[t].status = "done" /\ ~work[t].accepted
    BY <1>1 DEF Unchanged
  <2>3. Step(d, c) /\ Superseded(d, these, number)
    BY <1>1
  <2>4. c.want = these
    BY <2>1 DEF Decision
  <2> HIDE DEF these
  <2>5. c \in Decision /\ c.left = these
    BY <2>1, AbsentIs DEF Decision
  <2> HIDE DEF c
  <2> QED
    BY <1>1, <2>1, <2>2, <2>3, <2>4, <2>5, SupersededIs
<1>2. ASSUME NEW d \in Deciders, Leaves(d), UNCHANGED <<work, moved, decided, verdicts>>,
             UNCHANGED <<saved, token, review, promised, lapses>>
      PROVE  SupersedeInv'
  <2>1. moved' \subseteq PlanDeciders
    BY <1>2 DEF SupersedeInv, SupersedeTypeOK
  <2> QED
    BY <1>2, <2>1, LeavesIs
<1>3. ASSUME NEW d \in PlanDeciders, CommitPlan(d) PROVE SupersedeInv'
  <2>1. d \in Deciders /\ token[d].number \in Nat
    BY DEF Deciders, SupersedeInv, SupersedeTypeOK
  <2> QED
    BY <1>1, <1>2, <1>3, <2>1 DEF CommitPlan
<1>4. ASSUME NEW d \in TaskDeciders, CommitTask(d) PROVE SupersedeInv'
  <2>1. d \in Deciders /\ 0 \in Nat
    BY DEF Deciders
  <2> QED
    BY <1>1, <1>2, <1>4, <2>1 DEF CommitTask
<1> QED
  BY <1>3, <1>4

LEMMA StartTaskInv ==
  ASSUME SupersedeInv, NEW d \in TaskDeciders, NEW t \in Tasks, StartTask(d, t)
  PROVE  SupersedeInv'
<1>1. /\ UNCHANGED <<work, moved, decided, saved, planLock, token, review, verdicts, promised, lapses>>
      /\ lock' = [lock EXCEPT ![t] = d]
      /\ decision' = [decision EXCEPT ![d] = [Fresh(PlanOf(t)) EXCEPT !.want = {t}, !.held = {t}]]
      /\ d \in Deciders
      /\ SupersedeTypeOK /\ AnswerIsDurable /\ decision \in [Deciders -> Decision \cup {NoDecision}]
  BY DEF StartTask, SupersedeInv, SupersedeTypeOK, Deciders
<1> DEFINE c == [Fresh(PlanOf(t)) EXCEPT !.want = {t}, !.held = {t}]
<1>2. PlanOf(t) \in PlanIds
  BY SupersedeAssumption
<1>3. c \in Decision /\ c.at = "look" /\ c.want = {t} /\ decision' = [decision EXCEPT ![d] = c]
  BY <1>1, <1>2, AbsentIs DEF Fresh, Decision
<1> HIDE DEF c
<1>4. decision'[d] = c /\ AnswerIsDurable'
  BY <1>1, <1>3 DEF AnswerIsDurable
<1>5. DeciderKnows(d)'
  BY <1>3, <1>4 DEF DeciderKnows
<1>6. /\ planLock' \in [PlanIds -> Deciders \cup {NoOne}] /\ lock' \in [Tasks -> Deciders \cup {NoOne, "reviewer"}]
      /\ moved' \subseteq PlanDeciders /\ saved' \in SUBSET Tasks /\ promised' \in SUBSET Tasks
  BY <1>1 DEF SupersedeTypeOK
<1> QED
  BY <1>1, <1>3, <1>4, <1>5, <1>6, DecisionIs

LEMMA LookAtTaskInv ==
  ASSUME SupersedeInv, NEW d \in TaskDeciders, LookAtTask(d)
  PROVE  SupersedeInv'
<1> DEFINE t == CHOOSE u \in decision[d].want : TRUE
<1>1. /\ UNCHANGED <<work, moved, decided, saved, token, review, verdicts, promised, lapses>>
      /\ d \in Deciders /\ ~Idle(d) /\ moved' \subseteq PlanDeciders /\ saved \in SUBSET Tasks
  BY DEF LookAtTask, Is, SupersedeInv, SupersedeTypeOK, Deciders
<1>2. decision[d] \in Decision /\ \E u \in Tasks : decision[d].want = {u}
  BY <1>1, DecisionKnows
<1>3. t \in Tasks /\ decision[d].want = {t}
  BY <1>2
<1>4. /\ \/ work[t].status = "superseded" /\ Step(d, [decision[d] EXCEPT !.at = "persist", !.left = {t}])
         \/ Step(d, [decision[d] EXCEPT !.at = "tasks", !.seen = [Absent EXCEPT ![t] = work[t]]])
         \/ Leaves(d)
  BY DEF LookAtTask
<1> HIDE DEF t
<1>5. ASSUME work[t].status = "superseded", Step(d, [decision[d] EXCEPT !.at = "persist", !.left = {t}])
      PROVE  SupersedeInv'
  <2> DEFINE c == [decision[d] EXCEPT !.at = "persist", !.left = {t}]
  <2>1. Step(d, c) /\ c \in Decision /\ c.want = {t} /\ c.left = {t}
    BY <1>2, <1>3, <1>5 DEF Decision
  <2> HIDE DEF c
  <2> QED
    BY <1>1, <1>3, <1>5, <2>1, StepIs
<1>6. ASSUME Step(d, [decision[d] EXCEPT !.at = "tasks", !.seen = [Absent EXCEPT ![t] = work[t]]])
      PROVE  SupersedeInv'
  <2> DEFINE seen == [Absent EXCEPT ![t] = work[t]]
             c == [decision[d] EXCEPT !.at = "tasks", !.seen = seen]
  <2>1. work[t] \in Work
    BY <1>3 DEF SupersedeInv, SupersedeTypeOK
  <2>2. seen \in [Tasks -> Work] /\ Step(d, c)
    BY <1>3, <1>6, <2>1, AbsentIs
  <2> HIDE DEF seen
  <2>3. c \in Decision /\ c.want = {t} /\ c.at = "tasks"
    BY <1>2, <1>3, <2>2 DEF Decision
  <2> HIDE DEF c
  <2> QED
    BY <1>1, <1>3, <2>2, <2>3, StepIs
<1> QED
  BY <1>1, <1>4, <1>5, <1>6, LeavesIs

LEMMA ReadDependentsInv ==
  ASSUME SupersedeInv, NEW d \in TaskDeciders, ReadDependents(d)
  PROVE  SupersedeInv'
<1>1. /\ UNCHANGED <<work, moved, decided, saved, token, review, verdicts, promised, lapses>>
      /\ d \in Deciders /\ ~Idle(d) /\ moved' \subseteq PlanDeciders /\ saved \in SUBSET Tasks
  BY DEF ReadDependents, Is, SupersedeInv, SupersedeTypeOK, Deciders
<1>2. decision[d] \in Decision /\ \E u \in Tasks : decision[d].want = {u}
  BY <1>1, DecisionKnows
<1>3. ASSUME Step(d, [decision[d] EXCEPT !.at = "commit"]) PROVE SupersedeInv'
  <2> DEFINE c == [decision[d] EXCEPT !.at = "commit"]
  <2>1. Step(d, c) /\ c \in Decision /\ c.want = decision[d].want /\ c.at = "commit"
    BY <1>2, <1>3 DEF Decision
  <2> HIDE DEF c
  <2> QED
    BY <1>1, <1>2, <2>1, StepIs
<1> QED
  BY <1>1, <1>3, LeavesIs DEF ReadDependents

LEMMA PersistInv ==
  ASSUME SupersedeInv, NEW d \in Deciders, NEW t \in Tasks, Persist(d, t)
  PROVE  SupersedeInv'
<1>1. /\ UNCHANGED <<work, moved, decided, token, review, verdicts, promised, lapses>> /\ saved' = saved \cup {t}
      /\ ~Idle(d) /\ moved' \subseteq PlanDeciders /\ saved' \in SUBSET Tasks /\ decision[d].at = "persist"
      /\ Step(d, [decision[d] EXCEPT !.left = @ \ {t}])
  BY DEF Persist, Is, SupersedeInv, SupersedeTypeOK
<1> DEFINE c == [decision[d] EXCEPT !.left = @ \ {t}]
<1>2. /\ decision[d] \in Decision /\ (d \in TaskDeciders => \E u \in Tasks : decision[d].want = {u})
      /\ \A u \in decision[d].want : work[u].status = "superseded" /\ (u \in decision[d].left \/ u \in saved)
  BY <1>1, DecisionKnows
<1>3. Step(d, c) /\ c \in Decision /\ c.want = decision[d].want /\ c.left = decision[d].left \ {t}
  BY <1>1, <1>2 DEF Decision
<1> HIDE DEF c
<1>4. \A u \in c.want : work[u].status = "superseded" /\ (u \in c.left \/ u \in saved')
  BY <1>1, <1>2, <1>3
<1> QED
  BY <1>1, <1>2, <1>3, <1>4, StepIs

LEMMA AnswerDecisionInv ==
  ASSUME SupersedeInv, NEW d \in Deciders, AnswerDecision(d)
  PROVE  SupersedeInv'
<1>1. /\ UNCHANGED <<work, moved, decided, saved, token, review, verdicts, lapses>>
      /\ promised' = promised \cup decision[d].want
      /\ ~Idle(d) /\ decision[d].at = "persist" /\ decision[d].left = {} /\ Leaves(d)
  BY DEF AnswerDecision, Is
<1>2. /\ lock \in [Tasks -> Deciders \cup {NoOne, "reviewer"}] /\ planLock \in [PlanIds -> Deciders \cup {NoOne}]
      /\ saved \in SUBSET Tasks /\ promised \in SUBSET Tasks /\ AnswerIsDurable /\ moved' \subseteq PlanDeciders
  BY <1>1 DEF SupersedeInv, SupersedeTypeOK
<1>3. lock' \in [Tasks -> Deciders \cup {NoOne, "reviewer"}] /\ planLock' \in [PlanIds -> Deciders \cup {NoOne}]
  BY <1>1, <1>2 DEF Leaves
<1>4. decision[d].want \in SUBSET Tasks /\ \A u \in decision[d].want : work[u].status = "superseded" /\ u \in saved
  BY <1>1, DecisionKnows
<1>5. AnswerIsDurable' /\ promised' \in SUBSET Tasks
  BY <1>1, <1>2, <1>4 DEF AnswerIsDurable
<1>6. decision' = [decision EXCEPT ![d] = NoDecision]
  BY <1>1 DEF Leaves
<1> QED
  BY <1>1, <1>2, <1>3, <1>5, <1>6, DecisionIs

LEMMA FailsInv ==
  ASSUME SupersedeInv, NEW d \in Deciders, Fails(d)
  PROVE  SupersedeInv'
<1>1. moved' \subseteq PlanDeciders
  BY DEF Fails, SupersedeInv, SupersedeTypeOK
<1> QED
  BY <1>1, LeavesIs DEF Fails

LEMMA SupersedeInvStep == SupersedeInv /\ [SupersedeNext]_supersedeVars => SupersedeInv'
<1> SUFFICES ASSUME SupersedeInv, [SupersedeNext]_supersedeVars PROVE SupersedeInv'
  OBVIOUS
<1>1. CASE UNCHANGED supersedeVars
  <2>1. SupersedeTypeOK' /\ AnswerIsDurable'
    BY <1>1 DEF supersedeVars, SupersedeInv, SupersedeTypeOK, AnswerIsDurable
  <2> QED
    BY <1>1, <2>1, RequestsMove DEF supersedeVars
<1>2. CASE SupersedeNext
  <2>1. CASE \E d \in PlanDeciders, p \in PlanIds : PreviewPlan(d, p) \/ StartPlan(d, p)
    BY <2>1, PreviewPlanInv, StartPlanInv
  <2>2. CASE \E d \in PlanDeciders : Look(d) \/ ReadTasks(d) \/ ReadRevisions(d) \/ CommitPlan(d) \/ GivesUp(d)
    BY <2>2, LookInv, ReadTasksInv, CommitInv
  <2>3. CASE \E d \in PlanDeciders, t \in Tasks : Take(d, t)
    BY <2>3, TakeInv
  <2>4. CASE \E d \in TaskDeciders, t \in Tasks : StartTask(d, t)
    BY <2>4, StartTaskInv
  <2>5. CASE \E d \in TaskDeciders : LookAtTask(d) \/ ReadDependents(d) \/ CommitTask(d)
    BY <2>5, LookAtTaskInv, ReadDependentsInv, CommitInv
  <2>6. CASE \E d \in Deciders, t \in Tasks : Persist(d, t)
    BY <2>6, PersistInv
  <2>7. CASE \E d \in Deciders : AnswerDecision(d) \/ Fails(d)
    BY <2>7, AnswerDecisionInv, FailsInv
  <2>8. CASE \E t \in Tasks : LockLapses(t) \/ PublishLate(t) \/ Deliver(t) \/ Cancel(t) \/ Reset(t) \/ BeginReview(t)
    BY <2>8, LocksLapseInv, WritingInv
  <2>9. CASE (\E p \in PlanIds : PlanLockLapses(p)) \/ EndReview
    BY <2>9, LocksLapseInv, EndReviewInv
  <2> QED
    BY <1>2, <2>1, <2>2, <2>3, <2>4, <2>5, <2>6, <2>7, <2>8, <2>9 DEF SupersedeNext
<1> QED
  BY <1>1, <1>2

\* Only a task that is not superseded is written, by a decision or otherwise.
LEMMA DecisionStaysStep == SupersedeInv /\ [SupersedeNext]_supersedeVars => DecisionStays \/ UNCHANGED supersedeVars
<1> SUFFICES ASSUME SupersedeInv, SupersedeNext, NEW u \in Tasks, decided[u].by # NoOne
             PROVE  decided'[u] = decided[u] /\ work'[u].status = "superseded"
  BY DEF DecisionStays
<1>1. work[u].status = "superseded" /\ work \in [Tasks -> Work]
  BY DEF SupersedeInv, DecidedIsSuperseded, SupersedeTypeOK
<1>2. CASE UNCHANGED <<work, decided>>
  BY <1>1, <1>2
<1>3. ASSUME NEW t \in Tasks, NEW r, Writes(t, r), decided' = decided, work[t].status # "superseded"
      PROVE  decided'[u] = decided[u] /\ work'[u].status = "superseded"
  BY <1>1, <1>3 DEF Writes
<1>4. ASSUME NEW d \in Deciders, NEW these, NEW number, Unchanged(d, these), Superseded(d, these, number)
      PROVE  decided'[u] = decided[u] /\ work'[u].status = "superseded"
  <2>1. u \notin these
    BY <1>1, <1>4 DEF Unchanged
  <2> QED
    BY <1>1, <1>4, <2>1 DEF Superseded
<1>5. ASSUME NEW d \in PlanDeciders, CommitPlan(d) PROVE decided'[u] = decided[u] /\ work'[u].status = "superseded"
  BY <1>2, <1>4, <1>5 DEF CommitPlan, Deciders
<1>6. ASSUME NEW d \in TaskDeciders, CommitTask(d) PROVE decided'[u] = decided[u] /\ work'[u].status = "superseded"
  BY <1>2, <1>4, <1>6 DEF CommitTask, Deciders
<1>7. ASSUME NEW t \in Tasks, PublishLate(t) \/ Deliver(t) \/ Cancel(t) \/ Reset(t)
      PROVE decided'[u] = decided[u] /\ work'[u].status = "superseded"
  BY <1>3, <1>7 DEF PublishLate, Deliver, Cancel, Reset
<1>8. ASSUME EndReview PROVE decided'[u] = decided[u] /\ work'[u].status = "superseded"
  <2>1. review.task \in Tasks
    BY <1>8 DEF EndReview, SupersedeInv, SupersedeTypeOK
  <2> QED
    BY <1>2, <1>3, <1>8, <2>1 DEF EndReview
<1>9. ASSUME NEW d \in PlanDeciders, NEW p \in PlanIds, PreviewPlan(d, p) \/ StartPlan(d, p) PROVE UNCHANGED <<work, decided>>
  BY <1>9 DEF PreviewPlan, StartPlan
<1>10. ASSUME NEW d \in PlanDeciders, Look(d) \/ ReadTasks(d) \/ ReadRevisions(d) \/ GivesUp(d) PROVE UNCHANGED <<work, decided>>
  BY <1>10 DEF Look, ReadTasks, ReadRevisions, GivesUp
<1>11. ASSUME NEW d \in Deciders, NEW t \in Tasks, Take(d, t) \/ StartTask(d, t) \/ Persist(d, t) PROVE UNCHANGED <<work, decided>>
  BY <1>11 DEF Take, StartTask, Persist
<1>12. ASSUME NEW d \in Deciders, LookAtTask(d) \/ ReadDependents(d) \/ AnswerDecision(d) \/ Fails(d) PROVE UNCHANGED <<work, decided>>
  BY <1>12 DEF LookAtTask, ReadDependents, AnswerDecision, Fails
<1>13. ASSUME NEW t \in Tasks, LockLapses(t) \/ BeginReview(t) PROVE UNCHANGED <<work, decided>>
  BY <1>13 DEF LockLapses, BeginReview
<1>14. ASSUME NEW p \in PlanIds, PlanLockLapses(p) PROVE UNCHANGED <<work, decided>>
  BY <1>14 DEF PlanLockLapses
<1>15. PlanDeciders \subseteq Deciders /\ TaskDeciders \subseteq Deciders
  BY DEF Deciders
<1> QED
  BY <1>2, <1>5, <1>6, <1>7, <1>8, <1>9, <1>10, <1>11, <1>12, <1>13, <1>14, <1>15 DEF SupersedeNext

LEMMA SupersedeInvHolds == SupersedeSpec => []SupersedeInv
BY InitSupersedeInv, SupersedeInvStep, PTL DEF SupersedeSpec

\* The superseding decisions and what they are computed from keep to their types.
THEOREM SupersedeTypes == SupersedeSpec => []SupersedeTypeOK
<1>1. SupersedeInv => SupersedeTypeOK
  BY DEF SupersedeInv
<1> QED
  BY <1>1, SupersedeInvHolds, PTL

\* A delivery is accepted or superseded and never both, whoever is told that tasks
\* are superseded finds them so after a restore, and a decision never changes hands.
THEOREM Supersede_Safe == SupersedeSpec => SupersedeIsSafe
<1>1. SupersedeInv => OneVerdict /\ AnswerIsDurable
  BY DEF SupersedeInv
<1>2. SupersedeInv /\ [SupersedeNext]_supersedeVars => [DecisionStays]_supersedeVars
  BY DecisionStaysStep
<1> QED
  BY <1>1, <1>2, SupersedeInvHolds, PTL DEF SupersedeSpec, SupersedeIsSafe

-----------------------------------------------------------------------------
(* The reservations of a wake-up *)

WakeDataOK ==
  /\ state \in [WakeTasks -> {"pending", "running", "done"}]
  /\ holder \in [WakeTasks -> Bound \cup {NoAgent}]
  /\ under \in [WakeTasks -> Ids \cup {0}] /\ mark \in [WakeTasks -> Ids \cup {0}]
  /\ reservation \in [Ids -> Reservation \cup {NoReservation}]
  /\ files \in [Bound \X WakeTasks -> {"none", "short", "long"}]
  /\ reserving \in [Ids -> {"none", "acquire", "release", "unown", "answered"}]
  /\ failing \in [Ids -> {"none", "release", "unown"}]
  /\ call \in [Bound -> Claim \cup {NoCall}]
  /\ receipt \in [Ids -> {"none", "succeeded", "failed"}]
  /\ redeemed \in [Ids -> Nat]

Taken(n) == Made(n) /\ reservation[n].status = "claimed"

\* What refers to a reservation refers to one that was made, and it is redeemed once.
ReferencesAreMade ==
  /\ \A n \in Ids : (reserving[n] # "none" \/ failing[n] # "none") => Made(n)
  /\ \A t \in WakeTasks : (mark[t] # 0 => Made(mark[t])) /\ (under[t] # 0 => Taken(under[t]))
  /\ \A a \in Bound : call[a] # NoCall =>
       (call[a].id # 0 => Made(call[a].id)) /\ (call[a].at = "launch" => call[a].id # 0)
  /\ \A n \in Ids : redeemed[n] = (IF Taken(n) THEN 1 ELSE 0) /\ (receipt[n] = "succeeded" => Taken(n))

\* The files of a claim in flight.
CallFiles(a) == call[a] # NoCall =>
  /\ call[a].at \in {"acquire", "script"} => HoldsNothing(a)
  /\ call[a].at = "acquire" => files[<<a, call[a].task>>] # "long"
  /\ (call[a].at = "launch" /\ files[<<a, call[a].task>>] = "long") => state[call[a].task] = "running" /\ holder[call[a].task] = a
FilesAreKnown == NoStrandedFiles /\ \A a \in Bound : CallFiles(a)

WakeInv == WakeDataOK /\ ReferencesAreMade /\ KeptForOne /\ FilesAreKnown

LEMMA WakeTypesFollow == WakeInv => WakeTypeOK
BY DEF WakeInv, WakeDataOK, ReferencesAreMade, Taken, WakeTypeOK

LEMMA InitWakeInv == WakeInit => WakeInv
<1> SUFFICES ASSUME WakeInit PROVE WakeInv
  OBVIOUS
<1>1. /\ \A t \in WakeTasks : state[t] = "pending" /\ mark[t] = 0 /\ under[t] = 0
      /\ \A n \in Ids : reservation[n] = NoReservation /\ reserving[n] = "none" /\ failing[n] = "none" /\ receipt[n] = "none" /\ redeemed[n] = 0
      /\ \A a \in Bound, t \in WakeTasks : files[<<a, t>>] = "none"
      /\ \A a \in Bound : call[a] = NoCall
  BY DEF WakeInit
<1>2. WakeDataOK
  BY DEF WakeInit, WakeDataOK
<1> QED
  BY <1>1, <1>2 DEF WakeInv, ReferencesAreMade, Taken, Made, KeptForOne, Reserved, FilesAreKnown, NoStrandedFiles, CallFiles

\* Only reservations and marks move.
LEMMA NoFilesMove ==
  ASSUME WakeInv, UNCHANGED <<state, holder, files, call>>
  PROVE  FilesAreKnown'
BY DEF WakeInv, FilesAreKnown, NoStrandedFiles, CallFiles, HoldsNothing

\* Reservations that were made stay so, and what is new refers to one of them.
LEMMA ReferencesStay ==
  ASSUME WakeDataOK, ReferencesAreMade,
         \A m \in Ids : (Made(m) => Made(m)') /\ (Taken(m) => Taken(m)'),
         \A m \in Ids : (reserving'[m] # "none" \/ failing'[m] # "none") => Made(m)',
         \A u \in WakeTasks : mark'[u] = mark[u] \/ mark'[u] = 0 \/ \E m \in Ids : mark'[u] = m /\ Made(m)',
         \A u \in WakeTasks : under'[u] = under[u] \/ under'[u] = 0 \/ \E m \in Ids : under'[u] = m /\ Taken(m)',
         \A b \in Bound : call'[b] = call[b] \/ call'[b] = NoCall
            \/ /\ call'[b].id = 0 \/ \E m \in Ids : call'[b].id = m /\ Made(m)'
               /\ call'[b].at = "launch" => call'[b].id # 0,
         \A m \in Ids : redeemed'[m] = (IF Taken(m)' THEN 1 ELSE 0) /\ (receipt'[m] = "succeeded" => Taken(m)')
  PROVE  ReferencesAreMade'
<1>1. \A u \in WakeTasks : (mark[u] # 0 => Made(mark[u]))'
  <2> TAKE u \in WakeTasks
  <2>1. mark[u] \in Ids \cup {0} /\ (mark[u] # 0 => Made(mark[u]))
    BY DEF WakeDataOK, ReferencesAreMade
  <2>2. mark'[u] = 0 \/ \E m \in Ids : mark'[u] = m /\ Made(m)'
    BY <2>1
  <2> QED
    BY <2>2 DEF Made
<1>2. \A u \in WakeTasks : (under[u] # 0 => Taken(under[u]))'
  <2> TAKE u \in WakeTasks
  <2>1. under[u] \in Ids \cup {0} /\ (under[u] # 0 => Taken(under[u]))
    BY DEF WakeDataOK, ReferencesAreMade
  <2>2. under'[u] = 0 \/ \E m \in Ids : under'[u] = m /\ Taken(m)'
    BY <2>1
  <2> QED
    BY <2>2 DEF Taken, Made
<1>3. \A b \in Bound : (call[b] # NoCall => (call[b].id # 0 => Made(call[b].id)) /\ (call[b].at = "launch" => call[b].id # 0))'
  <2> TAKE b \in Bound
  <2>1. call[b] # NoCall => call[b].id \in Ids \cup {0} /\ (call[b].id # 0 => Made(call[b].id)) /\ (call[b].at = "launch" => call[b].id # 0)
    BY DEF WakeDataOK, ReferencesAreMade, Claim
  <2>2. call'[b] # NoCall => (call'[b].id = 0 \/ \E m \in Ids : call'[b].id = m /\ Made(m)') /\ (call'[b].at = "launch" => call'[b].id # 0)
    BY <2>1
  <2> QED
    BY <2>2 DEF Made
<1> QED
  BY <1>1, <1>2, <1>3 DEF ReferencesAreMade

LEMMA ReserveInv ==
  ASSUME WakeInv, NEW n \in Ids, NEW a \in Bound, NEW t \in WakeTasks, Reserve(n, a, t)
  PROVE  WakeInv'
<1> DEFINE c == [task |-> t, agent |-> a, fresh |-> TRUE, status |-> "reserved"]
<1>1. /\ UNCHANGED <<state, holder, under, files, failing, call, receipt, redeemed>>
      /\ mark' = [mark EXCEPT ![t] = n] /\ reservation' = [reservation EXCEPT ![n] = c]
      /\ reserving' = [reserving EXCEPT ![n] = "acquire"] /\ ~Made(n) /\ state[t] = "pending" /\ ~Kept(t)
      /\ WakeDataOK /\ ReferencesAreMade /\ KeptForOne
  BY DEF Reserve, WakeInv
<1>2. c \in Reservation /\ c.task = t /\ c.status = "reserved"
  BY DEF Reservation
<1> HIDE DEF c
<1>9. c # NoReservation
  BY <1>2, WakeAssumption
<1>3. WakeDataOK'
  BY <1>1, <1>2 DEF WakeDataOK
<1>4. /\ reservation'[n] = c /\ \A m \in Ids \ {n} : reservation'[m] = reservation[m]
      /\ mark'[t] = n /\ \A u \in WakeTasks \ {t} : mark'[u] = mark[u]
      /\ reserving'[n] = "acquire" /\ \A m \in Ids \ {n} : reserving'[m] = reserving[m]
  BY <1>1 DEF WakeDataOK
<1>5. Made(n)' /\ ~Taken(n)' /\ ~Taken(n) /\ \A m \in Ids \ {n} : (Made(m)' <=> Made(m)) /\ (Taken(m)' <=> Taken(m))
  BY <1>1, <1>2, <1>4, <1>9 DEF Made, Taken
<1>6. \A m \in Ids : (Made(m) => Made(m)') /\ (Taken(m)' <=> Taken(m))
  BY <1>5
<1>7. ReferencesAreMade'
  <2>1. \A m \in Ids : (reserving'[m] # "none" \/ failing'[m] # "none") => Made(m)'
    BY <1>1, <1>4, <1>5 DEF ReferencesAreMade
  <2>2. \A u \in WakeTasks : mark'[u] = mark[u] \/ \E m \in Ids : mark'[u] = m /\ Made(m)'
    BY <1>4, <1>5
  <2>3. \A m \in Ids : redeemed'[m] = (IF Taken(m)' THEN 1 ELSE 0) /\ (receipt'[m] = "succeeded" => Taken(m)')
    BY <1>1, <1>6 DEF ReferencesAreMade
  <2> QED
    BY <1>1, <1>6, <2>1, <2>2, <2>3, ReferencesStay
<1>8. KeptForOne'
  <2> SUFFICES ASSUME NEW m \in Ids, Reserved(m)' PROVE state'[reservation'[m].task] = "pending" /\ mark'[reservation'[m].task] = m
    BY DEF KeptForOne
  <2>1. CASE m = n
    BY <1>1, <1>2, <1>4, <2>1
  <2>2. CASE m # n
    <3>1. Reserved(m) /\ reservation[m].task \in WakeTasks /\ m # 0
      BY <1>1, <1>4, <2>2 DEF Reserved, Made, WakeDataOK, Reservation, Ids
    <3>2. state[reservation[m].task] = "pending" /\ mark[reservation[m].task] = m
      BY <1>1, <3>1 DEF KeptForOne
    <3>3. reservation[m].task # t
      BY <1>1, <3>1, <3>2 DEF Kept, Reserved
    <3> QED
      BY <1>1, <1>4, <2>2, <3>1, <3>2, <3>3
  <2> QED
    BY <2>1, <2>2
<1> QED
  BY <1>1, <1>3, <1>7, <1>8, NoFilesMove DEF WakeInv

\* Tasks, reservations and claims stay; requests move on and records of files shrink.
LEMMA RequestsGoOn ==
  ASSUME WakeInv, UNCHANGED <<taskVars, reservation, redeemed, call>>,
         files' \in [Bound \X WakeTasks -> {"none", "short", "long"}],
         reserving' \in [Ids -> {"none", "acquire", "release", "unown", "answered"}],
         failing' \in [Ids -> {"none", "release", "unown"}],
         receipt' \in [Ids -> {"none", "succeeded", "failed"}],
         \A m \in Ids : (reserving'[m] # "none" \/ failing'[m] # "none") => Made(m),
         \A m \in Ids : receipt'[m] = "succeeded" => Taken(m),
         \A r \in Bound \X WakeTasks : files'[r] = "long" => files[r] = "long"
  PROVE  WakeInv'
<1>1. WakeDataOK /\ ReferencesAreMade /\ KeptForOne /\ NoStrandedFiles /\ \A a \in Bound : CallFiles(a)
  BY DEF WakeInv, FilesAreKnown
<1>2. /\ state' = state /\ holder' = holder /\ under' = under /\ mark' = mark /\ reservation' = reservation
      /\ redeemed' = redeemed /\ call' = call
  BY DEF taskVars
<1>3. WakeDataOK'
  BY <1>1, <1>2 DEF WakeDataOK
<1>4. \A m \in Ids : (Made(m)' <=> Made(m)) /\ (Taken(m)' <=> Taken(m))
  BY <1>2 DEF Made, Taken
<1>5. ReferencesAreMade'
  <2>1. \A m \in Ids : redeemed'[m] = (IF Taken(m)' THEN 1 ELSE 0) /\ (receipt'[m] = "succeeded" => Taken(m)')
    BY <1>1, <1>2, <1>4 DEF ReferencesAreMade
  <2> QED
    BY <1>1, <1>2, <1>4, <2>1, ReferencesStay
<1>6. KeptForOne'
  BY <1>1, <1>2 DEF KeptForOne, Reserved, Made
<1>7. NoStrandedFiles'
  BY <1>1, <1>2 DEF NoStrandedFiles
<1>8. \A a \in Bound : CallFiles(a)'
  <2> TAKE a \in Bound
  <2>1. call[a] # NoCall => <<a, call[a].task>> \in Bound \X WakeTasks
    BY <1>1 DEF WakeDataOK, Claim
  <2>2. call[a] # NoCall => (files'[<<a, call[a].task>>] = "long" => files[<<a, call[a].task>>] = "long")
    BY <2>1
  <2> QED
    BY <1>1, <1>2, <2>2 DEF CallFiles, HoldsNothing
<1> QED
  BY <1>3, <1>5, <1>6, <1>7, <1>8 DEF WakeInv, FilesAreKnown

LEMMA WakeFacts ==
  ASSUME WakeInv
  PROVE  /\ files \in [Bound \X WakeTasks -> {"none", "short", "long"}]
         /\ reserving \in [Ids -> {"none", "acquire", "release", "unown", "answered"}]
         /\ failing \in [Ids -> {"none", "release", "unown"}]
         /\ receipt \in [Ids -> {"none", "succeeded", "failed"}]
         /\ \A m \in Ids : (reserving[m] # "none" \/ failing[m] # "none") => Made(m)
         /\ \A m \in Ids : receipt[m] = "succeeded" => Taken(m)
BY DEF WakeInv, WakeDataOK, ReferencesAreMade

\* Files are taken for a reservation, or given back.
LEMMA OwnsIs ==
  ASSUME WakeInv, NEW a, NEW t, NEW term \in {"none", "short"}, Owns(a, t, term)
  PROVE  /\ files' \in [Bound \X WakeTasks -> {"none", "short", "long"}]
         /\ \A r \in Bound \X WakeTasks : files'[r] = "long" => files[r] = "long"
<1>1. files \in [Bound \X WakeTasks -> {"none", "short", "long"}] /\ files' = [files EXCEPT ![<<a, t>>] = term]
  BY WakeFacts DEF Owns
<1> QED
  BY <1>1

LEMMA RequestsInv ==
  ASSUME WakeInv, NEW n \in Ids,
         Acquire(n) \/ UnownUnavailable(n) \/ UnownFailed(n) \/ WakeSucceeds(n) \/ WakeFails(n)
  PROVE  WakeInv'
<1>1. CASE Acquire(n)
  <2>1. UNCHANGED <<taskVars, reservation, redeemed, call>> /\ failing' = failing /\ receipt' = receipt
    BY <1>1 DEF Acquire
  <2>2. /\ files' \in [Bound \X WakeTasks -> {"none", "short", "long"}]
        /\ \A r \in Bound \X WakeTasks : files'[r] = "long" => files[r] = "long"
    BY <1>1, WakeFacts, OwnsIs DEF Acquire
  <2>3. \E s \in {"release", "answered"} : reserving' = [reserving EXCEPT ![n] = s]
    BY <1>1 DEF Acquire
  <2>4. reserving[n] # "none"
    BY <1>1 DEF Acquire
  <2>5. reserving' \in [Ids -> {"none", "acquire", "release", "unown", "answered"}] /\ \A m \in Ids : reserving'[m] # "none" => Made(m)
    BY <2>3, <2>4, WakeFacts
  <2> QED
    BY <2>1, <2>2, <2>5, WakeFacts, RequestsGoOn
<1>2. CASE UnownUnavailable(n)
  <2>1. UNCHANGED <<taskVars, reservation, redeemed, call>> /\ failing' = failing /\ receipt' = receipt
    BY <1>2 DEF UnownUnavailable
  <2>2. /\ files' \in [Bound \X WakeTasks -> {"none", "short", "long"}]
        /\ \A r \in Bound \X WakeTasks : files'[r] = "long" => files[r] = "long"
    BY <1>2, OwnsIs DEF UnownUnavailable
  <2>3. reserving' = [reserving EXCEPT ![n] = "none"]
    BY <1>2 DEF UnownUnavailable
  <2>4. reserving' \in [Ids -> {"none", "acquire", "release", "unown", "answered"}] /\ \A m \in Ids : reserving'[m] # "none" => Made(m)
    BY <2>3, WakeFacts
  <2> QED
    BY <2>1, <2>2, <2>4, WakeFacts, RequestsGoOn
<1>3. CASE UnownFailed(n)
  <2>1. UNCHANGED <<taskVars, reservation, redeemed, call>> /\ reserving' = reserving /\ receipt' = receipt
    BY <1>3 DEF UnownFailed
  <2>2. /\ files' \in [Bound \X WakeTasks -> {"none", "short", "long"}]
        /\ \A r \in Bound \X WakeTasks : files'[r] = "long" => files[r] = "long"
    BY <1>3, OwnsIs DEF UnownFailed
  <2>3. failing' = [failing EXCEPT ![n] = "none"]
    BY <1>3 DEF UnownFailed
  <2>4. failing' \in [Ids -> {"none", "release", "unown"}] /\ \A m \in Ids : failing'[m] # "none" => Made(m)
    BY <2>3, WakeFacts
  <2> QED
    BY <2>1, <2>2, <2>4, WakeFacts, RequestsGoOn
<1>4. CASE WakeSucceeds(n)
  <2>1. UNCHANGED <<taskVars, reservation, redeemed, call>> /\ reserving' = reserving /\ failing' = failing /\ files' = files
    BY <1>4 DEF WakeSucceeds
  <2>2. receipt' = [receipt EXCEPT ![n] = "succeeded"] /\ Taken(n)
    BY <1>4, WakeFacts DEF WakeSucceeds, True, Taken
  <2>3. receipt' \in [Ids -> {"none", "succeeded", "failed"}] /\ \A m \in Ids : receipt'[m] = "succeeded" => Taken(m)
    BY <2>2, WakeFacts
  <2> QED
    BY <2>1, <2>3, WakeFacts, RequestsGoOn
<1>5. CASE WakeFails(n)
  <2>1. UNCHANGED <<taskVars, reservation, redeemed, call>> /\ reserving' = reserving /\ files' = files /\ Made(n)
    BY <1>5, WakeFacts DEF WakeFails
  <2>2. receipt' = [receipt EXCEPT ![n] = "failed"] /\ failing' = [failing EXCEPT ![n] = "release"]
    BY <1>5 DEF WakeFails
  <2>3. /\ receipt' \in [Ids -> {"none", "succeeded", "failed"}] /\ \A m \in Ids : receipt'[m] = "succeeded" => Taken(m)
        /\ failing' \in [Ids -> {"none", "release", "unown"}] /\ \A m \in Ids : failing'[m] # "none" => Made(m)
    BY <2>1, <2>2, WakeFacts
  <2> QED
    BY <2>1, <2>3, WakeFacts, RequestsGoOn
<1> QED
  BY <1>1, <1>2, <1>3, <1>4, <1>5

LEMMA LapseFilesInv ==
  ASSUME WakeInv, NEW a \in Bound, NEW t \in WakeTasks, LapseFiles(a, t)
  PROVE  WakeInv'
<1>1. UNCHANGED <<taskVars, reservation, redeemed, call>> /\ reserving' = reserving /\ failing' = failing /\ receipt' = receipt
  BY DEF LapseFiles
<1>2. /\ files' \in [Bound \X WakeTasks -> {"none", "short", "long"}]
      /\ \A r \in Bound \X WakeTasks : files'[r] = "long" => files[r] = "long"
  BY OwnsIs DEF LapseFiles
<1> QED
  BY <1>1, <1>2, WakeFacts, RequestsGoOn

\* A reservation that was not redeemed ends, or only loses its freshness.
LEMMA ReservationEnds ==
  ASSUME WakeInv, NEW n \in Ids, Made(n), NEW c \in Reservation,
         reservation' = [reservation EXCEPT ![n] = c],
         c.task = reservation[n].task, c.agent = reservation[n].agent, c.fresh = FALSE \/ c.status # "reserved",
         c.status = "claimed" <=> reservation[n].status = "claimed",
         mark' = mark \/ mark' = [mark EXCEPT ![reservation[n].task] = IF @ = n THEN 0 ELSE @],
         UNCHANGED <<state, holder, under, files, call, receipt, redeemed>>,
         reserving' \in [Ids -> {"none", "acquire", "release", "unown", "answered"}],
         failing' \in [Ids -> {"none", "release", "unown"}],
         \A m \in Ids : (reserving'[m] # "none" \/ failing'[m] # "none") => Made(m)
  PROVE  WakeInv'
<1>1. WakeDataOK /\ ReferencesAreMade /\ KeptForOne
  BY DEF WakeInv
<1>2. c # NoReservation
  BY WakeAssumption
<1>3. /\ reservation'[n] = c /\ \A m \in Ids \ {n} : reservation'[m] = reservation[m]
  BY <1>1 DEF WakeDataOK
<1>4. \A m \in Ids : (Made(m)' <=> Made(m)) /\ (Taken(m)' <=> Taken(m))
  BY <1>2, <1>3 DEF Made, Taken
<1>5. WakeDataOK'
  BY <1>1 DEF WakeDataOK
<1>6. \A u \in WakeTasks : mark'[u] = mark[u] \/ (mark'[u] = 0 /\ mark[u] = n)
  BY <1>1 DEF WakeDataOK
<1>7. ReferencesAreMade'
  <2>1. \A m \in Ids : redeemed'[m] = (IF Taken(m)' THEN 1 ELSE 0) /\ (receipt'[m] = "succeeded" => Taken(m)')
    BY <1>1, <1>4 DEF ReferencesAreMade
  <2> QED
    BY <1>1, <1>4, <1>6, <2>1, ReferencesStay
<1>8. KeptForOne'
  <2> SUFFICES ASSUME NEW m \in Ids, Reserved(m)' PROVE state'[reservation'[m].task] = "pending" /\ mark'[reservation'[m].task] = m
    BY DEF KeptForOne
  <2>1. m # n
    <3> SUFFICES ASSUME m = n PROVE FALSE
      OBVIOUS
    <3>1. c.status = "reserved" /\ c.fresh
      BY <1>3 DEF Reserved
    <3> QED
      BY <3>1
  <2>2. Reserved(m) /\ reservation'[m] = reservation[m] /\ reservation[m].task \in WakeTasks
    BY <1>1, <1>3, <2>1 DEF Reserved, Made, WakeDataOK, Reservation
  <2>3. state[reservation[m].task] = "pending" /\ mark[reservation[m].task] = m
    BY <1>1, <2>2 DEF KeptForOne
  <2> QED
    BY <1>6, <2>1, <2>2, <2>3
<1> QED
  BY <1>5, <1>7, <1>8, NoFilesMove DEF WakeInv

LEMMA LapseInv ==
  ASSUME WakeInv, NEW n \in Ids, Lapse(n)
  PROVE  WakeInv'
<1>1. /\ Made(n) /\ reservation' = [reservation EXCEPT ![n].fresh = FALSE] /\ mark' = mark
      /\ UNCHANGED <<state, holder, under, files, call, receipt, redeemed>> /\ reserving' = reserving /\ failing' = failing
  BY DEF Lapse, taskVars
<1>2. reservation[n] \in Reservation
  BY <1>1 DEF WakeInv, WakeDataOK, Made
<1> DEFINE c == [reservation[n] EXCEPT !.fresh = FALSE]
<1>3. /\ c \in Reservation /\ c.task = reservation[n].task /\ c.agent = reservation[n].agent
      /\ c.status = reservation[n].status /\ reservation' = [reservation EXCEPT ![n] = c]
  BY <1>1, <1>2 DEF Reservation
<1>4. c.fresh = FALSE
  BY <1>2 DEF Reservation
<1> HIDE DEF c
<1> QED
  BY <1>1, <1>3, <1>4, WakeFacts, ReservationEnds

LEMMA ReleasedIs ==
  ASSUME WakeInv, NEW n \in Ids, Releasable(n), NEW why \in {"failed", "ownership_unavailable"}, Released(n, why),
         UNCHANGED <<state, holder, under, files, call, receipt, redeemed>>,
         reserving' \in [Ids -> {"none", "acquire", "release", "unown", "answered"}],
         failing' \in [Ids -> {"none", "release", "unown"}],
         \A m \in Ids : (reserving'[m] # "none" \/ failing'[m] # "none") => Made(m)
  PROVE  WakeInv'
<1>1. /\ Made(n) /\ reservation[n].status = "reserved" /\ reservation' = [reservation EXCEPT ![n].status = why]
      /\ mark' = [mark EXCEPT ![reservation[n].task] = IF @ = n THEN 0 ELSE @]
  BY DEF Releasable, Released, Reserved
<1>2. reservation[n] \in Reservation
  BY <1>1 DEF WakeInv, WakeDataOK, Made
<1> DEFINE c == [reservation[n] EXCEPT !.status = why]
<1>3. /\ c \in Reservation /\ c.task = reservation[n].task /\ c.agent = reservation[n].agent
      /\ c.status = why /\ reservation' = [reservation EXCEPT ![n] = c]
  BY <1>1, <1>2 DEF Reservation
<1> HIDE DEF c
<1> QED
  BY <1>1, <1>3, ReservationEnds

LEMMA ReleasingInv ==
  ASSUME WakeInv, NEW n \in Ids, ReleaseUnavailable(n) \/ ReleaseFailed(n)
  PROVE  WakeInv'
<1>1. CASE ReleaseUnavailable(n)
  <2>1. /\ UNCHANGED <<state, holder, under, files, call, receipt, redeemed>> /\ failing' = failing /\ Made(n)
        /\ \E s \in {"unown", "none"} : reserving' = [reserving EXCEPT ![n] = s]
    BY <1>1, WakeFacts DEF ReleaseUnavailable
  <2>2. reserving' \in [Ids -> {"none", "acquire", "release", "unown", "answered"}] /\ \A m \in Ids : reserving'[m] # "none" => Made(m)
    BY <2>1, WakeFacts
  <2>3. CASE Releasable(n)
    BY <1>1, <2>1, <2>2, <2>3, WakeFacts, ReleasedIs DEF ReleaseUnavailable
  <2>4. CASE ~Releasable(n)
    <3>1. UNCHANGED <<taskVars, reservation>>
      BY <1>1, <2>1, <2>4 DEF ReleaseUnavailable, taskVars
    <3> QED
      BY <2>1, <2>2, <3>1, WakeFacts, RequestsGoOn
  <2> QED
    BY <2>3, <2>4
<1>2. CASE ReleaseFailed(n)
  <2>1. /\ UNCHANGED <<state, holder, under, files, call, receipt, redeemed>> /\ reserving' = reserving /\ Made(n)
        /\ \E s \in {"unown", "none"} : failing' = [failing EXCEPT ![n] = s]
    BY <1>2, WakeFacts DEF ReleaseFailed
  <2>2. failing' \in [Ids -> {"none", "release", "unown"}] /\ \A m \in Ids : failing'[m] # "none" => Made(m)
    BY <2>1, WakeFacts
  <2>3. CASE Releasable(n)
    BY <1>2, <2>1, <2>2, <2>3, WakeFacts, ReleasedIs DEF ReleaseFailed
  <2>4. CASE ~Releasable(n)
    <3>1. UNCHANGED <<taskVars, reservation>>
      BY <1>2, <2>1, <2>4 DEF ReleaseFailed, taskVars
    <3> QED
      BY <2>1, <2>2, <3>1, WakeFacts, RequestsGoOn
  <2> QED
    BY <2>3, <2>4
<1> QED
  BY <1>1, <1>2

\* One agent's claim goes on, with the files of its task.
LEMMA CallIs ==
  ASSUME WakeInv, NEW a \in Bound, NEW c \in Claim \cup {NoCall}, call' = [call EXCEPT ![a] = c],
         UNCHANGED <<taskVars, reservation, reserving, failing, receipt, redeemed>>,
         files' \in [Bound \X WakeTasks -> {"none", "short", "long"}],
         \A b \in Bound \ {a}, t \in WakeTasks : files'[<<b, t>>] = files[<<b, t>>],
         c = NoCall \/ ((c.id = 0 \/ \E m \in Ids : c.id = m /\ Made(m)) /\ (c.at = "launch" => c.id # 0)),
         \A t \in WakeTasks : files'[<<a, t>>] = "long" => (state[t] = "running" /\ holder[t] = a) \/ (c # NoCall /\ c.task = t),
         c # NoCall => (c.at \in {"acquire", "script"} => HoldsNothing(a)),
         c # NoCall => (c.at = "acquire" => files'[<<a, c.task>>] # "long"),
         c = NoCall \/ c.at # "launch"
  PROVE  WakeInv'
<1>1. WakeDataOK /\ ReferencesAreMade /\ KeptForOne /\ NoStrandedFiles /\ \A b \in Bound : CallFiles(b)
  BY DEF WakeInv, FilesAreKnown
<1>2. /\ state' = state /\ holder' = holder /\ under' = under /\ mark' = mark /\ reservation' = reservation
      /\ redeemed' = redeemed /\ reserving' = reserving /\ failing' = failing /\ receipt' = receipt
  BY DEF taskVars
<1>3. call'[a] = c /\ \A b \in Bound \ {a} : call'[b] = call[b]
  BY <1>1 DEF WakeDataOK
<1>4. WakeDataOK'
  BY <1>1, <1>2 DEF WakeDataOK
<1>5. \A m \in Ids : (Made(m)' <=> Made(m)) /\ (Taken(m)' <=> Taken(m))
  BY <1>2 DEF Made, Taken
<1>6. ReferencesAreMade'
  <2>1. /\ \A m \in Ids : redeemed'[m] = (IF Taken(m)' THEN 1 ELSE 0) /\ (receipt'[m] = "succeeded" => Taken(m)')
        /\ \A m \in Ids : (reserving'[m] # "none" \/ failing'[m] # "none") => Made(m)'
    BY <1>1, <1>2, <1>5 DEF ReferencesAreMade
  <2>2. \A b \in Bound : call'[b] = call[b] \/ call'[b] = NoCall
            \/ /\ call'[b].id = 0 \/ \E m \in Ids : call'[b].id = m /\ Made(m)'
               /\ call'[b].at = "launch" => call'[b].id # 0
    BY <1>3, <1>5
  <2> QED
    BY <1>1, <1>2, <1>5, <2>1, <2>2, ReferencesStay
<1>7. KeptForOne'
  BY <1>1, <1>2 DEF KeptForOne, Reserved, Made
<1>8. NoStrandedFiles'
  <2>1. ASSUME NEW t \in WakeTasks, files'[<<a, t>>] = "long"
        PROVE  (state'[t] = "running" /\ holder'[t] = a) \/ (call'[a] # NoCall /\ call'[a].task = t)
    BY <1>2, <1>3, <2>1
  <2>2. ASSUME NEW b \in Bound \ {a}, NEW t \in WakeTasks, files'[<<b, t>>] = "long"
        PROVE  (state'[t] = "running" /\ holder'[t] = b) \/ (call'[b] # NoCall /\ call'[b].task = t)
    BY <1>1, <1>2, <1>3, <2>2 DEF NoStrandedFiles
  <2> QED
    BY <2>1, <2>2 DEF NoStrandedFiles
<1>9. \A b \in Bound : CallFiles(b)'
  <2>1. CallFiles(a)'
    BY <1>2, <1>3 DEF CallFiles, HoldsNothing
  <2>2. ASSUME NEW b \in Bound \ {a} PROVE CallFiles(b)'
    <3>1. call[b] # NoCall => call[b].task \in WakeTasks
      BY <1>1 DEF WakeDataOK, Claim
    <3>2. call[b] # NoCall => files'[<<b, call[b].task>>] = files[<<b, call[b].task>>]
      BY <3>1
    <3> QED
      BY <1>1, <1>2, <1>3, <3>2 DEF CallFiles, HoldsNothing
  <2> QED
    BY <2>1, <2>2
<1> QED
  BY <1>4, <1>6, <1>7, <1>8, <1>9 DEF WakeInv, FilesAreKnown

\* What a claim in flight holds.
LEMMA CallKnows ==
  ASSUME WakeInv, NEW a \in Bound, call[a] # NoCall
  PROVE  /\ call[a] \in Claim /\ call[a].task \in WakeTasks
         /\ call[a].id = 0 \/ (call[a].id \in Ids /\ Made(call[a].id))
         /\ call[a].at = "launch" => call[a].id # 0
         /\ call[a].at \in {"acquire", "script"} => HoldsNothing(a)
         /\ call[a].at = "acquire" => files[<<a, call[a].task>>] # "long"
         /\ (call[a].at = "launch" /\ files[<<a, call[a].task>>] = "long")
              => state[call[a].task] = "running" /\ holder[call[a].task] = a
BY DEF WakeInv, WakeDataOK, ReferencesAreMade, FilesAreKnown, CallFiles, Claim

LEMMA StrandedOnly ==
  ASSUME WakeInv, NEW a \in Bound, NEW t \in WakeTasks, files[<<a, t>>] = "long"
  PROVE  (state[t] = "running" /\ holder[t] = a) \/ (call[a] # NoCall /\ call[a].task = t)
BY DEF WakeInv, FilesAreKnown, NoStrandedFiles

LEMMA AskInv ==
  ASSUME WakeInv, NEW a \in Bound, NEW t \in WakeTasks, NEW n \in Ids \cup {0}, Ask(a, n, t)
  PROVE  WakeInv'
<1> DEFINE c == [task |-> t, id |-> n, at |-> "acquire"]
<1>1. /\ call[a] = NoCall /\ HoldsNothing(a) /\ (n # 0 => Made(n)) /\ call' = [call EXCEPT ![a] = c]
      /\ UNCHANGED <<taskVars, reservation, reserving, failing, receipt, redeemed>> /\ files' = files
  BY DEF Ask, Redeems, Reserved
<1>2. c \in Claim /\ c.task = t /\ c.id = n /\ c.at = "acquire"
  BY DEF Claim
<1> HIDE DEF c
<1>3. \A u \in WakeTasks : files[<<a, u>>] # "long"
  BY <1>1, StrandedOnly DEF HoldsNothing
<1>4. c # NoCall
  BY <1>2, WakeAssumption
<1>5. c = NoCall \/ ((c.id = 0 \/ \E m \in Ids : c.id = m /\ Made(m)) /\ (c.at = "launch" => c.id # 0))
  BY <1>1, <1>2
<1>6. /\ files' \in [Bound \X WakeTasks -> {"none", "short", "long"}]
      /\ \A b \in Bound \ {a}, u \in WakeTasks : files'[<<b, u>>] = files[<<b, u>>]
      /\ \A u \in WakeTasks : files'[<<a, u>>] # "long"
  BY <1>1, <1>3, WakeFacts
<1>7. c # NoCall => (c.at = "acquire" => files'[<<a, c.task>>] # "long")
  BY <1>2, <1>6
<1> QED
  BY <1>1, <1>2, <1>4, <1>5, <1>6, <1>7, CallIs

LEMMA ClaimAcquiresInv ==
  ASSUME WakeInv, NEW a \in Bound, ClaimAcquires(a)
  PROVE  WakeInv'
<1> DEFINE t == call[a].task
<1>1. /\ UNCHANGED <<taskVars, reservation, reserving, failing, receipt, redeemed>>
      /\ call[a] # NoCall /\ call[a].at = "acquire"
  BY DEF ClaimAcquires
<1>2. /\ call[a] \in Claim /\ t \in WakeTasks /\ HoldsNothing(a) /\ files[<<a, t>>] # "long"
      /\ call[a].id = 0 \/ (call[a].id \in Ids /\ Made(call[a].id))
  BY <1>1, CallKnows
<1>3. \A u \in WakeTasks : files[<<a, u>>] = "long" => u = t
  BY <1>1, <1>2, StrandedOnly DEF HoldsNothing
<1>4. CASE call' = [call EXCEPT ![a] = NoCall] /\ UNCHANGED files
  <2>1. /\ files' \in [Bound \X WakeTasks -> {"none", "short", "long"}]
        /\ \A b \in Bound \ {a}, u \in WakeTasks : files'[<<b, u>>] = files[<<b, u>>]
        /\ \A u \in WakeTasks : files'[<<a, u>>] # "long"
    BY <1>2, <1>3, <1>4, WakeFacts
  <2> QED
    BY <1>1, <1>4, <2>1, CallIs
<1>5. CASE call' = [call EXCEPT ![a].at = "script"] /\ Owns(a, t, "long")
  <2> DEFINE c == [call[a] EXCEPT !.at = "script"]
  <2>1. c \in Claim /\ c.task = t /\ c.id = call[a].id /\ c.at = "script" /\ call' = [call EXCEPT ![a] = c]
    BY <1>2, <1>5 DEF Claim
  <2> HIDE DEF c
  <2>2. files' = [files EXCEPT ![<<a, t>>] = "long"]
    BY <1>5 DEF Owns
  <2>3. /\ files' \in [Bound \X WakeTasks -> {"none", "short", "long"}]
        /\ \A b \in Bound \ {a}, u \in WakeTasks : files'[<<b, u>>] = files[<<b, u>>]
        /\ \A u \in WakeTasks \ {t} : files'[<<a, u>>] = files[<<a, u>>]
    BY <1>2, <2>2, WakeFacts
  <2>4. \A u \in WakeTasks : files'[<<a, u>>] = "long" => u = t
    BY <1>3, <2>3
  <2>5. c # NoCall
    BY <2>1, WakeAssumption
  <2>6. c = NoCall \/ ((c.id = 0 \/ \E m \in Ids : c.id = m /\ Made(m)) /\ (c.at = "launch" => c.id # 0))
    BY <1>2, <2>1
  <2>7. \A u \in WakeTasks : files'[<<a, u>>] = "long" => (state[u] = "running" /\ holder[u] = a) \/ (c # NoCall /\ c.task = u)
    BY <2>1, <2>4, <2>5
  <2>8. /\ c # NoCall => (c.at \in {"acquire", "script"} => HoldsNothing(a))
        /\ c # NoCall => (c.at = "acquire" => files'[<<a, c.task>>] # "long")
        /\ c = NoCall \/ c.at # "launch"
    BY <1>2, <2>1
  <2> HIDE DEF t
  <2> QED
    BY <1>1, <2>1, <2>3, <2>6, <2>7, <2>8, CallIs
<1> QED
  BY <1>4, <1>5 DEF ClaimAcquires

LEMMA ClaimUnownsInv ==
  ASSUME WakeInv, NEW a \in Bound, ClaimUnowns(a)
  PROVE  WakeInv'
<1> DEFINE t == call[a].task
<1>1. /\ UNCHANGED <<taskVars, reservation, reserving, failing, receipt, redeemed>>
      /\ call[a] # NoCall /\ Owns(a, t, "none") /\ call' = [call EXCEPT ![a] = NoCall]
  BY DEF ClaimUnowns
<1>2. t \in WakeTasks
  BY <1>1, CallKnows
<1>3. files' = [files EXCEPT ![<<a, t>>] = "none"]
  BY <1>1 DEF Owns
<1>4. /\ files' \in [Bound \X WakeTasks -> {"none", "short", "long"}]
      /\ \A b \in Bound \ {a}, u \in WakeTasks : files'[<<b, u>>] = files[<<b, u>>]
      /\ \A u \in WakeTasks \ {t} : files'[<<a, u>>] = files[<<a, u>>]
      /\ files'[<<a, t>>] = "none"
  BY <1>2, <1>3, WakeFacts
<1>5. \A u \in WakeTasks : files'[<<a, u>>] = "long" => (state[u] = "running" /\ holder[u] = a)
  BY <1>4, StrandedOnly
<1> QED
  BY <1>1, <1>4, <1>5, CallIs

\* A task is left by its holder, and its files are given back.
LEMMA LeaveIs ==
  ASSUME WakeInv, NEW t \in WakeTasks, NEW st \in {"pending", "done"}, state[t] = "running", Leave(t, st),
         UNCHANGED <<under, mark, reservation, reserving, failing, receipt, redeemed>>,
         call' \in [Bound -> Claim \cup {NoCall}],
         \A b \in Bound : call'[b] = call[b] \/ (call'[b] = NoCall /\ call[b].at = "launch" /\ holder[t] = b /\ call[b].task = t)
  PROVE  WakeInv'
<1>1. WakeDataOK /\ ReferencesAreMade /\ KeptForOne /\ NoStrandedFiles /\ \A b \in Bound : CallFiles(b)
  BY DEF WakeInv, FilesAreKnown
<1>2. /\ state' = [state EXCEPT ![t] = st] /\ holder' = [holder EXCEPT ![t] = IF st = "done" THEN @ ELSE NoAgent]
      /\ files' = [files EXCEPT ![<<holder[t], t>>] = "none"]
  BY DEF Leave, Owns
<1>3. /\ state'[t] = st /\ \A u \in WakeTasks \ {t} : state'[u] = state[u] /\ holder'[u] = holder[u]
      /\ \A b \in Bound, u \in WakeTasks : files'[<<b, u>>] = "long" => files[<<b, u>>] = "long" /\ ~(u = t /\ b = holder[t])
      /\ \A b \in Bound, u \in WakeTasks : ~(u = t /\ b = holder[t]) => files'[<<b, u>>] = files[<<b, u>>]
  <2>1. /\ state \in [WakeTasks -> {"pending", "running", "done"}] /\ holder \in [WakeTasks -> Bound \cup {NoAgent}]
        /\ files \in [Bound \X WakeTasks -> {"none", "short", "long"}]
    BY <1>1 DEF WakeDataOK
  <2>2. ASSUME NEW b \in Bound, NEW u \in WakeTasks
        PROVE  /\ files'[<<b, u>>] = "long" => files[<<b, u>>] = "long" /\ ~(u = t /\ b = holder[t])
               /\ ~(u = t /\ b = holder[t]) => files'[<<b, u>>] = files[<<b, u>>]
    BY <1>2, <2>1
  <2> QED
    BY <1>2, <2>1, <2>2
<1>4. WakeDataOK'
  BY <1>1, <1>2 DEF WakeDataOK
<1>5. \A m \in Ids : (Made(m)' <=> Made(m)) /\ (Taken(m)' <=> Taken(m))
  BY DEF Made, Taken
<1>6. ReferencesAreMade'
  <2>1. /\ \A m \in Ids : redeemed'[m] = (IF Taken(m)' THEN 1 ELSE 0) /\ (receipt'[m] = "succeeded" => Taken(m)')
        /\ \A m \in Ids : (reserving'[m] # "none" \/ failing'[m] # "none") => Made(m)'
    BY <1>1, <1>5 DEF ReferencesAreMade
  <2> QED
    BY <1>1, <1>5, <2>1, ReferencesStay
<1>7. KeptForOne'
  <2> SUFFICES ASSUME NEW m \in Ids, Reserved(m) PROVE state'[reservation[m].task] = "pending" /\ mark[reservation[m].task] = m
    BY DEF KeptForOne, Reserved, Made
  <2>1. state[reservation[m].task] = "pending" /\ mark[reservation[m].task] = m /\ reservation[m].task \in WakeTasks
    BY <1>1 DEF KeptForOne, Reserved, Made, WakeDataOK, Reservation
  <2>2. reservation[m].task # t
    BY <2>1
  <2> QED
    BY <1>3, <2>1, <2>2
<1>8. NoStrandedFiles'
  <2> SUFFICES ASSUME NEW b \in Bound, NEW u \in WakeTasks, files'[<<b, u>>] = "long"
               PROVE  (state'[u] = "running" /\ holder'[u] = b) \/ (call'[b] # NoCall /\ call'[b].task = u)
    BY DEF NoStrandedFiles
  <2>1. files[<<b, u>>] = "long" /\ ~(u = t /\ b = holder[t])
    BY <1>3
  <2>2. (state[u] = "running" /\ holder[u] = b) \/ (call[b] # NoCall /\ call[b].task = u)
    BY <2>1, StrandedOnly
  <2>3. CASE state[u] = "running" /\ holder[u] = b
    BY <1>3, <2>1, <2>3
  <2>4. CASE call[b] # NoCall /\ call[b].task = u
    BY <2>1, <2>4
  <2> QED
    BY <2>2, <2>3, <2>4
<1>9. \A b \in Bound : CallFiles(b)'
  <2> SUFFICES ASSUME NEW b \in Bound, call'[b] # NoCall PROVE CallFiles(b)'
    BY DEF CallFiles
  <2>1. call'[b] = call[b] /\ call[b] # NoCall
    OBVIOUS
  <2>2. CallFiles(b) /\ call[b].task \in WakeTasks
    BY <1>1, <2>1, CallKnows
  <2>3. HoldsNothing(b) => HoldsNothing(b)'
    BY <1>3 DEF HoldsNothing
  <2>4. files'[<<b, call[b].task>>] = "long" => files[<<b, call[b].task>>] = "long" /\ ~(call[b].task = t /\ b = holder[t])
    BY <1>3, <2>2
  <2>5. (state[call[b].task] = "running" /\ holder[call[b].task] = b /\ ~(call[b].task = t /\ b = holder[t]))
          => state'[call[b].task] = "running" /\ holder'[call[b].task] = b
    BY <1>3, <2>2
  <2> QED
    BY <2>1, <2>2, <2>3, <2>4, <2>5 DEF CallFiles
<1> QED
  BY <1>4, <1>6, <1>7, <1>8, <1>9 DEF WakeInv, FilesAreKnown

LEMMA HoldEndsInv ==
  ASSUME WakeInv, NEW t \in WakeTasks, NEW st \in {"pending", "done"}, HoldEnds(t, st)
  PROVE  WakeInv'
<1>1. /\ state[t] = "running" /\ Leave(t, st) /\ call' = call
      /\ UNCHANGED <<under, mark, reservation, reserving, failing, receipt, redeemed>>
  BY DEF HoldEnds
<1>2. call \in [Bound -> Claim \cup {NoCall}]
  BY DEF WakeInv, WakeDataOK
<1> QED
  BY <1>1, <1>2, LeaveIs

LEMMA LaunchInv ==
  ASSUME WakeInv, NEW a \in Bound, Launch(a)
  PROVE  WakeInv'
<1> DEFINE n == call[a].id  t == call[a].task
<1>1. /\ call[a] # NoCall /\ call[a].at = "launch" /\ call' = [call EXCEPT ![a] = NoCall]
      /\ UNCHANGED <<under, mark, reservation, reserving, failing, redeemed>>
  BY DEF Launch
<1>2. /\ t \in WakeTasks /\ n \in Ids /\ Made(n) /\ call \in [Bound -> Claim \cup {NoCall}]
      /\ files[<<a, t>>] = "long" => state[t] = "running" /\ holder[t] = a
  BY <1>1, CallKnows DEF WakeInv, WakeDataOK
<1>3. call'[a] = NoCall /\ (\A b \in Bound \ {a} : call'[b] = call[b]) /\ call' \in [Bound -> Claim \cup {NoCall}]
  BY <1>1, <1>2
<1>4. CASE state[t] = "running" /\ holder[t] = a /\ Leave(t, "pending") /\ receipt' = receipt
  BY <1>1, <1>2, <1>3, <1>4, LeaveIs
<1>5. ASSUME UNCHANGED <<state, holder, files>>, receipt' = receipt \/ (True(n) /\ receipt' = [receipt EXCEPT ![n] = "succeeded"])
      PROVE  WakeInv'
  <2>1. WakeDataOK /\ ReferencesAreMade /\ KeptForOne /\ NoStrandedFiles /\ \A b \in Bound : CallFiles(b)
    BY DEF WakeInv, FilesAreKnown
  <2>2. receipt' \in [Ids -> {"none", "succeeded", "failed"}] /\ \A m \in Ids : receipt'[m] = "succeeded" => Taken(m)
    <3>1. True(n) => Taken(n)
      BY <1>2 DEF True, Taken
    <3> HIDE DEF n
    <3> QED
      BY <1>2, <1>5, <3>1, WakeFacts
  <2>3. WakeDataOK'
    BY <1>1, <1>3, <1>5, <2>1, <2>2 DEF WakeDataOK
  <2>4. \A m \in Ids : (Made(m)' <=> Made(m)) /\ (Taken(m)' <=> Taken(m))
    BY <1>1 DEF Made, Taken
  <2>5. ReferencesAreMade'
    <3>1. /\ \A m \in Ids : redeemed'[m] = (IF Taken(m)' THEN 1 ELSE 0) /\ (receipt'[m] = "succeeded" => Taken(m)')
          /\ \A m \in Ids : (reserving'[m] # "none" \/ failing'[m] # "none") => Made(m)'
      BY <1>1, <2>1, <2>2, <2>4 DEF ReferencesAreMade
    <3>2. \A b \in Bound : call'[b] = call[b] \/ call'[b] = NoCall
      BY <1>3
    <3> QED
      BY <1>1, <2>1, <2>4, <3>1, <3>2, ReferencesStay
  <2>6. KeptForOne'
    BY <1>1, <1>5, <2>1 DEF KeptForOne, Reserved, Made
  <2>7. NoStrandedFiles'
    <3> SUFFICES ASSUME NEW b \in Bound, NEW u \in WakeTasks, files[<<b, u>>] = "long"
                 PROVE  (state[u] = "running" /\ holder[u] = b) \/ (call'[b] # NoCall /\ call'[b].task = u)
      BY <1>5 DEF NoStrandedFiles
    <3>1. (state[u] = "running" /\ holder[u] = b) \/ (call[b] # NoCall /\ call[b].task = u)
      BY StrandedOnly
    <3> QED
      BY <1>2, <1>3, <3>1
  <2>8. \A b \in Bound : CallFiles(b)'
    BY <1>3, <1>5, <2>1 DEF CallFiles, HoldsNothing
  <2> QED
    BY <2>3, <2>5, <2>6, <2>7, <2>8 DEF WakeInv, FilesAreKnown
<1> QED
  BY <1>4, <1>5 DEF Launch

\* The claim itself: the task runs, and the reservation is redeemed.
LEMMA CommitsIs ==
  ASSUME WakeInv, NEW a \in Bound, NEW t \in WakeTasks, NEW n \in Ids \cup {0},
         call[a] # NoCall, call[a].task = t, call[a].id = n, call[a].at = "script",
         UNCHANGED <<files, reserving, failing, receipt>>,
         state[t] = "pending", Permitted(a, n, t),
         state' = [state EXCEPT ![t] = "running"], holder' = [holder EXCEPT ![t] = a],
         under' = [under EXCEPT ![t] = n], mark' = [mark EXCEPT ![t] = 0], Redeemed(n),
         (n # 0 /\ call' = [call EXCEPT ![a].at = "launch"]) \/ call' = [call EXCEPT ![a] = NoCall]
  PROVE  WakeInv'
<1>1. WakeDataOK /\ ReferencesAreMade /\ KeptForOne /\ NoStrandedFiles /\ \A b \in Bound : CallFiles(b)
  BY DEF WakeInv, FilesAreKnown
<1>2. \E c \in Claim \cup {NoCall} : /\ call' = [call EXCEPT ![a] = c]
                                     /\ c = NoCall \/ (c.at = "launch" /\ c.id = n /\ n # 0 /\ c.task = t)
  <2>1. CASE n # 0 /\ call' = [call EXCEPT ![a].at = "launch"]
    <3> DEFINE c == [call[a] EXCEPT !.at = "launch"]
    <3>1. c \in Claim /\ c.task = t /\ c.id = n /\ c.at = "launch" /\ call' = [call EXCEPT ![a] = c]
      BY <2>1, CallKnows DEF Claim
    <3> HIDE DEF c
    <3> QED
      BY <2>1, <3>1
  <2> QED
    BY <2>1
<1>3. PICK c \in Claim \cup {NoCall} : /\ call' = [call EXCEPT ![a] = c]
                                       /\ c = NoCall \/ (c.at = "launch" /\ c.id = n /\ n # 0 /\ c.task = t)
  BY <1>2
<1>4. call'[a] = c /\ (\A b \in Bound \ {a} : call'[b] = call[b]) /\ call' \in [Bound -> Claim \cup {NoCall}]
  BY <1>1, <1>3 DEF WakeDataOK
<1>5. /\ state'[t] = "running" /\ holder'[t] = a /\ under'[t] = n /\ mark'[t] = 0
      /\ \A u \in WakeTasks \ {t} : state'[u] = state[u] /\ holder'[u] = holder[u] /\ under'[u] = under[u] /\ mark'[u] = mark[u]
  BY <1>1 DEF WakeDataOK
<1>6. n # 0 => /\ n \in Ids /\ Reserved(n) /\ reservation[n].agent = a /\ reservation[n].task = t /\ mark[t] = n
               /\ reservation' = [reservation EXCEPT ![n].status = "claimed"] /\ redeemed' = [redeemed EXCEPT ![n] = @ + 1]
  BY DEF Permitted, Redeems, Redeemed
<1>7. n = 0 => ~Kept(t) /\ reservation' = reservation /\ redeemed' = redeemed
  BY DEF Permitted, Redeemed
<1>8. /\ reservation' \in [Ids -> Reservation \cup {NoReservation}] /\ redeemed' \in [Ids -> Nat]
      /\ \A m \in Ids : m # n => reservation'[m] = reservation[m] /\ redeemed'[m] = redeemed[m]
      /\ n # 0 => Taken(n)' /\ ~Reserved(n)' /\ redeemed'[n] = 1
  <2>1. CASE n = 0
    BY <1>1, <1>7, <2>1 DEF WakeDataOK
  <2>2. CASE n # 0
    <3> DEFINE r == [reservation[n] EXCEPT !.status = "claimed"]
    <3>1. reservation[n] \in Reservation
      BY <1>1, <1>6, <2>2 DEF WakeDataOK, Reserved, Made
    <3>2. r \in Reservation /\ r.status = "claimed" /\ reservation' = [reservation EXCEPT ![n] = r]
      BY <1>6, <2>2, <3>1 DEF Reservation
    <3> HIDE DEF r
    <3>3. r # NoReservation
      BY <3>2, WakeAssumption
    <3>4. /\ reservation' \in [Ids -> Reservation \cup {NoReservation}] /\ reservation'[n] = r
          /\ \A m \in Ids : m # n => reservation'[m] = reservation[m]
      BY <1>1, <1>6, <2>2, <3>2 DEF WakeDataOK
    <3>5. ~Taken(n)
      BY <1>6, <2>2 DEF Taken, Reserved
    <3>6. redeemed[n] = 0 /\ redeemed \in [Ids -> Nat]
      BY <1>1, <1>6, <2>2, <3>5 DEF ReferencesAreMade, WakeDataOK
    <3>7. redeemed' = [redeemed EXCEPT ![n] = 1]
      BY <1>6, <2>2, <3>6
    <3>8. redeemed' \in [Ids -> Nat] /\ redeemed'[n] = 1 /\ \A m \in Ids : m # n => redeemed'[m] = redeemed[m]
      BY <1>6, <2>2, <3>6, <3>7
    <3>9. Taken(n)' /\ ~Reserved(n)'
      BY <3>2, <3>3, <3>4 DEF Taken, Reserved, Made
    <3> QED
      BY <3>4, <3>8, <3>9
  <2> QED
    BY <2>1, <2>2
<1>9. WakeDataOK'
  BY <1>1, <1>4, <1>8 DEF WakeDataOK
<1>10. \A m \in Ids : (Made(m) => Made(m)') /\ (Taken(m) => Taken(m)') /\ (m # n => (Taken(m)' <=> Taken(m)) /\ (Reserved(m)' <=> Reserved(m)))
  <2>1. \A m \in Ids : m # n => (Made(m) => Made(m)') /\ (Taken(m)' <=> Taken(m)) /\ (Reserved(m)' <=> Reserved(m))
    BY <1>8 DEF Made, Taken, Reserved
  <2>2. n # 0 => Made(n)' /\ Taken(n)'
    BY <1>8 DEF Taken
  <2>3. 0 \notin Ids
    BY DEF Ids
  <2> QED
    BY <2>1, <2>2, <2>3
<1>11. ReferencesAreMade'
  <2>1. \A m \in Ids : redeemed'[m] = (IF Taken(m)' THEN 1 ELSE 0) /\ (receipt'[m] = "succeeded" => Taken(m)')
    <3> TAKE m \in Ids
    <3>1. CASE m = n
      <4>1. n # 0
        BY <3>1 DEF Ids
      <4> QED
        BY <1>8, <3>1, <4>1
    <3>2. CASE m # n
      BY <1>1, <1>8, <1>10, <3>2 DEF ReferencesAreMade
    <3> QED
      BY <3>1, <3>2
  <2>2. \A m \in Ids : (reserving'[m] # "none" \/ failing'[m] # "none") => Made(m)'
    BY <1>1, <1>10 DEF ReferencesAreMade
  <2>3. \A u \in WakeTasks : mark'[u] = mark[u] \/ mark'[u] = 0
    BY <1>5
  <2>4. \A u \in WakeTasks : under'[u] = under[u] \/ under'[u] = 0 \/ \E m \in Ids : under'[u] = m /\ Taken(m)'
    BY <1>5, <1>6, <1>8
  <2>5. \A b \in Bound : call'[b] = call[b] \/ call'[b] = NoCall
          \/ /\ call'[b].id = 0 \/ \E m \in Ids : call'[b].id = m /\ Made(m)'
             /\ call'[b].at = "launch" => call'[b].id # 0
    BY <1>3, <1>4, <1>6, <1>8 DEF Taken
  <2> QED
    BY <1>1, <1>10, <2>1, <2>2, <2>3, <2>4, <2>5, ReferencesStay
<1>12. KeptForOne'
  <2> SUFFICES ASSUME NEW m \in Ids, Reserved(m)' PROVE state'[reservation'[m].task] = "pending" /\ mark'[reservation'[m].task] = m
    BY DEF KeptForOne
  <2>1. m # n
    <3>1. m # 0
      BY DEF Ids
    <3> QED
      BY <1>8, <3>1
  <2>2. Reserved(m) /\ reservation'[m] = reservation[m] /\ reservation[m].task \in WakeTasks
    BY <1>1, <1>8, <1>10, <2>1 DEF Reserved, Made, WakeDataOK, Reservation
  <2>3. state[reservation[m].task] = "pending" /\ mark[reservation[m].task] = m
    BY <1>1, <2>2 DEF KeptForOne
  <2>4. reservation[m].task # t
    <3> SUFFICES ASSUME reservation[m].task = t PROVE FALSE
      OBVIOUS
    <3>1. mark[t] = m /\ m # 0
      BY <2>3 DEF Ids
    <3>2. Kept(t)
      BY <2>2, <3>1 DEF Kept, Reserved
    <3> QED
      BY <1>6, <1>7, <2>1, <3>1, <3>2
  <2> QED
    BY <1>5, <2>2, <2>3, <2>4
<1>13. \A u \in WakeTasks, b \in Bound : state[u] = "running" /\ holder[u] = b => state'[u] = "running" /\ holder'[u] = b
  BY <1>5
<1>14. NoStrandedFiles'
  <2> SUFFICES ASSUME NEW b \in Bound, NEW u \in WakeTasks, files[<<b, u>>] = "long"
               PROVE  (state'[u] = "running" /\ holder'[u] = b) \/ (call'[b] # NoCall /\ call'[b].task = u)
    BY DEF NoStrandedFiles
  <2>1. (state[u] = "running" /\ holder[u] = b) \/ (call[b] # NoCall /\ call[b].task = u)
    BY StrandedOnly
  <2>2. CASE state[u] = "running" /\ holder[u] = b
    BY <1>13, <2>2
  <2>3. CASE call[b] # NoCall /\ call[b].task = u
    BY <1>4, <1>5, <2>3
  <2> QED
    BY <2>1, <2>2, <2>3
<1>15. \A b \in Bound : CallFiles(b)'
  <2>1. CallFiles(a)'
    BY <1>3, <1>4, <1>5 DEF CallFiles
  <2>2. ASSUME NEW b \in Bound \ {a} PROVE CallFiles(b)'
    <3>1. HoldsNothing(b) => HoldsNothing(b)'
      BY <1>5 DEF HoldsNothing
    <3>2. call'[b] = call[b] /\ files' = files /\ CallFiles(b)
      BY <1>1, <1>4
    <3>3. call[b] # NoCall => call[b].task \in WakeTasks
      BY <1>1 DEF WakeDataOK, Claim
    <3> QED
      BY <1>13, <3>1, <3>2, <3>3 DEF CallFiles
  <2> QED
    BY <2>1, <2>2
<1> QED
  BY <1>9, <1>11, <1>12, <1>14, <1>15 DEF WakeInv, FilesAreKnown

LEMMA ClaimCommitsInv ==
  ASSUME WakeInv, NEW a \in Bound, ClaimCommits(a)
  PROVE  WakeInv'
<1> DEFINE t == call[a].task  n == call[a].id
<1>1. /\ call[a] # NoCall /\ call[a].at = "script" /\ UNCHANGED <<files, reserving, failing, receipt>>
      /\ \/ /\ state[t] = "pending" /\ Permitted(a, n, t)
            /\ state' = [state EXCEPT ![t] = "running"] /\ holder' = [holder EXCEPT ![t] = a]
            /\ under' = [under EXCEPT ![t] = n] /\ mark' = [mark EXCEPT ![t] = 0] /\ Redeemed(n)
            /\ \/ n # 0 /\ call' = [call EXCEPT ![a].at = "launch"]
               \/ call' = [call EXCEPT ![a] = NoCall]
         \/ call' = [call EXCEPT ![a].at = "unown"] /\ UNCHANGED <<taskVars, reservation, redeemed>>
  BY DEF ClaimCommits
<1>2. /\ call[a] \in Claim /\ t \in WakeTasks /\ HoldsNothing(a) /\ (n = 0 \/ (n \in Ids /\ Made(n)))
  BY <1>1, CallKnows
<1>3. ASSUME call' = [call EXCEPT ![a].at = "unown"], UNCHANGED <<taskVars, reservation, redeemed>>
      PROVE  WakeInv'
  <2> DEFINE c == [call[a] EXCEPT !.at = "unown"]
  <2>1. c \in Claim /\ c.task = t /\ c.id = n /\ c.at = "unown" /\ call' = [call EXCEPT ![a] = c]
    BY <1>2, <1>3 DEF Claim
  <2> HIDE DEF c
  <2>2. c # NoCall
    BY <2>1, WakeAssumption
  <2>3. c = NoCall \/ ((c.id = 0 \/ \E m \in Ids : c.id = m /\ Made(m)) /\ (c.at = "launch" => c.id # 0))
    BY <1>2, <2>1
  <2>4. /\ files' \in [Bound \X WakeTasks -> {"none", "short", "long"}]
        /\ \A b \in Bound \ {a}, u \in WakeTasks : files'[<<b, u>>] = files[<<b, u>>]
    BY <1>1, WakeFacts
  <2>5. \A u \in WakeTasks : files'[<<a, u>>] = "long" => (state[u] = "running" /\ holder[u] = a) \/ (c # NoCall /\ c.task = u)
    BY <1>1, <2>1, <2>2, StrandedOnly
  <2>6. /\ c # NoCall => (c.at \in {"acquire", "script"} => HoldsNothing(a))
        /\ c # NoCall => (c.at = "acquire" => files'[<<a, c.task>>] # "long")
        /\ c = NoCall \/ c.at # "launch"
    BY <2>1
  <2>7. UNCHANGED <<taskVars, reservation, reserving, failing, receipt, redeemed>>
    BY <1>1, <1>3
  <2> HIDE DEF t, n
  <2> QED
    BY <2>1, <2>3, <2>4, <2>5, <2>6, <2>7, CallIs
<1>4. ASSUME state[t] = "pending", Permitted(a, n, t),
             state' = [state EXCEPT ![t] = "running"], holder' = [holder EXCEPT ![t] = a],
             under' = [under EXCEPT ![t] = n], mark' = [mark EXCEPT ![t] = 0], Redeemed(n),
             (n # 0 /\ call' = [call EXCEPT ![a].at = "launch"]) \/ call' = [call EXCEPT ![a] = NoCall]
      PROVE  WakeInv'
  <2>1. n \in Ids \cup {0}
    BY <1>2
  <2> QED
    BY <1>1, <1>2, <1>4, <2>1, CommitsIs
<1> QED
  BY <1>1, <1>3, <1>4

LEMMA WakeInvStep == WakeInv /\ [WakeNext]_wakeVars => WakeInv'
<1> SUFFICES ASSUME WakeInv, [WakeNext]_wakeVars PROVE WakeInv'
  OBVIOUS
<1>1. CASE UNCHANGED wakeVars
  <2>1. UNCHANGED <<taskVars, reservation, redeemed, call>> /\ files' = files /\ reserving' = reserving /\ failing' = failing /\ receipt' = receipt
    BY <1>1 DEF wakeVars
  <2> QED
    BY <2>1, WakeFacts, RequestsGoOn
<1>2. CASE WakeNext
  <2>1. CASE \E n \in Ids, a \in Bound, t \in WakeTasks : Reserve(n, a, t)
    BY <2>1, ReserveInv
  <2>2. CASE \E n \in Ids : Acquire(n) \/ ReleaseUnavailable(n) \/ UnownUnavailable(n) \/ Lapse(n)
    BY <2>2, RequestsInv, ReleasingInv, LapseInv
  <2>3. CASE \E n \in Ids : WakeSucceeds(n) \/ WakeFails(n) \/ ReleaseFailed(n) \/ UnownFailed(n)
    BY <2>3, RequestsInv, ReleasingInv
  <2>4. CASE \E a \in Bound, t \in WakeTasks : LapseFiles(a, t)
    BY <2>4, LapseFilesInv
  <2>5. CASE \E a \in Bound, t \in WakeTasks, n \in Ids \cup {0} : Ask(a, n, t)
    BY <2>5, AskInv
  <2>6. CASE \E a \in Bound : ClaimAcquires(a) \/ ClaimCommits(a) \/ ClaimUnowns(a) \/ Launch(a)
    BY <2>6, ClaimAcquiresInv, ClaimCommitsInv, ClaimUnownsInv, LaunchInv
  <2>7. CASE \E t \in WakeTasks, st \in {"pending", "done"} : HoldEnds(t, st)
    BY <2>7, HoldEndsInv
  <2> QED
    BY <1>2, <2>1, <2>2, <2>3, <2>4, <2>5, <2>6, <2>7 DEF WakeNext
<1> QED
  BY <1>1, <1>2

LEMMA ClaimedByItsAgentStep == WakeInv /\ [WakeNext]_wakeVars => ClaimedByItsAgent \/ UNCHANGED wakeVars
<1> SUFFICES ASSUME WakeInv, WakeNext, NEW u \in WakeTasks, state[u] = "pending", Kept(u), state'[u] = "running"
             PROVE  holder'[u] = reservation[mark[u]].agent /\ under'[u] = mark[u]
  BY DEF ClaimedByItsAgent
<1>1. /\ state \in [WakeTasks -> {"pending", "running", "done"}] /\ holder \in [WakeTasks -> Bound \cup {NoAgent}]
      /\ under \in [WakeTasks -> Ids \cup {0}]
  BY DEF WakeInv, WakeDataOK
<1>2. ASSUME NEW t, NEW st \in {"pending", "done"}, Leave(t, st) PROVE FALSE
  BY <1>1, <1>2 DEF Leave
<1>3. ASSUME NEW a \in Bound, ClaimCommits(a) PROVE holder'[u] = reservation[mark[u]].agent /\ under'[u] = mark[u]
  <2> DEFINE t == call[a].task  n == call[a].id
  <2>1. CASE state' = state
    BY <2>1
  <2>2. CASE state' # state
    <3>1. /\ Permitted(a, n, t) /\ state' = [state EXCEPT ![t] = "running"] /\ holder' = [holder EXCEPT ![t] = a]
          /\ under' = [under EXCEPT ![t] = n]
      BY <1>3, <2>2 DEF ClaimCommits, taskVars
    <3>2. u = t
      BY <1>1, <3>1
    <3>3. n # 0 /\ reservation[n].agent = a /\ mark[t] = n
      BY <3>1, <3>2 DEF Permitted, Redeems
    <3> QED
      BY <1>1, <3>1, <3>2, <3>3
  <2> QED
    BY <2>1, <2>2
<1>4. ASSUME NEW a \in Bound, ClaimAcquires(a) \/ ClaimUnowns(a) PROVE state' = state
  BY <1>4 DEF ClaimAcquires, ClaimUnowns, taskVars
<1>5. ASSUME NEW a \in Bound, Launch(a) PROVE state' = state \/ \E t, st : Leave(t, st) /\ st = "pending"
  BY <1>5 DEF Launch
<1>6. ASSUME NEW n \in Ids, Acquire(n) \/ ReleaseUnavailable(n) \/ UnownUnavailable(n) \/ Lapse(n)
             \/ WakeSucceeds(n) \/ WakeFails(n) \/ ReleaseFailed(n) \/ UnownFailed(n)
      PROVE state' = state
  BY <1>6 DEF Acquire, ReleaseUnavailable, UnownUnavailable, Lapse, WakeSucceeds, WakeFails, ReleaseFailed, UnownFailed, taskVars
<1>7. ASSUME NEW n \in Ids \cup {0}, NEW a \in Bound, NEW t \in WakeTasks, Reserve(n, a, t) \/ LapseFiles(a, t) \/ Ask(a, n, t)
      PROVE state' = state
  BY <1>7 DEF Reserve, LapseFiles, Ask, taskVars
<1>8. ASSUME NEW t \in WakeTasks, NEW st \in {"pending", "done"}, HoldEnds(t, st) PROVE FALSE
  BY <1>2, <1>8 DEF HoldEnds
<1> QED
  BY <1>2, <1>3, <1>4, <1>5, <1>6, <1>7, <1>8 DEF WakeNext

LEMMA WakeInvHolds == WakeSpec => []WakeInv
BY InitWakeInv, WakeInvStep, PTL DEF WakeSpec

\* Reservations, claims and receipts keep to their types.
THEOREM WakeTypes == WakeSpec => []WakeTypeOK
BY WakeTypesFollow, WakeInvHolds, PTL

\* A task is kept for one agent at a time and claimed by it alone, a reservation is
\* redeemed at most once, a receipt of success is true, and no files are stranded.
THEOREM Wake_Safe == WakeSpec => WakeIsSafe
<1>1. WakeInv => KeptForOne /\ ReservationEndsOnce /\ ReceiptIsTrue /\ NoStrandedFiles
  <2> SUFFICES ASSUME WakeInv PROVE KeptForOne /\ ReservationEndsOnce /\ ReceiptIsTrue /\ NoStrandedFiles
    OBVIOUS
  <2>1. \A n \in Ids : redeemed[n] = (IF Taken(n) THEN 1 ELSE 0) /\ (receipt[n] = "succeeded" => Taken(n))
    BY DEF WakeInv, ReferencesAreMade
  <2>2. ReservationEndsOnce /\ ReceiptIsTrue
    BY <2>1 DEF ReservationEndsOnce, ReceiptIsTrue, Taken
  <2> QED
    BY <2>2 DEF WakeInv, FilesAreKnown
<1>2. WakeInv /\ [WakeNext]_wakeVars => [ClaimedByItsAgent]_wakeVars
  BY ClaimedByItsAgentStep
<1> QED
  BY <1>1, <1>2, WakeInvHolds, PTL DEF WakeSpec, WakeIsSafe

-----------------------------------------------------------------------------
(* The three together *)

\* Whichever of the components moves, all of them keep to their types.
THEOREM PlansTypes == Spec => []PlansTypesOK
<1> DEFINE Inv == SubmissionInv /\ SupersedeInv /\ WakeInv /\ part \in {"submission", "supersede", "wake"}
<1>1. Init => Inv
  BY InitSubmissionInv, InitSupersedeInv, InitWakeInv DEF Init
<1>2. Inv /\ [Next]_allVars => Inv'
  <2> SUFFICES ASSUME Inv, [Next]_allVars PROVE Inv'
    OBVIOUS
  <2>1. /\ [SubmissionNext]_submissionVars /\ [SupersedeNext]_supersedeVars /\ [WakeNext]_wakeVars
        /\ part' = part
    BY DEF Next, allVars
  <2> QED
    BY <2>1, SubmissionInvStep, SupersedeInvStep, WakeInvStep
<1>3. Inv => PlansTypesOK
  BY WakeTypesFollow DEF PlansTypesOK, SubmissionInv, SupersedeInv
<1> QED
  BY <1>1, <1>2, <1>3, PTL DEF Spec

\* Submissions and supersedes side by side: what runs keeps its text - the hub's, but for a
\* claim a submission overtook -, and what was delivered is decided once (submitPlan,
\* supersedeTask and its batches).
THEOREM PlansSafe == Spec => PlansAreSafe
<1>1. Init => SubmissionInit /\ SupersedeInit
  BY DEF Init
<1>2. [Next]_allVars => [SubmissionNext]_submissionVars /\ [SupersedeNext]_supersedeVars
  BY DEF Next, allVars
<1>3. Spec => SubmissionSpec /\ SupersedeSpec
  BY <1>1, <1>2, PTL DEF Spec, SubmissionSpec, SupersedeSpec
<1> QED
  BY <1>3, Submission_Safe, Supersede_Safe, PTL DEF PlansAreSafe

=============================================================================
