----------------------------- MODULE PlanFiles -----------------------------
(***************************************************************************)
(* The planning commands of the command line.  They keep the task files of *)
(* a plan's directory and hand the whole directory to the hub: an edit of  *)
(* a task, with an undo; a task added; a requirement filed; the comparison *)
(* of the files with the hub's tasks, and a submission.  Each operator     *)
(* runs a process of its own and nothing locks the directory; the hub is   *)
(* asked over HTTP, and goes on with a submission whose sender has gone.   *)
(*                                                                         *)
(* A text stands for all that a task file says.  A plan is invalid when a  *)
(* file cannot be read, or when two files, each well formed, contradict    *)
(* each other (a cycle, a duplicate).  The hub's side of a submission is   *)
(* PlanSubmission; here it is one step that may also be refused.           *)
(***************************************************************************)
EXTENDS Naturals, FiniteSets

CONSTANTS
  TaskNames,           \* the tasks of the plan
  Texts,               \* what a task file can say
  Garbled,             \* texts that cannot be read
  Crossing,            \* texts of which a plan can hold only one
  Operators,           \* those who run commands
  NoteBound,           \* file names a requirement can get, 999 in the code
  CommandBound,        \* how many commands are run
  ChangeBound,         \* how often a task moves at the hub
  NoText, NoName, NoCommand, NoPost

Directory == [TaskNames -> Texts \cup {NoText}]
HubStatus == {"missing", "pending", "running", "blocked", "done", "cancelled"}
HubTask == [status : HubStatus, text : Texts \cup {NoText}, repair : BOOLEAN]
Missing == [status |-> "missing", text |-> NoText, repair |-> FALSE]

Steps == {"known", "read", "open", "edited", "plan", "free", "asked", "fetch",
          "ready", "posted", "note", "ok", "failed"}
Command == [does : {"edit", "add", "intake", "revise", "submit"}, at : Steps,
            name : TaskNames \cup {NoName}, original : Texts \cup {NoText}, modified : BOOLEAN,
            reading : Directory, seen : [TaskNames -> HubTask], left : SUBSET TaskNames,
            slot : 1 .. NoteBound, crossed : BOOLEAN, moved : BOOLEAN]
Submitted == [files : Directory, answer : {"none", "ok", "refused"}]

ASSUME PlanFilesAssumption ==
  /\ Garbled \subseteq Texts /\ Crossing \subseteq Texts
  /\ NoText \notin Texts /\ NoName \notin TaskNames \cup Operators
  /\ NoteBound \in Nat \ {0} /\ CommandBound \in Nat /\ ChangeBound \in Nat
  /\ NoCommand \notin Command /\ NoPost \notin Submitted

VARIABLES
  file,       \* the text of each task file
  note,       \* the requirements filed, by name: who filed them
  hubTask,    \* the hub's tasks
  command,    \* the command each operator runs, or the last one with its result
  post,       \* the submission of each operator at the hub
  started, changes

planFilesVars == <<file, note, hubTask, command, post, started, changes>>

PlanFilesTypeOK ==
  /\ file \in Directory
  /\ note \in [1 .. NoteBound -> Operators \cup {NoName}]
  /\ hubTask \in [TaskNames -> HubTask]
  /\ command \in [Operators -> Command \cup {NoCommand}]
  /\ post \in [Operators -> Submitted \cup {NoPost}]
  /\ started \in Nat /\ changes \in Nat

\* validateParsedPlan: the directory is judged as a whole.
Valid(files) ==
  /\ \A n \in TaskNames : files[n] \notin Garbled
  /\ \A m, n \in TaskNames : files[m] \in Crossing /\ files[n] \in Crossing => m = n

\* A plan that was submitted; repair tasks have no file.
PlanFilesInit ==
  /\ file \in {files \in Directory : Valid(files)}
  /\ note = [k \in 1 .. NoteBound |-> NoName]
  /\ hubTask = [n \in TaskNames |-> IF file[n] = NoText THEN Missing
                                 ELSE [status |-> "pending", text |-> file[n], repair |-> FALSE]]
  /\ command = [o \in Operators |-> NoCommand]
  /\ post = [o \in Operators |-> NoPost]
  /\ started = 0 /\ changes = 0

-----------------------------------------------------------------------------
(* Commands *)

Over == {"ok", "failed"}
Does(o, doing) == command[o] # NoCommand /\ command[o].does = doing
Stands(o, doing, step) == Does(o, doing) /\ command[o].at = step
Busy(o) == command[o] # NoCommand /\ command[o].at \notin Over
Turns(o, step) == command' = [command EXCEPT ![o].at = step]

Fresh(doing, n, step) ==
  [does |-> doing, at |-> step, name |-> n, original |-> NoText, modified |-> FALSE,
   reading |-> [m \in TaskNames |-> NoText], seen |-> [m \in TaskNames |-> Missing],
   left |-> {}, slot |-> 1, crossed |-> FALSE, moved |-> FALSE]
Starts(o, c) ==
  /\ ~Busy(o) /\ started < CommandBound
  /\ started' = started + 1
  /\ command' = [command EXCEPT ![o] = c]

\* A file is written: who else works on it does not notice.
Affected(c, n) == c # NoCommand /\ (c.name = n \/ c.does = "revise")
Puts(o, n, text, c) ==
  /\ file' = [file EXCEPT ![n] = text]
  /\ command' = [p \in Operators |->
       IF p = o THEN c
       ELSE IF Affected(command[p], n) /\ text # file[n] THEN [command[p] EXCEPT !.crossed = TRUE]
       ELSE command[p]]

\* restoreTaskFile: what the file said when it was read is put back.
Undoes(o) ==
  IF command[o].modified
  THEN Puts(o, command[o].name, command[o].original,
            [command[o] EXCEPT !.modified = FALSE, !.at = "failed"])
  ELSE Turns(o, "failed") /\ UNCHANGED file

-----------------------------------------------------------------------------
(* Editing a task: the hub is asked for it, the file is read, the plan is    *)
(* asked for and the directory checked, and the text is replaced or given to *)
(* an editor.                                                                *)

Protected == {"running", "done", "cancelled"}

AskTask(o, n, force) ==
  /\ LET refused == hubTask[n].status = "missing" \/ (hubTask[n].status \in Protected /\ ~force) IN
     Starts(o, [Fresh("edit", n, IF refused THEN "failed" ELSE "known") EXCEPT !.seen[n] = hubTask[n]])
  /\ UNCHANGED <<file, note, hubTask, post, changes>>

ReadFile(o) ==
  /\ Stands(o, "edit", "known")
  /\ LET n == command[o].name IN
     command' = [command EXCEPT ![o].at = IF file[n] = NoText THEN "failed" ELSE "read",
                                ![o].original = file[n], ![o].crossed = FALSE]
  /\ UNCHANGED <<file, note, hubTask, post, started, changes>>

\* --from-file and --verify-cmd.
Replace(o, text) ==
  /\ Stands(o, "edit", "read") /\ Valid(file) /\ text \notin Garbled
  /\ Puts(o, command[o].name, text,
          [command[o] EXCEPT !.at = "edited", !.modified = text # command[o].original])
  /\ UNCHANGED <<note, hubTask, post, started, changes>>

\* The editor may write and then fail: the undo is armed before it starts.
Armed_Later(o) == FALSE
Armed(o) == TRUE

OpenEditor(o) ==
  /\ Stands(o, "edit", "read") /\ Valid(file)
  /\ command' = [command EXCEPT ![o].at = "open", ![o].modified = Armed(o)]
  /\ UNCHANGED <<file, note, hubTask, post, started, changes>>

RefuseEdit(o) ==
  /\ Stands(o, "edit", "read") /\ ~Valid(file)
  /\ Turns(o, "failed")
  /\ UNCHANGED <<file, note, hubTask, post, started, changes>>

Save(o, text) ==
  /\ Stands(o, "edit", "open")
  /\ Puts(o, command[o].name, text, command[o])
  /\ UNCHANGED <<note, hubTask, post, started, changes>>

CloseEditor(o) ==
  /\ Stands(o, "edit", "open")
  /\ command' = [command EXCEPT ![o].at = "edited",
                                ![o].modified = file[command[o].name] # command[o].original]
  /\ UNCHANGED <<file, note, hubTask, post, started, changes>>

EditorFails(o) ==
  /\ Stands(o, "edit", "open")
  /\ Undoes(o)
  /\ UNCHANGED <<note, hubTask, post, started, changes>>

CheckEdit(o) ==
  /\ Stands(o, "edit", "edited")
  /\ IF Valid(file) THEN Turns(o, "ready") /\ UNCHANGED file ELSE Undoes(o)
  /\ UNCHANGED <<note, hubTask, post, started, changes>>

-----------------------------------------------------------------------------
(* Adding a task: the directory is read, the hub asked whether it knows the  *)
(* id, and the file created; what follows keeps the draft.                   *)

AskPlan(o, n) ==
  /\ Starts(o, Fresh("add", n, "plan"))
  /\ UNCHANGED <<file, note, hubTask, post, changes>>

ReadPlan(o) ==
  /\ Stands(o, "add", "plan")
  /\ LET refused == ~Valid(file) \/ file[command[o].name] # NoText IN
     command' = [command EXCEPT ![o].at = IF refused THEN "failed" ELSE "free", ![o].reading = file]
  /\ UNCHANGED <<file, note, hubTask, post, started, changes>>

AskUnknown(o) ==
  /\ Stands(o, "add", "free")
  /\ Turns(o, IF hubTask[command[o].name].status = "missing" THEN "edited" ELSE "failed")
  /\ UNCHANGED <<file, note, hubTask, post, started, changes>>

\* The file must not exist when it is created (flag wx).
MayCreate(o, n) == file[n] = NoText

AddFile(o, text) ==
  /\ Stands(o, "add", "edited")
  /\ LET n == command[o].name IN
     IF Valid([command[o].reading EXCEPT ![n] = text]) /\ MayCreate(o, n)
     THEN Puts(o, n, text, [command[o] EXCEPT !.at = "ready"])
     ELSE Turns(o, "failed") /\ UNCHANGED file
  /\ UNCHANGED <<note, hubTask, post, started, changes>>

-----------------------------------------------------------------------------
(* Filing a requirement: the first name that is free when it is created.     *)

Intake(o) ==
  /\ Starts(o, Fresh("intake", NoName, "note"))
  /\ UNCHANGED <<file, note, hubTask, post, changes>>

TryNote(o) ==
  /\ Stands(o, "intake", "note")
  /\ LET k == command[o].slot IN
     IF note[k] = NoName THEN note' = [note EXCEPT ![k] = o] /\ Turns(o, "ok")
     ELSE /\ command' = IF k < NoteBound THEN [command EXCEPT ![o].slot = k + 1]
                        ELSE [command EXCEPT ![o].at = "failed"]
          /\ UNCHANGED note
  /\ UNCHANGED <<file, hubTask, post, started, changes>>

-----------------------------------------------------------------------------
(* Comparing the files with the hub: the ids the hub lists, the directory,   *)
(* then each task by a request of its own.                                   *)

Revise(o) ==
  /\ Starts(o, Fresh("revise", NoName, "asked"))
  /\ UNCHANGED <<file, note, hubTask, post, changes>>

ListTasks(o) ==
  /\ Stands(o, "revise", "asked")
  /\ command' = [command EXCEPT ![o].at = "plan", ![o].crossed = FALSE, ![o].moved = FALSE,
                                ![o].left = {n \in TaskNames : hubTask[n].status # "missing"}]
  /\ UNCHANGED <<file, note, hubTask, post, started, changes>>

ReadFiles(o) ==
  /\ Stands(o, "revise", "plan")
  /\ command' = [command EXCEPT ![o].at = IF Valid(file) THEN "fetch" ELSE "failed",
                                ![o].reading = file]
  /\ UNCHANGED <<file, note, hubTask, post, started, changes>>

FetchTask(o, n) ==
  /\ Stands(o, "revise", "fetch") /\ n \in command[o].left
  /\ command' = [command EXCEPT ![o].seen[n] = hubTask[n], ![o].left = @ \ {n}]
  /\ UNCHANGED <<file, note, hubTask, post, started, changes>>

\* revisionAction, and what the list says of tasks without a file.
Action(c, n) ==
  CASE c.reading[n] = NoText /\ c.seen[n].status = "missing" -> "none"
    [] c.reading[n] = NoText /\ c.seen[n].status # "missing" ->
         IF c.seen[n].repair THEN "audit_only" ELSE "missing_local"
    [] c.reading[n] # NoText /\ c.seen[n].status = "missing" -> "create"
    [] c.reading[n] # NoText /\ c.seen[n].status = "pending" ->
         IF c.seen[n].text = c.reading[n] THEN "unchanged" ELSE "update"
    [] OTHER -> "skip"

\* --preview and --diff end with the list; --submit goes on.
ShowList(o, submits) ==
  /\ Stands(o, "revise", "fetch") /\ command[o].left = {}
  /\ Turns(o, IF submits THEN "ready" ELSE "ok")
  /\ UNCHANGED <<file, note, hubTask, post, started, changes>>

\* plan submit checks the directory itself before it sends it.
Submit(o) ==
  /\ Starts(o, Fresh("submit", NoName, IF Valid(file) THEN "ready" ELSE "failed"))
  /\ UNCHANGED <<file, note, hubTask, post, changes>>

-----------------------------------------------------------------------------
(* The submission *)

\* The hub reads the directory when the request arrives.  `moved' also tells that a
\* submission with an older text of the task is still on its way.
Older(o, n) ==
  n # NoName /\ \E p \in Operators \ {o} : /\ post[p] # NoPost /\ post[p].answer = "none"
                                           /\ post[p].files[n] # file[n]
PostPlan(o) ==
  /\ command[o] # NoCommand /\ command[o].at = "ready"
  /\ post[o] # NoPost => post[o].answer # "none"
  /\ post' = [post EXCEPT ![o] = [files |-> file, answer |-> "none"]]
  /\ command' = [command EXCEPT ![o].at = "posted", ![o].moved = @ \/ Older(o, command[o].name)]
  /\ UNCHANGED <<file, note, hubTask, started, changes>>

\* A task moved at the hub, other than by the submission that the command of `o' awaits.
Moves(o, names) ==
  command' = [p \in Operators |->
    IF /\ command[p] # NoCommand /\ command[p].at \notin Over
       /\ p # o \/ command[p].at # "posted"
       /\ command[p].name \in names \/ command[p].does = "revise"
    THEN [command[p] EXCEPT !.moved = TRUE] ELSE command[p]]

\* Only what is missing or pending takes the text of its file; nothing is deleted.
Taken(files, n) == files[n] # NoText /\ hubTask[n].status \in {"missing", "pending"}

Publish(o) ==
  /\ post[o] # NoPost /\ post[o].answer = "none" /\ Valid(post[o].files)
  /\ hubTask' = [n \in TaskNames |-> IF Taken(post[o].files, n)
                THEN [status |-> "pending", text |-> post[o].files[n], repair |-> hubTask[n].repair]
                ELSE hubTask[n]]
  /\ post' = [post EXCEPT ![o].answer = "ok"]
  /\ Moves(o, {n \in TaskNames : hubTask'[n] # hubTask[n]})
  /\ UNCHANGED <<file, note, started, changes>>

RefusePlan(o) ==
  /\ post[o] # NoPost /\ post[o].answer = "none"
  /\ post' = [post EXCEPT ![o].answer = "refused"]
  /\ UNCHANGED <<file, note, hubTask, command, started, changes>>

\* An edit is undone when the hub refuses it; an added task stays as a draft.
Gives(o) == IF command[o].does = "edit" THEN Undoes(o) ELSE Turns(o, "failed") /\ UNCHANGED file

Answered(o) ==
  /\ command[o] # NoCommand /\ command[o].at = "posted" /\ post[o].answer # "none"
  /\ IF post[o].answer = "ok" THEN Turns(o, "ok") /\ UNCHANGED file ELSE Gives(o)
  /\ UNCHANGED <<note, hubTask, post, started, changes>>

\* No answer comes: to the command that is a refusal, whatever the hub does.
LoseSubmit(o) ==
  /\ command[o] # NoCommand /\ command[o].at = "posted"
  /\ Gives(o)
  /\ UNCHANGED <<note, hubTask, post, started, changes>>

\* The command is killed; the hub does not notice.
Kill(o) ==
  /\ Busy(o)
  /\ command' = [command EXCEPT ![o] = NoCommand]
  /\ UNCHANGED <<file, note, hubTask, post, started, changes>>

-----------------------------------------------------------------------------
(* The hub's tasks go on *)

Course == {<<"pending", "running">>, <<"pending", "cancelled">>, <<"running", "blocked">>,
           <<"running", "done">>, <<"running", "pending">>, <<"blocked", "pending">>,
           <<"done", "pending">>}

TaskMoves(n, to) ==
  /\ changes < ChangeBound /\ <<hubTask[n].status, to>> \in Course
  /\ hubTask' = [hubTask EXCEPT ![n].status = to]
  /\ changes' = changes + 1
  /\ Moves(NoName, {n})
  /\ UNCHANGED <<file, note, post, started>>

\* A repair gets an id that the directory does not have.
OrderRepair(n, text) ==
  /\ changes < ChangeBound /\ hubTask[n].status = "missing" /\ file[n] = NoText /\ text \notin Garbled
  /\ hubTask' = [hubTask EXCEPT ![n] = [status |-> "pending", text |-> text, repair |-> TRUE]]
  /\ changes' = changes + 1
  /\ Moves(NoName, {n})
  /\ UNCHANGED <<file, note, post, started>>

PlanFilesNext ==
  \/ \E o \in Operators :
       \/ ReadFile(o) \/ OpenEditor(o) \/ RefuseEdit(o) \/ CloseEditor(o) \/ EditorFails(o) \/ CheckEdit(o)
       \/ ReadPlan(o) \/ AskUnknown(o) \/ Intake(o) \/ TryNote(o)
       \/ Revise(o) \/ ListTasks(o) \/ ReadFiles(o) \/ Submit(o)
       \/ PostPlan(o) \/ Publish(o) \/ RefusePlan(o) \/ Answered(o) \/ LoseSubmit(o) \/ Kill(o)
       \/ \E n \in TaskNames : AskPlan(o, n) \/ FetchTask(o, n)
       \/ \E n \in TaskNames, force \in BOOLEAN : AskTask(o, n, force)
       \/ \E text \in Texts : Replace(o, text) \/ Save(o, text) \/ AddFile(o, text)
       \/ \E submits \in BOOLEAN : ShowList(o, submits)
  \/ \E n \in TaskNames, to \in HubStatus : TaskMoves(n, to)
  \/ \E n \in TaskNames, text \in Texts : OrderRepair(n, text)

PlanFilesSpec == PlanFilesInit /\ [][PlanFilesNext]_planFilesVars

-----------------------------------------------------------------------------
(* Properties *)

\* An edit that fails, for whatever reason (the editor, the check of the plan, the
\* hub, a lost answer), leaves the file as it was before, unless somebody else wrote
\* it meanwhile (runTaskEdit's rollback).
FailedEditsAreUndone ==
  \A o \in Operators :
    /\ Does(o, "edit") /\ command[o].at \notin Over /\ command[o].original # NoText
    /\ command'[o] # NoCommand /\ command'[o].at = "failed" /\ ~command[o].crossed
    => file'[command[o].name] = command[o].original

\* No file is removed, and one that exists is only written by an edit of its task:
\* of two that add the same task, or of one that adds it and one that had it, none
\* overwrites the other (runTaskAdd).
FilesAreKept ==
  \A n \in TaskNames :
    file[n] # NoText =>
      /\ file'[n] # NoText
      /\ file'[n] # file[n] => \E o \in Operators : Does(o, "edit") /\ command[o].name = n

\* A requirement that was filed stays, and who was told so finds his own under its
\* name (runPlanIntake).
NotesAreKept == \A k \in 1 .. NoteBound : note[k] # NoName => note'[k] = note[k]
NotesAreOwn ==
  \A o \in Operators : Stands(o, "intake", "ok") => note[command[o].slot] = o

\* What `plan revise' lists is what its submission does, when neither a file nor a
\* task has changed since it began to look.
ListIsCarriedOut ==
  \A o \in Operators :
    /\ Stands(o, "revise", "posted") /\ ~command[o].crossed /\ ~command[o].moved
    /\ post[o].answer = "none" /\ post'[o] # NoPost /\ post'[o].answer = "ok"
    => \A n \in TaskNames : hubTask'[n] # hubTask[n] <=> Action(command[o], n) \in {"create", "update"}

\* When the edit of a pending task is acknowledged, the hub has the text of the file,
\* unless the file or the task changed meanwhile, or an older submission was on its way.
EditsReachTheHub ==
  \A o \in Operators :
    /\ Stands(o, "edit", "ok") /\ ~command[o].crossed /\ ~command[o].moved
    /\ command[o].seen[command[o].name].status = "pending"
    => hubTask[command[o].name].text = file[command[o].name]

PlanFilesAreSafe ==
  /\ [][FailedEditsAreUndone /\ FilesAreKept /\ NotesAreKept /\ ListIsCarriedOut]_planFilesVars
  /\ [](NotesAreOwn /\ EditsReachTheHub)

\* Does not hold: the hub has no text that was undone (a lost answer, and another's
\* submission while the editor is open, publish it).
HubHasTheFiles ==
  (\A o \in Operators : ~Busy(o) /\ (post[o] # NoPost => post[o].answer # "none")) =>
    \A n \in TaskNames : hubTask[n].status = "pending" /\ file[n] # NoText => hubTask[n].text = file[n]
=============================================================================
