--------------------------- MODULE ProjectMapping ---------------------------
(***************************************************************************)
(* The mapping of V1 project paths to V2 Projects: scan, apply, rebind and *)
(* rollback, as several operators run them.                                *)
(*                                                                         *)
(* A Git remote is identified by its normalised URL; its fingerprint, a    *)
(* hash of that URL, is written as the remote it is the hash of.  A        *)
(* command reads the database, asks Git, and commits in a transaction of   *)
(* its own; other commands, and whoever changes the repositories or the    *)
(* registry of Projects, may come in between.                              *)
(***************************************************************************)
EXTENDS Naturals, Sequences, FiniteSets

CONSTANTS
  LegacyPaths, Projects, Remotes, Branches, Operators,
  Unset,        \* an empty column, or a URL or fingerprint that is no remote's
  NoRow, NoCommand, Nothing,
  TrailBound,   \* bound on the audit records of a path
  ChangeBound   \* bound on the changes of repositories and of the registry

VARIABLES
  repository,  \* what Git says of each path; Nothing where it is blocked
  known,       \* the registry of Projects
  bound,       \* legacy_project_bindings
  trail,       \* legacy_project_binding_audit, by path
  command,     \* what each operator is running
  changes,     \* changes of repositories and registry so far
  late         \* history: identities registered while the tool was in use

mappingVars == <<repository, known, bound, trail, command, changes, late>>

Identity == [remote : Remotes, branch : Branches]
Project == [url : Remotes \cup {Unset}, print : Remotes \cup {Unset}, branch : Branches]
\* Rows of an older schema have neither URL nor branch.
FullRow == [project : Projects, url : Remotes, print : Remotes, branch : Branches]
Row == FullRow \cup [project : Projects, url : {Unset}, print : Remotes, branch : {Unset}]
Entry == [action : {"bind", "rebind", "rollback"}, old : Row \cup {NoRow}, new : FullRow, reverses : Nat]
Applying == [does : {"preview", "apply"}, found : [LegacyPaths -> FullRow \cup {NoRow}]]
Replacing == [does : {"rebind", "rollback"}, path : LegacyPaths, old : Row,
              new : FullRow \cup {NoRow}, reverses : Nat]
Command == Applying \cup Replacing

ASSUME MappingAssumption ==
  /\ Unset \notin Remotes \cup Branches
  /\ NoRow \notin Row \cup Project /\ NoCommand \notin Command /\ Nothing \notin Identity
  /\ TrailBound \in Nat /\ ChangeBound \in Nat

MappingTypeOK ==
  /\ repository \in [LegacyPaths -> Identity \cup {Nothing}]
  /\ known \in [Projects -> Project \cup {NoRow}]
  /\ bound \in [LegacyPaths -> Row \cup {NoRow}]
  /\ trail \in [LegacyPaths -> Seq(Entry)]
  /\ command \in [Operators -> Command \cup {NoCommand}]
  /\ changes \in 0..ChangeBound
  /\ late \subseteq Identity

-----------------------------------------------------------------------------
(* resolveProject and scanProjectMappings.  A definition named X_What is a  *)
(* faulty variant of X.                                                     *)

Registered == {p \in Projects : known[p] # NoRow}
SameIdentity(r, id) == r.url = id.remote /\ r.print = id.remote /\ r.branch = id.branch
Relevant(id) == {p \in Registered : known[p].url # Unset /\ id.remote \in {known[p].url, known[p].print}}
Exact(id) == {p \in Relevant(id) : SameIdentity(known[p], id)}

\* For a row of an older schema, URL and branch of its Project stand in.
Completed(r) ==
  IF r.url = Unset /\ r.project \in Registered
  THEN [r EXCEPT !.url = known[r.project].url, !.branch = known[r.project].branch]
  ELSE r
BoundTo(id) == {q \in LegacyPaths : bound[q] # NoRow /\ SameIdentity(Completed(bound[q]), id)}
Holders(id) == {bound[q].project : q \in BoundTo(id)}

Disputed(id) ==
  \/ \E p \in Registered : known[p].url = Unset /\ known[p].print = id.remote
  \/ \E p \in Relevant(id) : known[p].print # known[p].url
  \/ Relevant(id) # {} /\ Exact(id) = {}

\* One Project that is registered for the identity or, when none is, has been bound to it.
Claimants(id) == IF Relevant(id) # {} THEN Exact(id) ELSE Holders(id)
Resolved(id, p) == ~Disputed(id) /\ Claimants(id) = {p}

\* A bound path stays mapped to its Project while its repository is the same
\* and no other Project has come to claim it.
Unchanged(q) == SameIdentity(Completed(bound[q]), repository[q])
Mapped(q, p) ==
  /\ repository[q] # Nothing
  /\ IF bound[q] = NoRow THEN Resolved(repository[q], p)
     ELSE /\ bound[q].project = p /\ Unchanged(q)
          /\ ~Disputed(repository[q]) /\ Claimants(repository[q]) \subseteq {p}

RowOf(p, id) == [project |-> p, url |-> id.remote, print |-> id.remote, branch |-> id.branch]

-----------------------------------------------------------------------------
\* What earlier runs of the tool have bound was resolved by the same rule.
MappingInit ==
  /\ repository \in [LegacyPaths -> Identity \cup {Nothing}]
  /\ known \in [Projects -> Project \cup {NoRow}]
  /\ bound \in [LegacyPaths -> Row \cup {NoRow}]
  /\ \A id \in Identity : \A q \in BoundTo(id) : Resolved(id, bound[q].project)
  /\ trail = [q \in LegacyPaths |-> <<>>]
  /\ changes = 0 /\ late = {}
  /\ command = [c \in Operators |-> NoCommand]

Runs(c, m) == command' = [command EXCEPT ![c] = m]
Reads == UNCHANGED <<repository, known, bound, trail, changes, late>>
Refuses(c) == Runs(c, NoCommand) /\ Reads
Writes(c) == Runs(c, NoCommand) /\ UNCHANGED <<repository, known, changes, late>>

\* apply: a scan, which leaves out what is bound already; the same scan again; and
\* one transaction for all new rows, which overwrites none.
Preview(c) ==
  /\ command[c] = NoCommand
  /\ Runs(c, [does |-> "preview", found |-> [q \in LegacyPaths |->
       IF bound[q] = NoRow /\ \E p \in Projects : Mapped(q, p)
       THEN RowOf(CHOOSE p \in Projects : Mapped(q, p), repository[q])
       ELSE NoRow]])
  /\ Reads

New(m) == {q \in LegacyPaths : m.found[q] # NoRow}

Rescan(c) ==
  LET m == command[c] IN
  /\ m # NoCommand /\ m.does = "preview"
  /\ IF \A q \in New(m) : /\ Mapped(q, m.found[q].project)
                          /\ m.found[q] = RowOf(m.found[q].project, repository[q])
     THEN Runs(c, [m EXCEPT !.does = "apply"]) /\ Reads
     ELSE Refuses(c)

Collides(r, s) == r # NoRow /\ ~(r.project = s.project /\ r.print = s.print /\ r.branch = s.branch)

Apply(c) ==
  LET m == command[c]
      added == {q \in New(m) : bound[q] = NoRow} IN
  /\ m # NoCommand /\ m.does = "apply"
  /\ IF \E q \in New(m) : Collides(bound[q], m.found[q]) THEN Refuses(c)
     ELSE /\ \A q \in added : Len(trail[q]) < TrailBound
          /\ bound' = [q \in LegacyPaths |-> IF q \in added THEN m.found[q] ELSE bound[q]]
          /\ trail' = [q \in LegacyPaths |->
               IF q \in added
               THEN Append(trail[q], [action |-> "bind", old |-> NoRow, new |-> m.found[q], reverses |-> 0])
               ELSE trail[q]]
          /\ Writes(c)

\* rebind and rollback read the row they replace, then Git and the registry; new is
\* NoRow until then.
Replaces(c, does, q, k) ==
  /\ command[c] = NoCommand /\ bound[q] # NoRow
  /\ Runs(c, [does |-> does, path |-> q, old |-> bound[q], new |-> NoRow, reverses |-> k])
  /\ Reads

Rebind(c, q) == Replaces(c, "rebind", q, 0)

Undoes(r, e) == r.project = e.new.project /\ r.print = e.new.print
Rollback(c, q, k) ==
  /\ k \in 1..Len(trail[q])
  /\ LET e == trail[q][k] IN e.action = "rebind" /\ e.old.url # Unset /\ Undoes(bound[q], e)
  /\ Replaces(c, "rollback", q, k)

\* The operator has named the new Project and the new fingerprint: p and remote.
Inspect(c, p, remote) ==
  LET m == command[c]
      id == repository[m.path] IN
  /\ m # NoCommand /\ m.does = "rebind" /\ m.new = NoRow
  /\ IF id # Nothing /\ id.remote = remote /\ Resolved(id, p)
     THEN Runs(c, [m EXCEPT !.new = RowOf(p, id)]) /\ Reads
     ELSE Refuses(c)

InspectUndone(c) ==
  LET m == command[c]
      id == repository[m.path]
      old == trail[m.path][m.reverses].old IN
  /\ m # NoCommand /\ m.does = "rollback" /\ m.new = NoRow
  /\ IF /\ id # Nothing /\ SameIdentity(old, id)
        /\ old.project \in Registered => SameIdentity(known[old.project], id)
     THEN Runs(c, [m EXCEPT !.new = RowOf(old.project, id)]) /\ Reads
     ELSE Refuses(c)

\* The UPDATE's WHERE: the fingerprint, and for a rollback the Project, still is what was read.
Current_Unchecked(m) == bound[m.path] # NoRow
Current(m) ==
  /\ bound[m.path] # NoRow /\ bound[m.path].print = m.old.print
  /\ m.does = "rollback" => bound[m.path].project = m.old.project

Replace(c) ==
  LET m == command[c] IN
  /\ m # NoCommand /\ m.does \in {"rebind", "rollback"} /\ m.new # NoRow
  /\ IF ~Current(m) THEN Refuses(c)
     ELSE /\ Len(trail[m.path]) < TrailBound
          /\ bound' = [bound EXCEPT ![m.path] = m.new]
          /\ trail' = [trail EXCEPT ![m.path] =
               Append(@, [action |-> m.does, old |-> m.old, new |-> m.new, reverses |-> m.reverses])]
          /\ Writes(c)

\* Somebody changes the remote or the default branch of a clone, or registers a Project.
Upsets ==
  /\ changes < ChangeBound /\ changes' = changes + 1
  /\ UNCHANGED <<bound, trail, command>>

Repoint(q, id) ==
  /\ Upsets /\ repository' = [repository EXCEPT ![q] = id]
  /\ UNCHANGED <<known, late>>

Register(p, row) ==
  /\ Upsets /\ known[p] = NoRow /\ known' = [known EXCEPT ![p] = row]
  /\ late' = late \cup {id \in Identity : id.remote = row.url /\ id.branch = row.branch}
  /\ UNCHANGED repository

MappingNext ==
  \/ \E c \in Operators :
       \/ Preview(c) \/ Rescan(c) \/ Apply(c) \/ InspectUndone(c) \/ Replace(c)
       \/ \E q \in LegacyPaths : Rebind(c, q)
       \/ \E q \in LegacyPaths, k \in 1..TrailBound : Rollback(c, q, k)
       \/ \E p \in Projects, remote \in Remotes : Inspect(c, p, remote)
  \/ \E q \in LegacyPaths, id \in Identity \cup {Nothing} : Repoint(q, id)
  \/ \E p \in Projects, row \in Project : Register(p, row)

MappingSpec == MappingInit /\ [][MappingNext]_mappingVars

-----------------------------------------------------------------------------
(* Properties.                                                              *)

\* The audit trail explains every binding: its last record names the row, each record
\* replaced a row of the fingerprint that the record before it wrote, and only the
\* first can be a bind; concurrent commands leave no gap between them.
TrailIsUnbroken ==
  \A q \in LegacyPaths :
    /\ trail[q] # <<>> => bound[q] = trail[q][Len(trail[q])].new
    /\ \A i \in 1..Len(trail[q]) :
         IF trail[q][i].action = "bind" THEN i = 1
         ELSE i > 1 => trail[q][i].old.print = trail[q][i - 1].new.print

\* A rollback puts back the row that its rebind replaced, and replaces the Project and
\* the fingerprint which that rebind wrote, whatever was committed in between.
RollbackUndoes ==
  \A q \in LegacyPaths : \A i \in 1..Len(trail[q]) :
    trail[q][i].action = "rollback" =>
      /\ trail[q][i].reverses \in 1..(i - 1)
      /\ LET e == trail[q][trail[q][i].reverses] IN
         e.action = "rebind" /\ trail[q][i].new = e.old /\ Undoes(trail[q][i].old, e)

\* Paths whose repositories have the same URL and default branch are bound to the same
\* Project, unless a Project was registered for it while the tool was in use.
OneProjectPerIdentity ==
  \A id \in Identity \ late : Cardinality(Holders(id)) <= 1

MappingIsSafe == TrailIsUnbroken /\ RollbackUndoes /\ OneProjectPerIdentity
=============================================================================
