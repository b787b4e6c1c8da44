-------------------------- MODULE OwnershipRegistry --------------------------
(***************************************************************************)
(* The file ownership registry of the hub: one Redis hash from path globs  *)
(* to records.  These operators are the registry-to-registry part of the   *)
(* handlers; the state machines that use them keep the registry itself.    *)
(*                                                                         *)
(* A record is live until its expires_at.  Two globs overlap when some     *)
(* path matches both.  A definition named X_What is a faulty variant of X: *)
(* the README says which property notices it.                              *)
(***************************************************************************)
EXTENDS Naturals

CONSTANTS
  Tasks, Agents,
  Globs,       \* the globs that occur in ownership_files and declarations
  Overlaps,    \* the pairs of globs that have a path in common
  Priority,    \* the priority of each task
  Free         \* no record

ASSUME OverlapAssumption ==
  /\ Overlaps \subseteq Globs \X Globs
  /\ \A g \in Globs : <<g, g>> \in Overlaps
  /\ \A g, h \in Globs : <<g, h>> \in Overlaps => <<h, g>> \in Overlaps
ASSUME PriorityAssumption == Priority \in [Tasks -> Nat]
ASSUME FreeAssumption == Free \notin [agent : Agents, task : Tasks, live : BOOLEAN]

OwnershipRecord == [agent : Agents, task : Tasks, live : BOOLEAN]
Registry == [Globs -> OwnershipRecord \cup {Free}]

Live(reg, g) == reg[g] # Free /\ reg[g].live
OwnedBy(reg, g, a, t) == reg[g] # Free /\ reg[g].agent = a /\ reg[g].task = t

\* The live records of others that a claim to files runs into.
Contested_ByName(reg, a, t, files) ==
  {g \in files : Live(reg, g) /\ ~OwnedBy(reg, g, a, t)}
Contested(reg, a, t, files) ==
  {g \in Globs : /\ Live(reg, g) /\ ~OwnedBy(reg, g, a, t)
                 /\ \E f \in files : <<g, f>> \in Overlaps}

\* Every one of them must be of strictly lower priority, and preemption allowed.
MayActivate_OnTies(reg, a, t, files, allowPreempt) ==
  \A g \in Contested(reg, a, t, files) : allowPreempt /\ Priority[t] >= Priority[reg[g].task]
MayActivate(reg, a, t, files, allowPreempt) ==
  \A g \in Contested(reg, a, t, files) : allowPreempt /\ Priority[t] > Priority[reg[g].task]

\* The transaction removes the contested records and writes its own.
Activated(reg, a, t, files) ==
  [g \in Globs |-> IF g \in files THEN [agent |-> a, task |-> t, live |-> TRUE]
                   ELSE IF g \in Contested(reg, a, t, files) THEN Free ELSE reg[g]]

\* The release script compares agent and task of each record.
ReleasedFor(reg, a, t) == [g \in Globs |-> IF OwnedBy(reg, g, a, t) THEN Free ELSE reg[g]]

\* A renewal moves the expiry of the task's own records, expired or not.
RenewedFor(reg, a, t) ==
  [g \in Globs |-> IF OwnedBy(reg, g, a, t) THEN [reg[g] EXCEPT !.live = TRUE] ELSE reg[g]]

\* Time passes the expires_at of a task's records.
LapsedFor(reg, a, t) ==
  [g \in Globs |-> IF OwnedBy(reg, g, a, t) THEN [reg[g] EXCEPT !.live = FALSE] ELSE reg[g]]

\* A file waiter may go on when no live record of another touches its files;
\* priority does not count here.
ClearFor(reg, a, t, files) == Contested(reg, a, t, files) = {}
Unoccupied_ByRecord(reg, files) ==
  \A g \in Globs : reg[g] # Free => \A f \in files : <<g, f>> \notin Overlaps
Unoccupied(reg, files) ==
  \A g \in Globs : Live(reg, g) => \A f \in files : <<g, f>> \notin Overlaps

\* No path is under live records of two different claims.
Exclusive(reg) ==
  \A g, h \in Globs :
    Live(reg, g) /\ Live(reg, h) /\ <<g, h>> \in Overlaps
      => reg[g].agent = reg[h].agent /\ reg[g].task = reg[h].task
=============================================================================
