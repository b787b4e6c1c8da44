----------------------------- MODULE Credentials -----------------------------
(***************************************************************************)
(* The credentials of the second generation and what they open.  Tokens of *)
(* people, nodes, attempts and the merge bot are signed with the newest of  *)
(* a ring of keys: those of the environment, which change when the hub is   *)
(* restarted, and those the store keeps.  A token ends with its session,    *)
(* its generation, the membership it rests on, or with every other token    *)
(* when all of them are revoked at once.                                    *)
(*                                                                         *)
(* Expiry by time is left out: it only ends tokens.                         *)
(***************************************************************************)
EXTENDS Integers, FiniteSets, FiniteSetsExt

CONSTANTS
  People, Sessions, Codes,
  Callers,                  \* requests that create an account
  Machines,                 \* the kinds of tokens of attempts and of the merge bot
  KeyBound,                 \* key versions are 1 .. KeyBound
  GenBound,                 \* generations of the node's credential
  ChangeBound,              \* restarts, grants and revocations
  NoOne

ASSUME CredentialsAssumption ==
  /\ KeyBound \in Nat \ {0} /\ GenBound \in Nat \ {0} /\ ChangeBound \in Nat
  /\ NoOne \notin People \cup Sessions \cup Codes \cup Callers
  /\ {"human", "node"} \cap Machines = {}

VARIABLES
  env,        \* the key versions of the environment
  stored,     \* the key versions of the store
  minKey,     \* no key below this version counts
  member,     \* the rank each person has in the project, 0 without an active membership
  session,    \* the row of each session of a person
  code,       \* enrolment codes
  account,    \* whose request made the account of each person
  creating,   \* requests that have found the name free and hash the password
  node,       \* the node's generation and the generation of its active session, 0 if none
  issued,     \* tokens handed out
  dead,       \* history: tokens ended for good
  changes

credentialVars == <<env, stored, minKey, member, session, code, account, creating, node, issued, dead, changes>>
accounts == <<account, creating>>

Versions == 1 .. KeyBound
Auditor == 1
Reviewer == 2
Owner == 3                  \* an owner needs no membership
Roles == {Auditor, Reviewer, Owner}
Key == [v : Versions, from : {"env", "store"}]
Token == [kind : {"human", "node"} \cup Machines, key : Key, id : Sessions \cup 0 .. GenBound]

NoSession == [who |-> NoOne, role |-> Auditor, live |-> FALSE, via |-> NoOne]

CredentialsTypeOK ==
  /\ env \subseteq Versions /\ stored \subseteq Versions /\ minKey \in 0 .. KeyBound
  /\ member \in [People -> 0 .. Reviewer]
  /\ session \in [Sessions -> [who : People \cup {NoOne}, role : Roles, live : BOOLEAN, via : Codes \cup {NoOne}]]
  /\ code \in [Codes -> [who : People \cup {NoOne}, role : Roles, used : BOOLEAN]]
  /\ account \in [People -> Callers \cup {NoOne}]
  /\ creating \in [Callers -> People \cup {NoOne}]
  /\ node \in [generation : 0 .. GenBound, session : 0 .. GenBound]
  /\ issued \subseteq Token /\ dead \subseteq issued
  /\ changes \in 0 .. ChangeBound

CredentialsInit ==
  /\ env = {1} /\ stored = {} /\ minKey = 0
  /\ member = [p \in People |-> 0]
  /\ session = [s \in Sessions |-> NoSession]
  /\ code = [c \in Codes |-> [who |-> NoOne, role |-> Auditor, used |-> FALSE]]
  /\ account = [p \in People |-> NoOne] /\ creating = [c \in Callers |-> NoOne]
  /\ node = [generation |-> 0, session |-> 0]
  /\ issued = {} /\ dead = {} /\ changes = 0

-----------------------------------------------------------------------------
(* The key ring. *)

\* A version of both is the store's.  The watermark hides the keys below it.
KeyRing ==
  {[v |-> v, from |-> IF v \in stored THEN "store" ELSE "env"] : v \in {w \in env \cup stored : w >= minKey}}
SigningKey == CHOOSE k \in KeyRing : \A other \in KeyRing : other.v <= k.v
NextKeyVersion == Max(env \cup stored \cup {0}) + 1

Changed == changes < ChangeBound /\ changes' = changes + 1
Signed(kind, id) == [kind |-> kind, key |-> SigningKey, id |-> id]

-----------------------------------------------------------------------------
(* Verification. *)

\* A token is of a version of the ring, with that version's signature.  A person's
\* session and membership are looked up, a node's generation is compared.
KeyAccepted(t) == t.key \in KeyRing
MemberFor(p, role) == role = Owner \/ member[p] >= role
PersonAccepted(t) == session[t.id].live /\ MemberFor(session[t.id].who, session[t.id].role)
NodeAccepted(t) == t.id = node.generation
Verified(t) ==
  /\ KeyAccepted(t)
  /\ t.kind = "human" => PersonAccepted(t)
  /\ t.kind = "node" => NodeAccepted(t)

\* A request: its path, whether it writes, the least role the registry gives people
\* there (0 if none), and whether it names a resource of the person's project.
Route == [surface : {"v1", "v2", "apiV2"}, write : BOOLEAN, least : 0 .. Owner, own : BOOLEAN]
Decisions == {r \in Route : r.write /\ r.least >= Reviewer}

\* The first hook: a person's cookie opens V1 for reading, and for the PM's writes
\* from the rank of a reviewer on; below /api nothing but an owner reaches V2.
V1Allowed(r, role) ==
  \/ role = Owner
  \/ r.surface = "v1" /\ (~r.write \/ (role >= Reviewer /\ r.least = Reviewer))

\* The second hook: the registry's role for the route, and the project of the session.
GuardAllows(r, role) == r.least # 0 /\ role >= r.least /\ (role = Owner \/ r.own)

\* Whether the request of a person with token t is served, by cookie or as a bearer.
Served(t, r, byCookie) ==
  LET role == session[t.id].role IN
  /\ Verified(t)
  /\ IF r.surface = "v2" THEN GuardAllows(r, role) ELSE byCookie /\ V1Allowed(r, role)

-----------------------------------------------------------------------------
(* People. *)

\* The newest token of a session row; the row and the token are written together.
Unused == {s \in Sessions : session[s].who = NoOne}
IssueSession(p, role, via) ==
  \E s \in Unused :
    /\ session' = [session EXCEPT ![s] = [who |-> p, role |-> role, live |-> TRUE, via |-> via]]
    /\ issued' = issued \cup {Signed("human", s)}
CanIssue(p, role) == MemberFor(p, role) /\ KeyRing # {}

Issue(p, role) ==
  /\ CanIssue(p, role) /\ IssueSession(p, role, NoOne)
  /\ UNCHANGED <<env, stored, minKey, member, code, node, dead, changes, accounts>>

RevokeSession(s) ==
  /\ session[s].live
  /\ session' = [session EXCEPT ![s].live = FALSE]
  /\ dead' = dead \cup {t \in issued : t.kind = "human" /\ t.id = s}
  /\ UNCHANGED <<env, stored, minKey, member, code, node, issued, changes, accounts>>

Enrol(c, p, role) ==
  /\ code[c].who = NoOne /\ MemberFor(p, role)
  /\ code' = [code EXCEPT ![c] = [who |-> p, role |-> role, used |-> FALSE]]
  /\ UNCHANGED <<env, stored, minKey, member, session, node, issued, dead, changes, accounts>>

\* The code is burnt first: no failure of the rest, nor a crash, makes it good again.
Redeem(c) ==
  /\ code[c].who # NoOne /\ ~code[c].used
  /\ \E works \in BOOLEAN :
       /\ code' = [code EXCEPT ![c].used = TRUE]
       /\ IF works /\ CanIssue(code[c].who, code[c].role) THEN IssueSession(code[c].who, code[c].role, c)
          ELSE UNCHANGED <<session, issued>>
  /\ UNCHANGED <<env, stored, minKey, member, node, dead, changes, accounts>>

\* A grant rewrites the one row of the person, a revoked one too.
GrantMembership(p, role) ==
  /\ member[p] # role /\ Changed
  /\ member' = [member EXCEPT ![p] = role]
  /\ UNCHANGED <<env, stored, minKey, session, code, node, issued, dead, accounts>>
RevokeMembership(p) ==
  /\ member[p] # 0 /\ Changed
  /\ member' = [member EXCEPT ![p] = 0]
  /\ UNCHANGED <<env, stored, minKey, session, code, node, issued, dead, accounts>>

\* Between the look for the name and the insert the password is hashed.
FindName(c, p) ==
  /\ creating[c] = NoOne /\ account[p] = NoOne
  /\ creating' = [creating EXCEPT ![c] = p]
  /\ UNCHANGED <<env, stored, minKey, member, session, code, account, node, issued, dead, changes>>
InsertAccount(c) == account' = IF account[creating[c]] = NoOne THEN [account EXCEPT ![creating[c]] = c] ELSE account
CreateAccount(c) ==
  /\ creating[c] # NoOne
  /\ InsertAccount(c)
  /\ creating' = [creating EXCEPT ![c] = NoOne]
  /\ UNCHANGED <<env, stored, minKey, member, session, code, node, issued, dead, changes>>

\* A login issues a session like any other, but wants a key in the environment.
Login(p, role) ==
  /\ account[p] # NoOne /\ env # {}
  /\ CanIssue(p, role) /\ IssueSession(p, role, NoOne)
  /\ UNCHANGED <<env, stored, minKey, member, code, node, dead, changes, accounts>>

-----------------------------------------------------------------------------
(* Nodes, attempts and the merge bot. *)

OfNode(t) == t.kind = "node"
NextGeneration == node.generation < GenBound
IssueNode(g) == issued' = IF KeyRing = {} THEN issued ELSE issued \cup {Signed("node", g)}

\* The first enrolment, or another: the old credential is of an older generation.
EnrolNode ==
  /\ NextGeneration
  /\ node' = [node EXCEPT !.generation = @ + 1]
  /\ dead' = dead \cup {t \in issued : OfNode(t)}
  /\ IssueNode(node.generation + 1)
  /\ UNCHANGED <<env, stored, minKey, member, session, code, changes, accounts>>

\* Rotation fences the sessions, raises the generation, opens a session, signs: the hub
\* may stop after each step, and an empty ring stops it before the last.
Raised_EachStep(steps) == node.generation + steps
Raised(steps) == IF steps >= 1 THEN node.generation + 1 ELSE node.generation
RotateNode ==
  /\ node.generation # 0 /\ NextGeneration
  /\ \E steps \in 0 .. 3 :
       /\ node' = [generation |-> Raised(steps), session |-> IF steps >= 2 THEN node.generation + 1 ELSE 0]
       /\ dead' = IF steps = 0 THEN dead ELSE dead \cup {t \in issued : OfNode(t)}
       /\ IF steps = 3 THEN IssueNode(node.generation + 1) ELSE UNCHANGED issued
  /\ UNCHANGED <<env, stored, minKey, member, session, code, changes, accounts>>

IssueMachine(kind) ==
  /\ KeyRing # {} /\ Signed(kind, 0) \notin issued
  /\ issued' = issued \cup {Signed(kind, 0)}
  /\ UNCHANGED <<env, stored, minKey, member, session, code, node, dead, changes, accounts>>

-----------------------------------------------------------------------------

\* One transaction: a new key above all, the watermark at it, every session ended.
NewVersion_OfStore == Max(stored \cup {minKey, 0}) + 1
NewVersion == Max({NextKeyVersion, minKey + 1})
RevokeAll ==
  /\ NewVersion \in Versions
  /\ stored' = stored \cup {NewVersion} /\ minKey' = NewVersion
  /\ session' = [s \in Sessions |-> [session[s] EXCEPT !.live = FALSE]]
  /\ node' = [node EXCEPT !.session = 0]
  /\ dead' = issued
  /\ UNCHANGED <<env, member, code, issued, changes, accounts>>

\* The hub is started again, with keys added to the environment or older ones dropped.
\* The newest key of the environment stays: without it a sweep could choose a lower version.
Restart(added, dropped) ==
  /\ Changed
  /\ \A v \in dropped : \E w \in env : w > v
  /\ env' = (env \cup added) \ dropped
  /\ creating' = [c \in Callers |-> NoOne]
  /\ UNCHANGED <<stored, minKey, member, session, code, account, node, issued, dead>>

PeopleNext ==
  \/ \E p \in People :
       \/ \E role \in Roles : Issue(p, role) \/ Login(p, role)
       \/ \E role \in Roles, c \in Codes : Enrol(c, p, role)
       \/ \E role \in {Auditor, Reviewer} : GrantMembership(p, role)
       \/ RevokeMembership(p)
       \/ \E c \in Callers : FindName(c, p)
  \/ \E s \in Sessions : RevokeSession(s)
  \/ \E c \in Codes : Redeem(c)
  \/ \E c \in Callers : CreateAccount(c)
MachinesNext == EnrolNode \/ RotateNode \/ \E kind \in Machines : IssueMachine(kind)
RingNext ==
  \/ RevokeAll
  \/ \E added, dropped \in {v \in SUBSET Versions : Cardinality(v) <= 1} : Restart(added, dropped)

CredentialsNext == PeopleNext \/ MachinesNext \/ RingNext

CredentialsSpec == CredentialsInit /\ [][CredentialsNext]_credentialVars

-----------------------------------------------------------------------------

\* The account of a name is the first request's, however many race for it (createHumanAccount).
AccountsStay == [][\A p \in People : account[p] # NoOne => account'[p] = account[p]]_credentialVars

\* A token that was revoked, rotated away or swept with all others is refused for ever:
\* after restarts, new keys in the environment, new grants and new sessions
\* (revokeAllSessions: all old tokens UNKNOWN_KEY_VERSION, also after a restart).
\* After a sweep there is a key to sign with.  A code gives one session at most.
\* On no path does a person write without a live session, a membership of the
\* session's rank and at least the rank of a reviewer.
CredentialsAreSafe ==
  /\ [](\A t \in dead : ~Verified(t))
  /\ [](minKey # 0 => KeyRing # {})
  /\ [](\A c \in Codes : Cardinality({s \in Sessions : session[s].via = c}) <= 1)
  /\ [](\A t \in {u \in issued : u.kind = "human"}, r \in Decisions, byCookie \in BOOLEAN :
          Served(t, r, byCookie) =>
            /\ session[t.id].live /\ session[t.id].role >= Reviewer
            /\ MemberFor(session[t.id].who, session[t.id].role))
  /\ AccountsStay

\* What does not hold: a membership that is granted again revives the sessions it once carried.
MembershipEndsSessions ==
  [][\A p \in People : member[p] = 0 /\ member'[p] # 0 =>
       \A s \in Sessions : session[s].who = p => ~session'[s].live \/ session[s].role = Owner]_credentialVars
=============================================================================
