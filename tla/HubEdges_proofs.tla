--------------------------- MODULE HubEdges_proofs ---------------------------
(***************************************************************************)
(* Proofs about the credentials of people and machines, the slots of a     *)
(* worker process, and the acceptances that are verified again: each has   *)
(* an inductive invariant of its own, one lemma per action, and the three  *)
(* together keep their types.                                              *)
(***************************************************************************)
EXTENDS MCHubEdges, TLAPS, FiniteSetTheorems, SequenceTheorems, WellFoundedInduction

LEMMA LeastExists ==
  ASSUME NEW T \in SUBSET Nat, T # {}
  PROVE  \E m \in T : \A n \in T : m <= n
<1> DEFINE R == OpToRel(<, Nat)
<1>1. IsWellFoundedOn(R, Nat)
  BY NatLessThanWellFounded
<1>2. \A m, n \in Nat : n < m => <<n, m>> \in R
  BY DEF OpToRel
<1> HIDE DEF R
<1>3. PICK m \in T : \A n \in T : ~(<<n, m>> \in R)
  BY <1>1, WFMin
<1>4. ASSUME NEW n \in T PROVE m <= n
  <2>1. m \in Nat /\ n \in Nat /\ ~(n < m)
    BY <1>2, <1>3
  <2> QED
    BY <2>1
<1> QED
  BY <1>4

LEMMA GreatestExists ==
  ASSUME NEW K \in Nat, NEW T \in SUBSET (0 .. K), T # {}
  PROVE  /\ Max(T) \in T /\ \A n \in T : n <= Max(T)
<1> DEFINE Down == {K - n : n \in T}
<1>0. \A n \in T : n \in Nat /\ n <= K /\ K - n \in Nat
  OBVIOUS
<1>1. Down \in SUBSET Nat
  BY <1>0
<1>2. Down # {}
  OBVIOUS
<1>3. PICK d \in Down : \A e \in Down : d <= e
  <2> HIDE DEF Down
  <2> QED
    BY <1>1, <1>2, LeastExists
<1>4. PICK m \in T : d = K - m
  BY <1>3
<1>5. \A n \in T : K - m <= K - n
  BY <1>3, <1>4
<1>6. \A n \in T : m >= n
  BY <1>0, <1>5
<1>7. Max(T) \in T /\ \A n \in T : Max(T) >= n
  BY <1>4, <1>6 DEF Max
<1>8. \A n \in T : n \in Int
  BY <1>0
<1> QED
  BY <1>7, <1>8



KeysOK ==
  /\ env \subseteq Versions /\ stored \subseteq Versions /\ minKey \in 0 .. KeyBound
  /\ env # {} /\ (minKey # 0 => minKey \in stored)

SessionRows == [Sessions -> [who : People \cup {NoOne}, role : Roles, live : BOOLEAN, via : Codes \cup {NoOne}]]
CodeRows == [Codes -> [who : People \cup {NoOne}, role : Roles, used : BOOLEAN]]

\* A code gave one session at most, and only when it was burnt.
CodesOnce ==
  /\ \A c \in Codes : code[c].used => code[c].who # NoOne
  /\ \A s \in Sessions : session[s].via \in Codes => code[session[s].via].used
  /\ \A s, other \in Sessions : session[s].via \in Codes /\ session[other].via = session[s].via => other = s
PeopleOK == session \in SessionRows /\ code \in CodeRows /\ CodesOnce

NodeRow == [generation : 0 .. GenBound, session : 0 .. GenBound]

\* What a token names exists, and its key is no newer than the newest known.
KeyKnown(k) == k \in Key /\ \E w \in env \cup stored : k.v <= w
NamesOK(t) ==
  /\ t.kind = "human" => t.id \in Sessions /\ session[t.id].who # NoOne
  /\ t.kind = "node" => t.id \in 0 .. GenBound /\ t.id <= node.generation
IssuedOK == issued \subseteq Token /\ dead \subseteq issued /\ \A t \in issued : KeyKnown(t.key) /\ NamesOK(t)

\* Why a token that ended stays ended.
Ended(t) ==
  \/ t.key.v < minKey
  \/ t.kind = "human" /\ session[t.id].live = FALSE
  \/ t.kind = "node" /\ t.id < node.generation
DeadOK == \A t \in dead : Ended(t)

RestTyped ==
  /\ member \in [People -> 0 .. Reviewer] /\ account \in [People -> Callers \cup {NoOne}]
  /\ creating \in [Callers -> People \cup {NoOne}] /\ changes \in 0 .. ChangeBound

CredInv == KeysOK /\ PeopleOK /\ node \in NodeRow /\ IssuedOK /\ DeadOK /\ RestTyped

\* The ring is never empty, and what is signed with its newest key is known.
LEMMA RingSigns ==
  ASSUME KeysOK
  PROVE  KeyRing # {} /\ KeyKnown(SigningKey)
<1> USE CredentialsAssumption
<1> DEFINE All == env \cup stored
           top == Max(All)
           newest == [v |-> top, from |-> IF top \in stored THEN "store" ELSE "env"]
<1>1. All \in SUBSET (0 .. KeyBound) /\ All # {}
  BY DEF KeysOK, Versions
<1>2. top \in All /\ \A n \in All : n <= top
  <2> HIDE DEF All
  <2> QED
    BY <1>1, GreatestExists
<1>3. minKey <= top
  <2>1. CASE minKey = 0
    BY <2>1, <1>1, <1>2
  <2>2. CASE minKey # 0
    BY <2>2, <1>2 DEF KeysOK
  <2> QED
    BY <2>1, <2>2
<1>4. minKey \in Int /\ top \in Int
  BY <1>1, <1>2 DEF KeysOK
<1>5. newest \in KeyRing
  BY <1>2, <1>3, <1>4 DEF KeyRing
<1>6. \A k \in KeyRing : k.v \in All /\ k.from \in {"env", "store"} /\ k = [v |-> k.v, from |-> k.from]
  BY DEF KeyRing
<1>7. \A k \in KeyRing : k.v <= newest.v
  BY <1>2, <1>6
<1>8. SigningKey \in KeyRing
  BY <1>5, <1>7 DEF SigningKey
<1>9. SigningKey.v \in All /\ SigningKey \in Key
  BY <1>1, <1>6, <1>8 DEF Key, KeysOK
<1>10. SigningKey.v <= SigningKey.v
  BY <1>1, <1>9
<1> QED
  BY <1>5, <1>9, <1>10 DEF KeyKnown

LEMMA CredInit ==
  ASSUME CredentialsInit
  PROVE  CredInv
<1> USE CredentialsAssumption DEF CredentialsInit
<1>1. KeysOK
  BY DEF KeysOK, Versions
<1>2. session \in SessionRows
  BY DEF SessionRows, NoSession, Roles
<1>3. code \in CodeRows
  BY DEF CodeRows, Roles
<1>4. CodesOnce
  BY DEF CodesOnce, NoSession
<1>5. node \in NodeRow /\ IssuedOK /\ DeadOK /\ RestTyped
  BY DEF NodeRow, IssuedOK, DeadOK, RestTyped, Reviewer
<1> QED
  BY <1>1, <1>2, <1>3, <1>4, <1>5 DEF CredInv, PeopleOK

\* Signing one more token keeps the tokens in order.
LEMMA SignedIsOK ==
  ASSUME KeysOK, NEW kind \in {"human", "node"} \cup Machines, NEW id \in Sessions \cup 0 .. GenBound
  PROVE  /\ Signed(kind, id) \in Token /\ KeyKnown(Signed(kind, id).key)
         /\ Signed(kind, id).kind = kind /\ Signed(kind, id).id = id
<1>1. KeyKnown(SigningKey)
  BY RingSigns
<1> QED
  BY <1>1 DEF Signed, Token, KeyKnown

\* The ring and the rows grow: nobody's row is emptied, no generation taken back.
Grows ==
  /\ \A w \in env \cup stored : \E x \in env' \cup stored' : w <= x
  /\ \A s \in Sessions : session[s].who # NoOne => session'[s].who # NoOne
  /\ node.generation <= node'.generation
  /\ minKey <= minKey'

\* A token ends for good: no row of an ended session is used again.
KeepsEnds == \A s \in Sessions : session[s].who # NoOne /\ session[s].live = FALSE => session'[s].live = FALSE

LEMMA TokensStay ==
  ASSUME IssuedOK, KeysOK, node \in NodeRow, KeysOK', node' \in NodeRow, Grows, NEW t \in issued
  PROVE  (KeyKnown(t.key) /\ NamesOK(t))'
<1> USE CredentialsAssumption
<1>1. t.key \in Key
  BY DEF IssuedOK, KeyKnown
<1>2. PICK w \in env \cup stored : t.key.v <= w
  BY DEF IssuedOK, KeyKnown
<1>3. PICK x \in env' \cup stored' : w <= x
  BY DEF Grows
<1>4. t.key.v \in Int /\ w \in Int /\ x \in Int
  BY <1>1, <1>2, <1>3 DEF Key, Versions, KeysOK
<1>5. t.key.v <= x
  BY <1>2, <1>3, <1>4
<1>6. (KeyKnown(t.key))'
  BY <1>1, <1>3, <1>5 DEF KeyKnown
<1>7. NamesOK(t)
  BY DEF IssuedOK
<1>8. t.kind = "human" => t.id \in Sessions /\ session'[t.id].who # NoOne
  BY <1>7 DEF NamesOK, Grows
<1>9. t.kind = "node" => t.id \in 0 .. GenBound /\ t.id <= node'.generation
  <2>1. node.generation \in Int /\ node'.generation \in Int /\ node.generation <= node'.generation
    BY DEF NodeRow, Grows
  <2> QED
    BY <2>1, <1>7 DEF NamesOK
<1> QED
  BY <1>6, <1>8, <1>9 DEF NamesOK

LEMMA EndsStay ==
  ASSUME IssuedOK, DeadOK, KeysOK, node \in NodeRow, KeysOK', node' \in NodeRow, Grows, KeepsEnds, NEW t \in dead
  PROVE  (Ended(t))'
<1> USE CredentialsAssumption
<1>1. t \in issued /\ t.key \in Key /\ NamesOK(t)
  BY DEF IssuedOK, KeyKnown
<1>2. t.key.v \in Int /\ minKey \in Int /\ minKey' \in Int /\ minKey <= minKey'
  BY <1>1 DEF Key, Versions, KeysOK, Grows
<1>3. node.generation \in Int /\ node'.generation \in Int /\ node.generation <= node'.generation
  BY DEF NodeRow, Grows
<1>4. CASE t.key.v < minKey
  BY <1>2, <1>4 DEF Ended
<1>5. CASE t.kind = "human" /\ session[t.id].live = FALSE
  BY <1>1, <1>5 DEF NamesOK, KeepsEnds, Ended
<1>6. CASE t.kind = "node" /\ t.id < node.generation
  BY <1>1, <1>3, <1>6 DEF NamesOK, Ended
<1> QED
  BY <1>4, <1>5, <1>6 DEF DeadOK, Ended

\* A step that lets everything grow, hands out tokens in order, and ends tokens for a reason.
LEMMA CredStepIs ==
  ASSUME CredInv, KeysOK', PeopleOK', node' \in NodeRow, RestTyped', Grows, KeepsEnds,
         NEW X, X \subseteq Token, issued' = issued \cup X, \A t \in X : (KeyKnown(t.key) /\ NamesOK(t))',
         \A t \in dead' : t \in dead \/ (t \in issued /\ (Ended(t))')
  PROVE  CredInv'
<1>1. KeysOK /\ node \in NodeRow /\ IssuedOK /\ DeadOK
  BY DEF CredInv
<1>2. issued' \subseteq Token /\ dead' \subseteq issued'
  BY <1>1 DEF IssuedOK
<1>3. \A t \in issued' : (KeyKnown(t.key) /\ NamesOK(t))'
  BY <1>1, TokensStay
<1>4. \A t \in dead' : (Ended(t))'
  BY <1>1, EndsStay
<1>5. IssuedOK' /\ DeadOK'
  BY <1>2, <1>3, <1>4 DEF IssuedOK, DeadOK
<1> QED
  BY <1>5 DEF CredInv
\* A new session: its row was empty, its token is signed with the newest key.
LEMMA IssueIs ==
  ASSUME CredInv, NEW p \in People, NEW role \in Roles, NEW via \in Codes \cup {NoOne}, IssueSession(p, role, via),
         env' = env, stored' = stored, minKey' = minKey, node' = node, dead' = dead, RestTyped', code' \in CodeRows,
         \A c \in Codes : (code'[c].used => code'[c].who # NoOne) /\ (code[c].used => code'[c].used),
         via \in Codes => ~code[via].used /\ code'[via].used
  PROVE  CredInv'
<1> USE CredentialsAssumption
<1>1. PICK s \in Unused : /\ session' = [session EXCEPT ![s] = [who |-> p, role |-> role, live |-> TRUE, via |-> via]]
                          /\ issued' = issued \cup {Signed("human", s)}
  BY DEF IssueSession
<1>2. KeysOK /\ node \in NodeRow /\ session \in SessionRows /\ CodesOnce /\ s \in Sessions /\ session[s].who = NoOne
  BY <1>1 DEF CredInv, PeopleOK, Unused
<1> DEFINE c == [who |-> p, role |-> role, live |-> TRUE, via |-> via]
<1>3. c \in [who : People \cup {NoOne}, role : Roles, live : BOOLEAN, via : Codes \cup {NoOne}]
  OBVIOUS
<1>4. c.who # NoOne /\ c.live = TRUE /\ c.via = via
  OBVIOUS
<1>5. session' = [session EXCEPT ![s] = c]
  BY <1>1
<1> HIDE DEF c
<1>6. session' \in SessionRows
  BY <1>2, <1>3, <1>5 DEF SessionRows
<1>7. \A o \in Sessions : session'[o] = IF o = s THEN c ELSE session[o]
  BY <1>2, <1>5 DEF SessionRows
<1>8. CodesOnce'
  <2>1. \A o \in Sessions : session'[o].via \in Codes => code'[session'[o].via].used
    BY <1>2, <1>4, <1>7 DEF CodesOnce
  <2>2. ASSUME NEW o \in Sessions, NEW other \in Sessions, session'[o].via \in Codes, session'[other].via = session'[o].via
        PROVE  other = o
    <3>1. CASE o = s /\ other # s
      <4>1. session[other].via = via /\ via \in Codes
        BY <3>1, <2>2, <1>4, <1>7
      <4> QED
        BY <4>1, <1>2 DEF CodesOnce
    <3>2. CASE o # s /\ other = s
      <4>1. session[o].via = via /\ via \in Codes
        BY <3>2, <2>2, <1>4, <1>7
      <4> QED
        BY <4>1, <1>2 DEF CodesOnce
    <3>3. CASE o # s /\ other # s
      BY <3>3, <2>2, <1>2, <1>7 DEF CodesOnce
    <3> QED
      BY <3>1, <3>2, <3>3
  <2> QED
    BY <2>1, <2>2 DEF CodesOnce
<1>9. KeysOK' /\ node' \in NodeRow
  BY <1>2 DEF KeysOK
<1>10. Grows
  <2>1. \A w \in env \cup stored : w <= w
    BY <1>2 DEF KeysOK, Versions
  <2>2. node.generation <= node.generation /\ minKey <= minKey
    BY <1>2 DEF KeysOK, NodeRow
  <2> QED
    BY <2>1, <2>2, <1>4, <1>7 DEF Grows
<1>11. KeepsEnds
  BY <1>2, <1>7 DEF KeepsEnds
<1>12. PICK t : t = Signed("human", s)
  OBVIOUS
<1>13. t \in Token /\ KeyKnown(t.key) /\ t.kind = "human" /\ t.id = s
  BY <1>2, <1>12, SignedIsOK
<1>14. (KeyKnown(t.key))'
  BY <1>2, <1>13 DEF KeyKnown
<1>15. (NamesOK(t))'
  BY <1>2, <1>4, <1>7, <1>13 DEF NamesOK
<1>16. {t} \subseteq Token /\ issued' = issued \cup {t}
  BY <1>1, <1>12, <1>13
<1>17. PeopleOK'
  BY <1>6, <1>8 DEF PeopleOK
<1>18. \A u \in {t} : (KeyKnown(u.key) /\ NamesOK(u))'
  BY <1>14, <1>15
<1>19. ASSUME NEW u \in dead' PROVE u \in dead \/ (u \in issued /\ (Ended(u))')
  <2>1. u \in dead
    OBVIOUS
  <2> QED
    BY <2>1
<1> QED
  BY <1>9, <1>10, <1>11, <1>16, <1>17, <1>18, <1>19, CredStepIs

\* Rows that may change while no token is handed out and none ends.
LEMMA QuietIs ==
  ASSUME CredInv, env' = env, stored' = stored, minKey' = minKey, node' = node, session' = session, issued' = issued,
         dead' = dead, RestTyped', code' \in CodeRows,
         \A c \in Codes : (code'[c].used => code'[c].who # NoOne) /\ (code[c].used => code'[c].used)
  PROVE  CredInv'
<1> USE CredentialsAssumption
<1>1. KeysOK /\ node \in NodeRow /\ session \in SessionRows /\ CodesOnce
  BY DEF CredInv, PeopleOK
<1>2. KeysOK' /\ node' \in NodeRow
  BY <1>1 DEF KeysOK
<1>3. CodesOnce'
  BY <1>1 DEF CodesOnce
<1>4. PeopleOK'
  BY <1>1, <1>3 DEF PeopleOK
<1>5. Grows
  <2>1. \A w \in env \cup stored : w <= w
    BY <1>1 DEF KeysOK, Versions
  <2>2. node.generation <= node.generation /\ minKey <= minKey
    BY <1>1 DEF KeysOK, NodeRow
  <2> QED
    BY <2>1, <2>2 DEF Grows
<1>6. KeepsEnds
  BY DEF KeepsEnds
<1>7. {} \subseteq Token /\ issued' = issued \cup {} /\ \A u \in {} : (KeyKnown(u.key) /\ NamesOK(u))'
  OBVIOUS
<1>8. ASSUME NEW u \in dead' PROVE u \in dead \/ (u \in issued /\ (Ended(u))')
  <2>1. u \in dead
    OBVIOUS
  <2> QED
    BY <2>1
<1> QED
  BY <1>2, <1>4, <1>5, <1>6, <1>7, <1>8, CredStepIs

LEMMA RestStays ==
  ASSUME CredInv, UNCHANGED <<member, account, creating, changes>>
  PROVE  RestTyped'
  BY DEF CredInv, RestTyped

LEMMA CodesStay ==
  ASSUME CredInv, code' = code
  PROVE  /\ code' \in CodeRows
         /\ \A c \in Codes : (code'[c].used => code'[c].who # NoOne) /\ (code[c].used => code'[c].used)
  BY DEF CredInv, PeopleOK, CodesOnce

LEMMA IssueKeeps ==
  ASSUME CredInv, NEW p \in People, NEW role \in Roles, Issue(p, role) \/ Login(p, role)
  PROVE  CredInv'
<1> USE CredentialsAssumption
<1>1. /\ IssueSession(p, role, NoOne) /\ UNCHANGED <<member, account, creating, changes>>
      /\ env' = env /\ stored' = stored /\ minKey' = minKey /\ node' = node /\ dead' = dead /\ code' = code
  BY DEF Issue, Login, accounts
<1>2. RestTyped'
  BY <1>1, RestStays
<1>3. /\ code' \in CodeRows
      /\ \A c \in Codes : (code'[c].used => code'[c].who # NoOne) /\ (code[c].used => code'[c].used)
  BY <1>1, CodesStay
<1>4. NoOne \in Codes \cup {NoOne} /\ (NoOne \in Codes => ~code[NoOne].used /\ code'[NoOne].used)
  OBVIOUS
<1> QED
  BY <1>1, <1>2, <1>3, <1>4, IssueIs

LEMMA RevokeSessionKeeps ==
  ASSUME CredInv, NEW s \in Sessions, RevokeSession(s)
  PROVE  CredInv'
<1> USE CredentialsAssumption
<1>1. /\ session[s].live /\ session' = [session EXCEPT ![s].live = FALSE]
      /\ dead' = dead \cup {t \in issued : t.kind = "human" /\ t.id = s}
      /\ UNCHANGED <<member, account, creating, changes>> /\ env' = env /\ stored' = stored /\ minKey' = minKey
      /\ node' = node /\ issued' = issued /\ code' = code
  BY DEF RevokeSession, accounts
<1>2. KeysOK /\ node \in NodeRow /\ session \in SessionRows /\ code \in CodeRows /\ CodesOnce
  BY DEF CredInv, PeopleOK
<1>3. session' \in SessionRows
  BY <1>1, <1>2 DEF SessionRows
<1>4. \A o \in Sessions : /\ session'[o].who = session[o].who /\ session'[o].via = session[o].via
                          /\ session'[o].live = IF o = s THEN FALSE ELSE session[o].live
  BY <1>1, <1>2 DEF SessionRows
<1>5. CodesOnce'
  BY <1>1, <1>2, <1>4 DEF CodesOnce
<1>6. KeysOK' /\ node' \in NodeRow /\ PeopleOK'
  BY <1>1, <1>2, <1>3, <1>5 DEF KeysOK, PeopleOK
<1>7. RestTyped'
  BY <1>1, RestStays
<1>8. Grows
  <2>1. \A w \in env \cup stored : w <= w
    BY <1>2 DEF KeysOK, Versions
  <2>2. node.generation <= node.generation /\ minKey <= minKey
    BY <1>2 DEF KeysOK, NodeRow
  <2> QED
    BY <2>1, <2>2, <1>1, <1>4 DEF Grows
<1>9. KeepsEnds
  BY <1>4 DEF KeepsEnds
<1>10. {} \subseteq Token /\ issued' = issued \cup {} /\ \A u \in {} : (KeyKnown(u.key) /\ NamesOK(u))'
  BY <1>1
<1>11. ASSUME NEW u \in dead' PROVE u \in dead \/ (u \in issued /\ (Ended(u))')
  <2>1. CASE u \in issued /\ u.kind = "human" /\ u.id = s
    <3>1. session'[u.id].live = FALSE
      BY <2>1, <1>4
    <3> QED
      BY <2>1, <3>1 DEF Ended
  <2>2. CASE u \in dead
    BY <2>2
  <2> QED
    BY <1>1, <2>1, <2>2
<1> QED
  BY <1>6, <1>7, <1>8, <1>9, <1>10, <1>11, CredStepIs

LEMMA EnrolKeeps ==
  ASSUME CredInv, NEW c \in Codes, NEW p \in People, NEW role \in Roles, Enrol(c, p, role)
  PROVE  CredInv'
<1> USE CredentialsAssumption
<1>1. /\ code[c].who = NoOne /\ code' = [code EXCEPT ![c] = [who |-> p, role |-> role, used |-> FALSE]]
      /\ UNCHANGED <<member, account, creating, changes>> /\ env' = env /\ stored' = stored /\ minKey' = minKey
      /\ node' = node /\ session' = session /\ issued' = issued /\ dead' = dead
  BY DEF Enrol, accounts
<1>2. code \in CodeRows /\ CodesOnce
  BY DEF CredInv, PeopleOK
<1>3. code' \in CodeRows
  BY <1>1, <1>2 DEF CodeRows
<1>4. \A d \in Codes : code'[d] = IF d = c THEN [who |-> p, role |-> role, used |-> FALSE] ELSE code[d]
  BY <1>1, <1>2 DEF CodeRows
<1>5. \A d \in Codes : (code'[d].used => code'[d].who # NoOne) /\ (code[d].used => code'[d].used)
  BY <1>1, <1>2, <1>4 DEF CodesOnce
<1>6. RestTyped'
  BY <1>1, RestStays
<1> QED
  BY <1>1, <1>3, <1>5, <1>6, QuietIs

LEMMA RedeemKeeps ==
  ASSUME CredInv, NEW c \in Codes, Redeem(c)
  PROVE  CredInv'
<1> USE CredentialsAssumption
<1>1. /\ code[c].who # NoOne /\ ~code[c].used /\ code' = [code EXCEPT ![c].used = TRUE]
      /\ UNCHANGED <<member, account, creating, changes>> /\ env' = env /\ stored' = stored /\ minKey' = minKey
      /\ node' = node /\ dead' = dead
  BY DEF Redeem, accounts
<1>2. code \in CodeRows /\ CodesOnce
  BY DEF CredInv, PeopleOK
<1>3. code' \in CodeRows
  BY <1>1, <1>2 DEF CodeRows
<1>4. \A d \in Codes : /\ code'[d].who = code[d].who
                       /\ code'[d].used = IF d = c THEN TRUE ELSE code[d].used
  BY <1>1, <1>2 DEF CodeRows
<1>5. \A d \in Codes : (code'[d].used => code'[d].who # NoOne) /\ (code[d].used => code'[d].used)
  BY <1>1, <1>2, <1>4 DEF CodesOnce
<1>6. RestTyped'
  BY <1>1, RestStays
<1>7. CASE IssueSession(code[c].who, code[c].role, c)
  <2>1. PICK p, role : p = code[c].who /\ role = code[c].role
    OBVIOUS
  <2>2. p \in People /\ role \in Roles
    BY <1>1, <1>2, <2>1 DEF CodeRows
  <2>3. IssueSession(p, role, c) /\ c \in Codes \cup {NoOne} /\ (c \in Codes => ~code[c].used /\ code'[c].used)
    BY <1>1, <1>4, <1>7, <2>1
  <2> QED
    BY <1>1, <1>3, <1>5, <1>6, <2>2, <2>3, IssueIs
<1>8. CASE session' = session /\ issued' = issued
  BY <1>1, <1>3, <1>5, <1>6, <1>8, QuietIs
<1> QED
  BY <1>7, <1>8 DEF Redeem

LEMMA RowsKeep ==
  ASSUME CredInv, NEW p \in People,
         \/ \E role \in {Auditor, Reviewer} : GrantMembership(p, role)
         \/ RevokeMembership(p) \/ \E c \in Callers : FindName(c, p)
  PROVE  CredInv'
<1> USE CredentialsAssumption
<1>1. /\ env' = env /\ stored' = stored /\ minKey' = minKey /\ code' = code
      /\ node' = node /\ session' = session /\ issued' = issued /\ dead' = dead
  BY DEF GrantMembership, RevokeMembership, FindName, accounts
<1>2. /\ code' \in CodeRows
      /\ \A c \in Codes : (code'[c].used => code'[c].who # NoOne) /\ (code[c].used => code'[c].used)
  BY <1>1, CodesStay
<1>3. RestTyped
  BY DEF CredInv
<1>4. ASSUME NEW role \in {Auditor, Reviewer}, GrantMembership(p, role)
      PROVE  RestTyped'
  BY <1>3, <1>4 DEF GrantMembership, RestTyped, Changed, accounts, Auditor, Reviewer
<1>5. ASSUME RevokeMembership(p)
      PROVE  RestTyped'
  BY <1>3, <1>5 DEF RevokeMembership, RestTyped, Changed, accounts, Auditor, Reviewer
<1>6. ASSUME NEW c \in Callers, FindName(c, p)
      PROVE  RestTyped'
  BY <1>3, <1>6 DEF FindName, RestTyped
<1>7. RestTyped'
  BY <1>4, <1>5, <1>6
<1> QED
  BY <1>1, <1>2, <1>7, QuietIs

LEMMA CreateAccountKeeps ==
  ASSUME CredInv, NEW c \in Callers, CreateAccount(c)
  PROVE  CredInv'
<1> USE CredentialsAssumption
<1>1. /\ env' = env /\ stored' = stored /\ minKey' = minKey /\ code' = code
      /\ node' = node /\ session' = session /\ issued' = issued /\ dead' = dead
  BY DEF CreateAccount
<1>2. /\ code' \in CodeRows
      /\ \A d \in Codes : (code'[d].used => code'[d].who # NoOne) /\ (code[d].used => code'[d].used)
  BY <1>1, CodesStay
<1>3. RestTyped
  BY DEF CredInv
<1>4. account' \in [People -> Callers \cup {NoOne}] /\ creating' \in [Callers -> People \cup {NoOne}]
  BY <1>3 DEF CreateAccount, InsertAccount, RestTyped
<1>5. member' = member /\ changes' = changes
  BY DEF CreateAccount
<1>6. RestTyped'
  BY <1>3, <1>4, <1>5 DEF RestTyped
<1> QED
  BY <1>1, <1>2, <1>6, QuietIs
\* The node's generation rises; the tokens that end are its own.
LEMMA NodeIs ==
  ASSUME CredInv, node' \in NodeRow, node.generation <= node'.generation,
         node.generation = node'.generation => dead' = dead,
         env' = env, stored' = stored, minKey' = minKey, session' = session, code' = code,
         UNCHANGED <<member, account, creating, changes>>,
         \A u \in dead' : u \in dead \/ (u \in issued /\ OfNode(u)),
         NEW X, X \subseteq Token, issued' = issued \cup X, \A t \in X : (KeyKnown(t.key) /\ NamesOK(t))'
  PROVE  CredInv'
<1> USE CredentialsAssumption
<1>1. KeysOK /\ node \in NodeRow /\ PeopleOK /\ IssuedOK
  BY DEF CredInv
<1>2. KeysOK' /\ PeopleOK'
  BY <1>1 DEF KeysOK, PeopleOK, CodesOnce
<1>3. RestTyped'
  BY RestStays
<1>4. Grows
  <2>1. \A w \in env \cup stored : w <= w
    BY <1>1 DEF KeysOK, Versions
  <2>2. minKey <= minKey
    BY <1>1 DEF KeysOK
  <2> QED
    BY <2>1, <2>2 DEF Grows
<1>5. KeepsEnds
  BY DEF KeepsEnds
<1>6. ASSUME NEW u \in dead' PROVE u \in dead \/ (u \in issued /\ (Ended(u))')
  <2>1. CASE u \in dead
    BY <2>1
  <2>2. CASE u \in issued /\ OfNode(u) /\ u \notin dead
    <3>1. NamesOK(u) /\ u.kind = "node"
      BY <1>1, <2>2 DEF IssuedOK, OfNode
    <3>2. u.id \in 0 .. GenBound /\ u.id <= node.generation
      BY <3>1 DEF NamesOK
    <3>3. node.generation # node'.generation
      BY <2>2
    <3>4. node.generation \in Int /\ node'.generation \in Int
      BY <1>1 DEF NodeRow
    <3>5. u.id < node'.generation
      BY <3>2, <3>3, <3>4
    <3> QED
      BY <2>2, <3>1, <3>5 DEF Ended
  <2> QED
    BY <2>1, <2>2
<1> QED
  BY <1>2, <1>3, <1>4, <1>5, <1>6, CredStepIs

\* The token of the new generation.
LEMMA NodeTokenIs ==
  ASSUME CredInv, env' = env, stored' = stored, minKey' = minKey, NEW g \in 0 .. GenBound, node'.generation = g,
         issued' = (IF KeyRing = {} THEN issued ELSE issued \cup {Signed("node", g)})
  PROVE  \E X : X \subseteq Token /\ issued' = issued \cup X /\ \A t \in X : (KeyKnown(t.key) /\ NamesOK(t))'
<1> USE CredentialsAssumption
<1>1. KeysOK
  BY DEF CredInv
<1>2. PICK t : t = Signed("node", g)
  OBVIOUS
<1>3. t \in Token /\ KeyKnown(t.key) /\ t.kind = "node" /\ t.id = g
  BY <1>1, <1>2, SignedIsOK
<1>4. (KeyKnown(t.key))'
  BY <1>3 DEF KeyKnown
<1>5. (NamesOK(t))'
  BY <1>3 DEF NamesOK
<1>6. {t} \subseteq Token /\ issued' = issued \cup {t} /\ \A u \in {t} : (KeyKnown(u.key) /\ NamesOK(u))'
  BY <1>1, <1>2, <1>3, <1>4, <1>5, RingSigns
<1> QED
  BY <1>6

LEMMA EnrolNodeKeeps ==
  ASSUME CredInv, EnrolNode
  PROVE  CredInv'
<1> USE CredentialsAssumption
<1>1. /\ node.generation < GenBound /\ node' = [node EXCEPT !.generation = @ + 1]
      /\ dead' = dead \cup {t \in issued : OfNode(t)}
      /\ issued' = IF KeyRing = {} THEN issued ELSE issued \cup {Signed("node", node.generation + 1)}
      /\ UNCHANGED <<member, account, creating, changes>> /\ env' = env /\ stored' = stored /\ minKey' = minKey
      /\ session' = session /\ code' = code
  BY DEF EnrolNode, NextGeneration, IssueNode, accounts
<1>2. node \in NodeRow
  BY DEF CredInv
<1>3. PICK g : g = node.generation + 1
  OBVIOUS
<1>4. node.generation \in Nat /\ g \in 0 .. GenBound /\ node.generation < g
  BY <1>1, <1>2, <1>3 DEF NodeRow
<1>5. node' = [node EXCEPT !.generation = g]
  BY <1>1, <1>3
<1>6. node' \in NodeRow /\ node'.generation = g
  BY <1>2, <1>4, <1>5 DEF NodeRow
<1>7. node.generation <= node'.generation /\ node.generation # node'.generation
  BY <1>4, <1>6
<1>8. issued' = IF KeyRing = {} THEN issued ELSE issued \cup {Signed("node", g)}
  BY <1>1, <1>3
<1>9. PICK X : X \subseteq Token /\ issued' = issued \cup X /\ \A t \in X : (KeyKnown(t.key) /\ NamesOK(t))'
  BY <1>1, <1>4, <1>6, <1>8, NodeTokenIs
<1>10. \A u \in dead' : u \in dead \/ (u \in issued /\ OfNode(u))
  BY <1>1
<1> QED
  BY <1>1, <1>6, <1>7, <1>9, <1>10, NodeIs

LEMMA RotateNodeKeeps ==
  ASSUME CredInv, RotateNode
  PROVE  CredInv'
<1> USE CredentialsAssumption
<1>1. PICK steps \in 0 .. 3 :
       /\ node' = [generation |-> Raised(steps), session |-> IF steps >= 2 THEN node.generation + 1 ELSE 0]
       /\ dead' = IF steps = 0 THEN dead ELSE dead \cup {t \in issued : OfNode(t)}
       /\ IF steps = 3 THEN IssueNode(node.generation + 1) ELSE issued' = issued
  BY DEF RotateNode
<1>2. /\ node.generation < GenBound
      /\ UNCHANGED <<member, account, creating, changes>> /\ env' = env /\ stored' = stored /\ minKey' = minKey
      /\ session' = session /\ code' = code
  BY DEF RotateNode, NextGeneration, accounts
<1>3. node \in NodeRow
  BY DEF CredInv
<1>4. PICK g : g = node.generation + 1
  OBVIOUS
<1>5. node.generation \in 0 .. GenBound /\ node.generation \in Nat /\ g \in 0 .. GenBound /\ node.generation < g
  BY <1>2, <1>3, <1>4 DEF NodeRow
<1>6. node' = [generation |-> IF steps >= 1 THEN g ELSE node.generation, session |-> IF steps >= 2 THEN g ELSE 0]
  BY <1>1, <1>4 DEF Raised
<1>7. node' \in NodeRow /\ node'.generation = IF steps >= 1 THEN g ELSE node.generation
  BY <1>5, <1>6 DEF NodeRow
<1>8. node.generation <= node'.generation
  BY <1>5, <1>7
<1>9. node.generation = node'.generation => dead' = dead
  <2>1. CASE steps = 0
    BY <2>1, <1>1
  <2>2. CASE steps # 0
    BY <2>2, <1>5, <1>7
  <2> QED
    BY <2>1, <2>2
<1>10. \A u \in dead' : u \in dead \/ (u \in issued /\ OfNode(u))
  BY <1>1
<1>11. \E X : X \subseteq Token /\ issued' = issued \cup X /\ \A t \in X : (KeyKnown(t.key) /\ NamesOK(t))'
  <2>1. CASE steps = 3
    <3>1. node'.generation = g
      BY <2>1, <1>7
    <3>2. issued' = IF KeyRing = {} THEN issued ELSE issued \cup {Signed("node", g)}
      BY <2>1, <1>1, <1>4 DEF IssueNode
    <3> QED
      BY <1>2, <1>5, <3>1, <3>2, NodeTokenIs
  <2>2. CASE steps # 3
    <3>1. {} \subseteq Token /\ issued' = issued \cup {} /\ \A u \in {} : (KeyKnown(u.key) /\ NamesOK(u))'
      BY <2>2, <1>1
    <3> QED
      BY <3>1
  <2> QED
    BY <2>1, <2>2
<1>12. PICK X : X \subseteq Token /\ issued' = issued \cup X /\ \A t \in X : (KeyKnown(t.key) /\ NamesOK(t))'
  BY <1>11
<1> QED
  BY <1>2, <1>7, <1>8, <1>9, <1>10, <1>12, NodeIs

LEMMA IssueMachineKeeps ==
  ASSUME CredInv, NEW kind \in Machines, IssueMachine(kind)
  PROVE  CredInv'
<1> USE CredentialsAssumption
<1>1. /\ issued' = issued \cup {Signed(kind, 0)} /\ dead' = dead /\ node' = node
      /\ UNCHANGED <<member, account, creating, changes>> /\ env' = env /\ stored' = stored /\ minKey' = minKey
      /\ session' = session /\ code' = code
  BY DEF IssueMachine, accounts
<1>2. KeysOK /\ node \in NodeRow /\ 0 \in Sessions \cup 0 .. GenBound
  BY DEF CredInv
<1>3. PICK t : t = Signed(kind, 0)
  OBVIOUS
<1>4. t \in Token /\ KeyKnown(t.key) /\ t.kind = kind
  BY <1>2, <1>3, SignedIsOK
<1>5. (KeyKnown(t.key))'
  BY <1>1, <1>4 DEF KeyKnown
<1>6. (NamesOK(t))'
  BY <1>4 DEF NamesOK
<1>7. {t} \subseteq Token /\ issued' = issued \cup {t} /\ \A u \in {t} : (KeyKnown(u.key) /\ NamesOK(u))'
  BY <1>1, <1>3, <1>4, <1>5, <1>6
<1>8. node' \in NodeRow /\ node.generation <= node'.generation
  BY <1>1, <1>2 DEF NodeRow
<1>9. \A u \in dead' : u \in dead \/ (u \in issued /\ OfNode(u))
  BY <1>1
<1> QED
  BY <1>1, <1>7, <1>8, <1>9, NodeIs

\* The new version is above every key there ever was.
LEMMA NewVersionIsAbove ==
  ASSUME KeysOK
  PROVE  NewVersion \in Nat /\ minKey < NewVersion /\ \A w \in env \cup stored : w < NewVersion
<1> USE CredentialsAssumption
<1> DEFINE All == env \cup stored \cup {0}
           top == Max(All)
<1>1. All \in SUBSET (0 .. KeyBound) /\ All # {}
  BY DEF KeysOK, Versions
<1>2. top \in All /\ \A n \in All : n <= top
  <2> HIDE DEF All
  <2> QED
    BY <1>1, GreatestExists
<1>3. top \in 0 .. KeyBound /\ minKey \in 0 .. KeyBound
  BY <1>1, <1>2 DEF KeysOK
<1>4. NextKeyVersion = top + 1
  BY DEF NextKeyVersion
<1> HIDE DEF top
<1> DEFINE two == {top + 1, minKey + 1}
<1>5. two \in SUBSET (0 .. KeyBound + 1) /\ two # {} /\ KeyBound + 1 \in Nat
  BY <1>3
<1>6. Max(two) \in two /\ \A n \in two : n <= Max(two)
  <2> HIDE DEF two
  <2> QED
    BY <1>5, GreatestExists
<1>7. NewVersion = Max(two)
  BY <1>4 DEF NewVersion
<1>8. NewVersion \in Nat /\ top + 1 <= NewVersion /\ minKey + 1 <= NewVersion
  BY <1>3, <1>6, <1>7
<1>9. \A w \in env \cup stored : w \in 0 .. KeyBound /\ w <= top
  BY <1>1, <1>2
<1> QED
  BY <1>3, <1>8, <1>9

LEMMA RevokeAllKeeps ==
  ASSUME CredInv, RevokeAll
  PROVE  CredInv'
<1> USE CredentialsAssumption
<1>1. /\ NewVersion \in Versions /\ stored' = stored \cup {NewVersion} /\ minKey' = NewVersion
      /\ session' = [s \in Sessions |-> [session[s] EXCEPT !.live = FALSE]]
      /\ node' = [node EXCEPT !.session = 0] /\ dead' = issued /\ issued' = issued
      /\ UNCHANGED <<member, account, creating, changes>> /\ env' = env /\ code' = code
  BY DEF RevokeAll, accounts
<1>2. KeysOK /\ node \in NodeRow /\ session \in SessionRows /\ code \in CodeRows /\ CodesOnce /\ IssuedOK
  BY DEF CredInv, PeopleOK
<1>3. NewVersion \in Nat /\ minKey < NewVersion /\ \A w \in env \cup stored : w < NewVersion
  BY <1>2, NewVersionIsAbove
<1>4. PICK v : v = NewVersion
  OBVIOUS
<1>5. v \in Versions /\ stored' = stored \cup {v} /\ minKey' = v /\ minKey < v /\ \A w \in env \cup stored : w < v
  BY <1>1, <1>3, <1>4
<1>6. session' \in SessionRows
  BY <1>1, <1>2 DEF SessionRows
<1>7. \A o \in Sessions : session'[o].who = session[o].who /\ session'[o].via = session[o].via /\ session'[o].live = FALSE
  BY <1>1, <1>2 DEF SessionRows
<1>8. CodesOnce'
  <2>1. \A c \in Codes : code'[c].used => code'[c].who # NoOne
    BY <1>1, <1>2 DEF CodesOnce
  <2>2. \A o \in Sessions : session'[o].via \in Codes => code'[session'[o].via].used
    BY <1>1, <1>2, <1>7 DEF CodesOnce
  <2>3. ASSUME NEW o \in Sessions, NEW other \in Sessions, session'[o].via \in Codes, session'[other].via = session'[o].via
        PROVE  other = o
    BY <2>3, <1>2, <1>7 DEF CodesOnce
  <2> QED
    BY <2>1, <2>2, <2>3 DEF CodesOnce
<1>9. KeysOK'
  BY <1>1, <1>2, <1>5 DEF KeysOK, Versions
<1>10. node' \in NodeRow /\ node'.generation = node.generation
  BY <1>1, <1>2 DEF NodeRow
<1>11. PeopleOK' /\ RestTyped'
  BY <1>1, <1>2, <1>6, <1>8, RestStays DEF PeopleOK
<1>12. Grows
  <2>1. \A w \in env \cup stored : w <= w
    BY <1>2 DEF KeysOK, Versions
  <2>2. node.generation <= node.generation
    BY <1>2 DEF NodeRow
  <2>3. minKey <= v
    BY <1>2, <1>5 DEF KeysOK, Versions
  <2> QED
    BY <2>1, <2>2, <2>3, <1>1, <1>5, <1>7, <1>10 DEF Grows
<1>13. KeepsEnds
  BY <1>7 DEF KeepsEnds
<1>14. {} \subseteq Token /\ issued' = issued \cup {} /\ \A u \in {} : (KeyKnown(u.key) /\ NamesOK(u))'
  BY <1>1
<1>15. ASSUME NEW u \in dead' PROVE u \in dead \/ (u \in issued /\ (Ended(u))')
  <2>1. u \in issued /\ KeyKnown(u.key)
    BY <1>1, <1>2 DEF IssuedOK
  <2>2. PICK w \in env \cup stored : u.key.v <= w
    BY <2>1 DEF KeyKnown
  <2>3. u.key.v \in Int /\ w \in Int /\ v \in Int /\ w < v
    BY <2>1, <2>2, <1>2, <1>5 DEF KeyKnown, Key, Versions, KeysOK
  <2>4. u.key.v < minKey'
    BY <2>2, <2>3, <1>5
  <2> QED
    BY <2>1, <2>4 DEF Ended
<1> QED
  BY <1>9, <1>10, <1>11, <1>12, <1>13, <1>14, <1>15, CredStepIs

LEMMA RestartKeeps ==
  ASSUME CredInv, NEW added \in SUBSET Versions, NEW dropped \in SUBSET Versions, Restart(added, dropped)
  PROVE  CredInv'
<1> USE CredentialsAssumption
<1>1. /\ \A v \in dropped : \E w \in env : w > v
      /\ env' = (env \cup added) \ dropped /\ stored' = stored /\ minKey' = minKey
      /\ session' = session /\ node' = node /\ dead' = dead /\ issued' = issued /\ code' = code
  BY DEF Restart
<1>2. KeysOK /\ node \in NodeRow /\ PeopleOK
  BY DEF CredInv
<1>3. env \in SUBSET (0 .. KeyBound) /\ env # {}
  BY <1>2 DEF KeysOK, Versions
<1>4. PICK top : top = Max(env)
  OBVIOUS
<1>5. top \in env /\ \A n \in env : n <= top
  BY <1>3, <1>4, GreatestExists
<1>6. top \notin dropped
  <2>1. \A w \in env : w \in Int /\ w <= top /\ top \in Int
    BY <1>3, <1>5
  <2>2. \A w \in env : ~(w > top)
    BY <2>1
  <2> QED
    BY <1>1, <2>2
<1>7. top \in env' /\ env' \subseteq Versions
  BY <1>1, <1>2, <1>5, <1>6 DEF KeysOK
<1>8. KeysOK'
  BY <1>1, <1>2, <1>7 DEF KeysOK
<1>9. PeopleOK' /\ node' \in NodeRow
  BY <1>1, <1>2 DEF PeopleOK, CodesOnce
<1>10. RestTyped'
  <2>1. RestTyped
    BY DEF CredInv
  <2> QED
    BY <2>1 DEF RestTyped, Restart, Changed
<1>11. Grows
  <2>1. \A w \in env : \E x \in env' \cup stored' : w <= x
    BY <1>5, <1>7
  <2>2. \A w \in stored : w \in stored' /\ w <= w
    BY <1>1, <1>2 DEF KeysOK, Versions
  <2>3. node.generation <= node.generation /\ minKey <= minKey
    BY <1>2 DEF KeysOK, NodeRow
  <2> QED
    BY <2>1, <2>2, <2>3, <1>1 DEF Grows
<1>12. KeepsEnds
  BY <1>1 DEF KeepsEnds
<1>13. {} \subseteq Token /\ issued' = issued \cup {} /\ \A u \in {} : (KeyKnown(u.key) /\ NamesOK(u))'
  BY <1>1
<1>14. ASSUME NEW u \in dead' PROVE u \in dead \/ (u \in issued /\ (Ended(u))')
  BY <1>1
<1> QED
  BY <1>8, <1>9, <1>10, <1>11, <1>12, <1>13, <1>14, CredStepIs
LEMMA PeopleKeep ==
  ASSUME CredInv, PeopleNext
  PROVE  CredInv'
<1>1. CASE \E p \in People, role \in Roles : Issue(p, role) \/ Login(p, role)
  BY <1>1, IssueKeeps
<1>2. CASE \E p \in People, role \in Roles, c \in Codes : Enrol(c, p, role)
  BY <1>2, EnrolKeeps
<1>3. CASE \E p \in People : \/ \E role \in {Auditor, Reviewer} : GrantMembership(p, role)
                             \/ RevokeMembership(p) \/ \E c \in Callers : FindName(c, p)
  BY <1>3, RowsKeep
<1>4. CASE \E s \in Sessions : RevokeSession(s)
  BY <1>4, RevokeSessionKeeps
<1>5. CASE \E c \in Codes : Redeem(c)
  BY <1>5, RedeemKeeps
<1>6. CASE \E c \in Callers : CreateAccount(c)
  BY <1>6, CreateAccountKeeps
<1> QED
  BY <1>1, <1>2, <1>3, <1>4, <1>5, <1>6 DEF PeopleNext

LEMMA MachinesKeep ==
  ASSUME CredInv, MachinesNext
  PROVE  CredInv'
  BY EnrolNodeKeeps, RotateNodeKeeps, IssueMachineKeeps DEF MachinesNext

LEMMA RingKeeps ==
  ASSUME CredInv, RingNext
  PROVE  CredInv'
<1>1. CASE RevokeAll
  BY <1>1, RevokeAllKeeps
<1>2. CASE \E added, dropped \in {v \in SUBSET Versions : Cardinality(v) <= 1} : Restart(added, dropped)
  BY <1>2, RestartKeeps
<1> QED
  BY <1>1, <1>2 DEF RingNext

LEMMA CredUnchanged ==
  ASSUME CredInv, UNCHANGED credentialVars
  PROVE  CredInv'
<1>1. /\ env' = env /\ stored' = stored /\ minKey' = minKey /\ node' = node /\ session' = session /\ issued' = issued
      /\ dead' = dead /\ code' = code /\ UNCHANGED <<member, account, creating, changes>>
  BY DEF credentialVars
<1>2. RestTyped'
  BY <1>1, RestStays
<1>3. /\ code' \in CodeRows
      /\ \A c \in Codes : (code'[c].used => code'[c].who # NoOne) /\ (code[c].used => code'[c].used)
  BY <1>1, CodesStay
<1> QED
  BY <1>1, <1>2, <1>3, QuietIs

LEMMA CredTyped ==
  ASSUME CredInv
  PROVE  CredentialsTypeOK
<1>1. KeysOK /\ session \in SessionRows /\ code \in CodeRows /\ node \in NodeRow /\ RestTyped
  BY DEF CredInv, PeopleOK
<1>2. issued \subseteq Token /\ dead \subseteq issued
  BY DEF CredInv, IssuedOK
<1> QED
  BY <1>1, <1>2 DEF CredentialsTypeOK, KeysOK, SessionRows, CodeRows, NodeRow, RestTyped

\* A token that ended is refused.
LEMMA EndedIsRefused ==
  ASSUME CredInv, NEW t \in dead
  PROVE  ~Verified(t)
<1> USE CredentialsAssumption
<1>1. KeysOK /\ node \in NodeRow /\ t \in issued /\ NamesOK(t) /\ Ended(t) /\ t.key \in Key
  BY DEF CredInv, IssuedOK, DeadOK, KeyKnown
<1>2. CASE t.key.v < minKey
  <2>1. t.key.v \in Int /\ minKey \in Int /\ ~(t.key.v >= minKey)
    BY <1>1, <1>2 DEF Key, Versions, KeysOK
  <2>2. \A k \in KeyRing : k.v >= minKey
    BY DEF KeyRing
  <2>3. t.key \notin KeyRing
    BY <2>1, <2>2
  <2> QED
    BY <2>3 DEF Verified, KeyAccepted
<1>3. CASE t.kind = "human" /\ session[t.id].live = FALSE
  BY <1>3 DEF Verified, PersonAccepted
<1>4. CASE t.kind = "node" /\ t.id < node.generation
  <2>1. t.id \in Int /\ node.generation \in Int
    BY <1>1, <1>4 DEF NamesOK, NodeRow
  <2>2. t.id # node.generation
    BY <2>1, <1>4
  <2> QED
    BY <1>4, <2>2 DEF Verified, NodeAccepted
<1> QED
  BY <1>1, <1>2, <1>3, <1>4 DEF Ended

\* The rows of one code: none, or one.
LEMMA OneSessionPerCode ==
  ASSUME CredInv, NEW c \in Codes
  PROVE  Cardinality({s \in Sessions : session[s].via = c}) <= 1
<1>1. CodesOnce
  BY DEF CredInv, PeopleOK
<1> DEFINE Its == {s \in Sessions : session[s].via = c}
<1>2. CASE Its = {}
  BY <1>2, FS_EmptySet
<1>3. CASE Its # {}
  <2>1. PICK s \in Its : TRUE
    BY <1>3
  <2>2. Its = {s}
    BY <2>1, <1>1 DEF CodesOnce
  <2>3. Cardinality({s}) = 1
    BY FS_Singleton
  <2>4. Cardinality(Its) = 1
    BY <2>2, <2>3
  <2> QED
    BY <2>4
<1> QED
  BY <1>2, <1>3

\* The decision on a person's request, for every role and route there is.
LEMMA WritesNeedARank ==
  ASSUME CredInv, NEW t \in {u \in issued : u.kind = "human"}, NEW r \in Decisions, NEW byCookie \in BOOLEAN,
         Served(t, r, byCookie)
  PROVE  /\ session[t.id].live /\ session[t.id].role >= Reviewer
         /\ MemberFor(session[t.id].who, session[t.id].role)
<1>1. t.id \in Sessions
  BY DEF CredInv, IssuedOK, NamesOK
<1>2. session[t.id].role \in Roles
  BY <1>1 DEF CredInv, PeopleOK, SessionRows
<1>3. Verified(t)
  BY DEF Served
<1>4. session[t.id].live /\ MemberFor(session[t.id].who, session[t.id].role)
  BY <1>3 DEF Verified, PersonAccepted
<1>5. r.write = TRUE /\ r.least \in 0 .. Owner /\ r.least >= Reviewer
  BY DEF Decisions, Route
<1> DEFINE role == session[t.id].role
<1>6. role \in {1, 2, 3}
  BY <1>2 DEF Roles, Auditor, Reviewer, Owner
<1> HIDE DEF role
<1>7. GuardAllows(r, role) \/ V1Allowed(r, role)
  BY DEF Served, role
<1>8. role >= Reviewer
  <2>1. CASE GuardAllows(r, role)
    BY <2>1, <1>5, <1>6 DEF GuardAllows, Owner, Reviewer
  <2>2. CASE V1Allowed(r, role)
    BY <2>2, <1>5, <1>6 DEF V1Allowed, Owner, Reviewer
  <2> QED
    BY <1>7, <2>1, <2>2
<1> QED
  BY <1>4, <1>8 DEF role

\* The account of a name is never given to another.
LEMMA AccountsStand ==
  ASSUME CredInv, CredentialsNext, NEW p \in People, account[p] # NoOne
  PROVE  account'[p] = account[p]
<1>1. CASE \E c \in Callers : CreateAccount(c)
  <2>1. PICK c \in Callers : CreateAccount(c)
    BY <1>1
  <2>2. account \in [People -> Callers \cup {NoOne}] /\ creating[c] \in People
    BY <2>1 DEF CredInv, RestTyped, CreateAccount
  <2> QED
    BY <2>1, <2>2 DEF CreateAccount, InsertAccount
<1>2. ASSUME PeopleNext, ~\E c \in Callers : CreateAccount(c)
      PROVE  account' = account
  BY <1>2 DEF PeopleNext, Issue, Login, Enrol, GrantMembership, RevokeMembership, FindName, RevokeSession, Redeem, accounts
<1>3. ASSUME MachinesNext
      PROVE  account' = account
  BY <1>3 DEF MachinesNext, EnrolNode, RotateNode, IssueMachine, accounts
<1>4. ASSUME RingNext
      PROVE  account' = account
  BY <1>4 DEF RingNext, RevokeAll, Restart, accounts
<1> QED
  BY <1>1, <1>2, <1>3, <1>4 DEF CredentialsNext

\* What every state and every step of the credentials has.
LEMMA CredSafeState ==
  ASSUME CredInv
  PROVE  /\ \A t \in dead : ~Verified(t)
         /\ minKey # 0 => KeyRing # {}
         /\ \A c \in Codes : Cardinality({s \in Sessions : session[s].via = c}) <= 1
         /\ \A t \in {u \in issued : u.kind = "human"}, r \in Decisions, byCookie \in BOOLEAN :
              Served(t, r, byCookie) =>
                /\ session[t.id].live /\ session[t.id].role >= Reviewer
                /\ MemberFor(session[t.id].who, session[t.id].role)
<1>1. KeysOK
  BY DEF CredInv
<1> QED
  BY <1>1, RingSigns, EndedIsRefused, OneSessionPerCode, WritesNeedARank

LEMMA CredSafeStep ==
  ASSUME CredInv, [CredentialsNext]_credentialVars
  PROVE  [\A p \in People : account[p] # NoOne => account'[p] = account[p]]_credentialVars
  BY AccountsStand

\* The variables of the credentials keep their types (the tables of human sessions, nodes and keys).
THEOREM CredentialsTypes == CredentialsSpec => []CredentialsTypeOK
<1>1. CredentialsInit => CredInv
  BY CredInit
<1>2. CredInv /\ [CredentialsNext]_credentialVars => CredInv'
  BY PeopleKeep, MachinesKeep, RingKeeps, CredUnchanged DEF CredentialsNext
<1>3. CredInv => CredentialsTypeOK
  BY CredTyped
<1> QED
  BY <1>1, <1>2, <1>3, PTL DEF CredentialsSpec

\* A token that was ended is refused for ever, a sweep leaves a key to sign with, a code
\* gives one session at most, a person's write needs a live session, a membership and
\* a rank, and a name keeps its account (verifyToken, revokeAllSessions, redeem, createHumanAccount).
THEOREM Credentials_Safe == CredentialsSpec => CredentialsAreSafe
<1>1. CredentialsInit => CredInv
  BY CredInit
<1>2. CredInv /\ [CredentialsNext]_credentialVars => CredInv'
  BY PeopleKeep, MachinesKeep, RingKeeps, CredUnchanged DEF CredentialsNext
<1>3. CredInv => (\A t \in dead : ~Verified(t))
  BY CredSafeState
<1>4. CredInv => (minKey # 0 => KeyRing # {})
  BY CredSafeState
<1>5. CredInv => (\A c \in Codes : Cardinality({s \in Sessions : session[s].via = c}) <= 1)
  BY CredSafeState
<1>6. CredInv => (\A t \in {u \in issued : u.kind = "human"}, r \in Decisions, byCookie \in BOOLEAN :
          Served(t, r, byCookie) =>
            /\ session[t.id].live /\ session[t.id].role >= Reviewer
            /\ MemberFor(session[t.id].who, session[t.id].role))
  BY CredSafeState
<1>7. CredInv /\ [CredentialsNext]_credentialVars =>
        [\A p \in People : account[p] # NoOne => account'[p] = account[p]]_credentialVars
  BY CredSafeStep
<1> QED
  BY <1>1, <1>2, <1>3, <1>4, <1>5, <1>6, <1>7, PTL DEF CredentialsSpec, CredentialsAreSafe, AccountsStay

-----------------------------------------------------------------------------
(* ---- WorkerExecution ---- *)

JobRow == [status : Status, by : Slots \cup {NoSlot}, token : 0 .. TokenBound]
OwnerRows == [Files -> [job : Jobs \cup {NoJob}, slot : Slots \cup {NoSlot}]]
ProgressRow == [token : 0 .. TokenBound, stage : Stages, verdict : {"none", "done", "failed"}, delivery : Delivery]
Over == {"done", "failed"}

\* An attempt by itself.
NamesItsJob(a) == a.at \notin {"idle", "gone"} => a.job \in Jobs
VerdictStands(a) ==
  /\ a.verdict # "none" => a.at \in {"reporting", "sent", "leaving", "gone"}
  /\ a.at \in {"reporting", "sent"} => a.verdict \in Over
  /\ a.verdict = "done" => a.job \in Jobs /\ a.told \subseteq Owns(a.job) /\ a.mine \ Owns(a.job) \subseteq a.others
Early == {"granted", "checking", "preempting", "lease", "listing"}
RunIsSeen(a) ==
  /\ a.at \in Early => a.mine = {}
  /\ a.at \in {"working", "attributing"} => a.mine \subseteq a.changed /\ a.lanes \subseteq a.others
  /\ a.at = "attributing" => a.told \subseteq a.mine
SaysOnce(a) ==
  /\ a.at \notin {"sent", "failSent", "leaving", "gone"} => a.said = {} /\ a.took = FALSE
  /\ a.said \in {{}, {"done"}, {"failed"}}
AttemptOK(a) == NamesItsJob(a) /\ VerdictStands(a) /\ RunIsSeen(a) /\ SaysOnce(a)

\* Whoever owns a file while the agent runs has been seen.
SeesOwners(s, a, held) ==
  a.at \in {"working", "attributing"} => \A f \in Files : held[f].slot \notin {NoSlot, s} => f \in a.others

\* What an attempt may rely on at the hub: n tokens were issued.
KnowsHub(s, a, rows, n) ==
  /\ a.job \in Jobs => a.token \in 1 .. n
  /\ a.job \in Jobs /\ rows[a.job].by = s => rows[a.job].token = a.token
  /\ a.at = "sent" /\ a.took = TRUE => rows[a.job].status = a.verdict /\ rows[a.job].token = a.token
  /\ a.at = "failSent" /\ a.took = TRUE => rows[a.job].status = "failed" /\ rows[a.job].token = a.token
  /\ a.at \in {"yielded", "asked"} /\ rows[a.job].status = "running" => rows[a.job].token # a.token

HubTyped ==
  /\ job \in [Jobs -> JobRow] /\ owner \in OwnerRows /\ tokens \in 0 .. TokenBound
  /\ \A j \in Jobs : job[j].token <= tokens
DiskTyped == claimFile \in [Jobs -> 0 .. TokenBound] /\ bound \subseteq Jobs /\ troubles \in 0 .. TroubleBound
SlotsOK == slot \in [Slots -> Attempt] /\ \A s \in Slots : AttemptOK(slot[s])
SlotsSee == \A s \in Slots : SeesOwners(s, slot[s], owner)
SlotsKnow == \A s \in Slots : KnowsHub(s, slot[s], job, tokens)

\* A delivery that counts as made is of a closed claim.
Delivered(p, row) ==
  p.delivery \in {"reported", "confirmed"} => p.verdict \in Over /\ row.status = p.verdict /\ row.token = p.token
ProgressOK == progress \in [Jobs -> ProgressRow] /\ \A j \in Jobs : Delivered(progress[j], job[j])

ExecInv == HubTyped /\ DiskTyped /\ SlotsOK /\ SlotsSee /\ SlotsKnow /\ ProgressOK

LEMMA ExecInitially ==
  ASSUME ExecutionInit
  PROVE  ExecInv
<1> USE ExecutionAssumption DEF ExecutionInit
<1>1. HubTyped
  BY DEF HubTyped, JobRow, OwnerRows, Status, Free
<1>2. DiskTyped
  BY DEF DiskTyped
<1>3. NoAttempt \in Attempt
  BY DEF NoAttempt, Attempt, Phases
<1>4. AttemptOK(NoAttempt)
  BY DEF AttemptOK, NamesItsJob, VerdictStands, RunIsSeen, SaysOnce, NoAttempt, Early
<1>5. SlotsOK
  BY <1>3, <1>4 DEF SlotsOK
<1>6. NoAttempt.at = "idle" /\ NoAttempt.job = NoJob
  BY DEF NoAttempt
<1>7. SlotsSee /\ SlotsKnow
  BY <1>6 DEF SlotsSee, SlotsKnow, SeesOwners, KnowsHub
<1>8. ProgressOK
  BY DEF ProgressOK, ProgressRow, Delivered, Stages, Delivery
<1> QED
  BY <1>1, <1>2, <1>5, <1>7, <1>8 DEF ExecInv

\* An attempt that only moves on.
LEMMA MovesOn ==
  ASSUME NEW a \in Attempt, NEW at \in Phases
  PROVE  [a EXCEPT !.at = at] \in Attempt
  BY DEF Attempt

\* A row of the hub that moves as the worker expects: a claim that is over stays,
\* another's claim gets a token of its own.
RowMoves(old, new, n, s) ==
  \/ new = old
  \/ /\ old.status \notin Over
     /\ new.by = s => new.by = old.by /\ new.token = old.token
     /\ new.status = "running" => new.token > n

LEMMA KnowsStays ==
  ASSUME NEW s, NEW a \in Attempt, AttemptOK(a), NEW rows \in [Jobs -> JobRow], NEW rows2 \in [Jobs -> JobRow],
         NEW n \in Nat, NEW n2 \in Nat, n <= n2, KnowsHub(s, a, rows, n),
         \A j \in Jobs : RowMoves(rows[j], rows2[j], n, s)
  PROVE  KnowsHub(s, a, rows2, n2)
<1> USE ExecutionAssumption
<1>0. CASE a.job \notin Jobs
  BY <1>0 DEF AttemptOK, NamesItsJob, KnowsHub
<1>1. CASE a.job \in Jobs
  <2> DEFINE j == a.job
             old == rows[j]
             new == rows2[j]
  <2>1. a.token \in 1 .. n /\ a.token \in 1 .. n2
    BY <1>1 DEF KnowsHub
  <2>2. RowMoves(old, new, n, s)
    BY <1>1
  <2>3. old.by = s => old.token = a.token
    BY <1>1 DEF KnowsHub
  <2>4. new.by = s => new.token = a.token
    BY <2>2, <2>3 DEF RowMoves
  <2>5. a.at = "sent" /\ a.took = TRUE => new.status = a.verdict /\ new.token = a.token
    <3>1. a.at = "sent" => a.verdict \in Over
      BY DEF AttemptOK, VerdictStands
    <3>2. a.at = "sent" /\ a.took = TRUE => old.status = a.verdict /\ old.token = a.token
      BY <1>1 DEF KnowsHub
    <3> QED
      BY <2>2, <3>1, <3>2 DEF RowMoves
  <2>6. a.at = "failSent" /\ a.took = TRUE => new.status = "failed" /\ new.token = a.token
    <3>1. a.at = "failSent" /\ a.took = TRUE => old.status = "failed" /\ old.token = a.token
      BY <1>1 DEF KnowsHub
    <3> QED
      BY <2>2, <3>1 DEF RowMoves, Over
  <2>7. a.at \in {"yielded", "asked"} /\ new.status = "running" => new.token # a.token
    <3>1. a.at \in {"yielded", "asked"} /\ old.status = "running" => old.token # a.token
      BY <1>1 DEF KnowsHub
    <3>2. ~(a.token > n)
      BY <2>1
    <3> QED
      BY <2>2, <3>1, <3>2 DEF RowMoves
  <2> QED
    BY <2>1, <2>4, <2>5, <2>6, <2>7 DEF KnowsHub
<1> QED
  BY <1>0, <1>1

\* A claim that is over stays as it was delivered.
LEMMA DeliveredStays ==
  ASSUME NEW p, NEW old, NEW new, Delivered(p, old), new = old \/ old.status \notin Over
  PROVE  Delivered(p, new)
  BY DEF Delivered

LEMMA KnowsMoved ==
  ASSUME NEW s, NEW a \in Attempt, NEW c \in Attempt, NEW rows, NEW n, KnowsHub(s, a, rows, n),
         c.job = a.job, c.token = a.token,
         c.at \notin {"sent", "failSent", "yielded", "asked"} \/ (c.at = a.at /\ c.took = a.took /\ c.verdict = a.verdict)
  PROVE  KnowsHub(s, c, rows, n)
<1>1. /\ a.job \in Jobs => a.token \in 1 .. n
      /\ a.job \in Jobs /\ rows[a.job].by = s => rows[a.job].token = a.token
  BY DEF KnowsHub
<1>2. CASE c.at \notin {"sent", "failSent", "yielded", "asked"}
  BY <1>1, <1>2 DEF KnowsHub
<1>3. CASE c.at = a.at /\ c.took = a.took /\ c.verdict = a.verdict
  BY <1>3 DEF KnowsHub
<1> QED
  BY <1>2, <1>3

LEMMA HubStays ==
  ASSUME ExecInv, job' = job, owner' = owner, tokens' = tokens
  PROVE  HubTyped'
  BY DEF ExecInv, HubTyped

LEMMA ProgressStays ==
  ASSUME ExecInv, progress' = progress, job' \in [Jobs -> JobRow], \A j \in Jobs : job'[j] = job[j] \/ job[j].status \notin Over
  PROVE  ProgressOK'
<1>1. progress \in [Jobs -> ProgressRow] /\ \A j \in Jobs : Delivered(progress[j], job[j])
  BY DEF ExecInv, ProgressOK
<1>2. \A j \in Jobs : Delivered(progress[j], job'[j])
  BY <1>1, DeliveredStays
<1> QED
  BY <1>1, <1>2 DEF ProgressOK

LEMMA WritesIs ==
  ASSUME ExecInv, NEW s \in Slots, Mine(s) \in Jobs, NEW stage \in Stages, NEW verdict \in {"none", "done", "failed"},
         NEW delivery \in Delivery, Writes(s, stage, verdict, delivery),
         job' \in [Jobs -> JobRow], \A j \in Jobs : job'[j] = job[j] \/ job[j].status \notin Over,
         delivery \in {"reported", "confirmed"} =>
           verdict \in Over /\ job'[Mine(s)].status = verdict /\ job'[Mine(s)].token = slot[s].token
  PROVE  ProgressOK'
<1>1. progress \in [Jobs -> ProgressRow] /\ \A j \in Jobs : Delivered(progress[j], job[j])
  BY DEF ExecInv, ProgressOK
<1>2. slot[s] \in Attempt
  BY DEF ExecInv, SlotsOK
<1> DEFINE p == [token |-> slot[s].token, stage |-> stage, verdict |-> verdict, delivery |-> delivery]
<1>3. p \in ProgressRow
  BY <1>2 DEF ProgressRow, Attempt
<1>4. Delivered(p, job'[Mine(s)])
  BY DEF Delivered
<1>5. progress' = [progress EXCEPT ![Mine(s)] = p]
  BY DEF Writes
<1> HIDE DEF p
<1>6. progress' \in [Jobs -> ProgressRow]
  BY <1>1, <1>3, <1>5
<1>7. ASSUME NEW j \in Jobs PROVE Delivered(progress'[j], job'[j])
  <2>1. CASE j = Mine(s)
    BY <2>1, <1>1, <1>4, <1>5
  <2>2. CASE j # Mine(s)
    <3>1. progress'[j] = progress[j]
      BY <2>2, <1>1, <1>5
    <3> QED
      BY <3>1, <1>1, DeliveredStays
  <2> QED
    BY <2>1, <2>2
<1> QED
  BY <1>6, <1>7 DEF ProgressOK

\* A step of one slot that asks nothing of the hub.
LEMMA LocalIs ==
  ASSUME ExecInv, NEW s \in Slots, NEW c \in Attempt, AttemptOK(c), slot' = [slot EXCEPT ![s] = c],
         job' = job, owner' = owner, tokens' = tokens, DiskTyped', ProgressOK',
         KnowsHub(s, c, job, tokens), SeesOwners(s, c, owner)
  PROVE  ExecInv'
<1>1. slot \in [Slots -> Attempt] /\ \A x \in Slots : AttemptOK(slot[x])
  BY DEF ExecInv, SlotsOK
<1>2. \A x \in Slots : slot'[x] = IF x = s THEN c ELSE slot[x]
  BY <1>1
<1>3. SlotsOK'
  BY <1>1, <1>2 DEF SlotsOK
<1>4. \A x \in Slots : SeesOwners(x, slot'[x], owner)
  BY <1>2 DEF ExecInv, SlotsSee
<1>5. \A x \in Slots : KnowsHub(x, slot'[x], job, tokens)
  BY <1>2 DEF ExecInv, SlotsKnow
<1>6. SlotsSee' /\ SlotsKnow'
  BY <1>4, <1>5 DEF SlotsSee, SlotsKnow
<1>7. HubTyped'
  BY HubStays
<1> QED
  BY <1>3, <1>6, <1>7 DEF ExecInv

\* What every slot has.
LEMMA OfSlot ==
  ASSUME ExecInv, NEW s \in Slots
  PROVE  /\ slot[s] \in Attempt /\ AttemptOK(slot[s]) /\ SeesOwners(s, slot[s], owner)
         /\ KnowsHub(s, slot[s], job, tokens) /\ (slot[s].at \notin {"idle", "gone"} => Mine(s) \in Jobs)
         /\ slot \in [Slots -> Attempt] /\ DiskTyped /\ job \in [Jobs -> JobRow]
  BY DEF ExecInv, SlotsOK, SlotsSee, SlotsKnow, AttemptOK, NamesItsJob, Mine, HubTyped

Closing == {"reporting", "sent", "failSent", "leaving", "gone"}
Between == {"granted", "checking", "preempting", "yielding", "lease", "listing", "asking", "failing", "leaving", "gone"}

\* A slot that only goes on to another place.
LEMMA GoesIs ==
  ASSUME ExecInv, NEW s \in Slots, NEW at \in Between, Goes(s, at), slot[s].at \notin {"idle", "gone"},
         slot[s].at \in Closing => at \in {"leaving", "gone"}, at \in Early => slot[s].at \in Early,
         job' = job, owner' = owner, tokens' = tokens, DiskTyped', ProgressOK'
  PROVE  ExecInv'
<1>1. /\ slot[s] \in Attempt /\ AttemptOK(slot[s]) /\ SeesOwners(s, slot[s], owner)
      /\ KnowsHub(s, slot[s], job, tokens) /\ Mine(s) \in Jobs /\ slot \in [Slots -> Attempt]
  BY OfSlot
<1> DEFINE a == slot[s]
           c == [a EXCEPT !.at = at]
<1>2. c \in Attempt
  <2>1. at \in Phases
    BY DEF Between, Phases
  <2> QED
    BY <1>1, <2>1, MovesOn
<1>3. c.at = at /\ c.job = a.job /\ c.token = a.token /\ c.verdict = a.verdict /\ c.said = a.said /\ c.took = a.took /\ c.told = a.told
      /\ c.mine = a.mine /\ c.others = a.others
  BY <1>1 DEF Attempt
<1>4. slot' = [slot EXCEPT ![s] = c]
  BY DEF Goes
<1> HIDE DEF c
<1>5. NamesItsJob(c)
  BY <1>1, <1>3 DEF NamesItsJob, Mine
<1>6. VerdictStands(c)
  <2>1. VerdictStands(a)
    BY <1>1 DEF AttemptOK
  <2>2. c.verdict # "none" => at \in {"leaving", "gone"}
    BY <2>1, <1>3 DEF VerdictStands, Closing
  <2>3. at \notin {"reporting", "sent"}
    BY DEF Between
  <2> QED
    BY <1>3, <2>1, <2>2, <2>3 DEF VerdictStands
<1>7. RunIsSeen(c)
  BY <1>1, <1>3 DEF AttemptOK, RunIsSeen, Between
<1>8. SaysOnce(c)
  BY <1>1, <1>3 DEF AttemptOK, SaysOnce, Between, Closing
<1>9. AttemptOK(c)
  BY <1>5, <1>6, <1>7, <1>8 DEF AttemptOK
<1>10. SeesOwners(s, c, owner)
  BY <1>3 DEF SeesOwners, Between
<1>11. c.at \notin {"sent", "failSent", "yielded", "asked"}
  BY <1>3 DEF Between
<1>12. KnowsHub(s, c, job, tokens)
  BY <1>1, <1>2, <1>3, <1>11, KnowsMoved
<1> QED
  BY <1>2, <1>4, <1>9, <1>10, <1>12, LocalIs

LEMMA ClearIs ==
  ASSUME ExecInv, NEW s \in Slots, Clear(s)
  PROVE  /\ \E at \in {"leaving", "gone"} : Goes(s, at)
         /\ claimFile' \in [Jobs -> 0 .. TokenBound]
<1>1. claimFile \in [Jobs -> 0 .. TokenBound] /\ 0 \in 0 .. TokenBound
  BY ExecutionAssumption DEF ExecInv, DiskTyped
<1> QED
  BY <1>1 DEF Clear
\* The progress of a task is written and nothing asked of the hub.
LEMMA NotedIs ==
  ASSUME ExecInv, NEW s \in Slots, slot[s].at \notin {"idle", "gone"}, NEW stage \in Stages,
         NEW verdict \in {"none", "done", "failed"}, NEW delivery \in {"none", "pending", "rejected", "unknown"},
         Writes(s, stage, verdict, delivery), job' = job
  PROVE  ProgressOK'
<1>1. Mine(s) \in Jobs /\ job \in [Jobs -> JobRow]
  BY OfSlot
<1>2. delivery \in Delivery /\ delivery \notin {"reported", "confirmed"}
  BY DEF Delivery
<1>3. job' \in [Jobs -> JobRow] /\ \A j \in Jobs : job'[j] = job[j] \/ job[j].status \notin Over
  BY <1>1
<1>4. delivery \in {"reported", "confirmed"} =>
        verdict \in Over /\ job'[Mine(s)].status = verdict /\ job'[Mine(s)].token = slot[s].token
  BY <1>2
<1> QED
  BY <1>1, <1>2, <1>3, <1>4, WritesIs

LEMMA SilentIs ==
  ASSUME ExecInv, progress' = progress, job' = job
  PROVE  ProgressOK'
<1>1. job \in [Jobs -> JobRow]
  BY DEF ExecInv, HubTyped
<1> QED
  BY <1>1, ProgressStays

LEMMA DiskStays ==
  ASSUME ExecInv, UNCHANGED <<claimFile, bound, troubles>>
  PROVE  DiskTyped'
  BY DEF ExecInv, DiskTyped

LEMMA TroubleTyped ==
  ASSUME ExecInv, Trouble
  PROVE  troubles' \in 0 .. TroubleBound
  BY ExecutionAssumption DEF ExecInv, DiskTyped, Trouble

LEMMA BeginKeeps ==
  ASSUME ExecInv, NEW s \in Slots, Begin(s)
  PROVE  ExecInv'
<1>1. /\ slot[s].at = "granted" /\ Writes(s, "claimed", "none", "none") /\ Goes(s, "checking")
      /\ claimFile' = [claimFile EXCEPT ![Mine(s)] = slot[s].token] /\ bound' = bound \cup {Mine(s)}
      /\ job' = job /\ owner' = owner /\ tokens' = tokens /\ troubles' = troubles
  BY DEF Begin, hub
<1>2. Mine(s) \in Jobs /\ slot[s] \in Attempt /\ DiskTyped
  BY <1>1, OfSlot
<1>3. slot[s].token \in 0 .. TokenBound
  BY <1>2 DEF Attempt
<1>4. DiskTyped'
  BY <1>1, <1>2, <1>3 DEF DiskTyped
<1>5. ProgressOK'
  BY <1>1, NotedIs DEF Stages
<1>6. slot[s].at \notin {"idle", "gone"} /\ slot[s].at \notin Closing /\ "checking" \in Between /\ slot[s].at \in Early
  BY <1>1 DEF Closing, Between, Early
<1> QED
  BY <1>1, <1>4, <1>5, <1>6, GoesIs

\* One file less to ask for: nothing else of the attempt has changed.
LEMMA LeftIs ==
  ASSUME NEW a \in Attempt, AttemptOK(a), NEW c \in Attempt, a.at \in {"checking", "preempting"}, c.at = "checking",
         c.job = a.job, c.verdict = a.verdict, c.said = a.said, c.took = a.took, c.mine = a.mine
  PROVE  AttemptOK(c)
<1>1. NamesItsJob(c)
  BY DEF NamesItsJob, AttemptOK
<1>2. VerdictStands(c)
  BY DEF VerdictStands, AttemptOK
<1>3. RunIsSeen(c)
  BY DEF RunIsSeen, AttemptOK, Early
<1>4. SaysOnce(c)
  BY DEF SaysOnce, AttemptOK
<1> QED
  BY <1>1, <1>2, <1>3, <1>4 DEF AttemptOK

LEMMA CheckFileKeeps ==
  ASSUME ExecInv, NEW s \in Slots, CheckFile(s)
  PROVE  ExecInv'
<1>1. /\ slot[s].at = "checking" /\ job' = job /\ owner' = owner /\ tokens' = tokens
      /\ progress' = progress /\ UNCHANGED <<claimFile, bound, troubles>>
  BY DEF CheckFile, hub, disk
<1>2. DiskTyped' /\ ProgressOK'
  BY <1>1, DiskStays, SilentIs
<1>3. /\ slot[s] \in Attempt /\ AttemptOK(slot[s]) /\ KnowsHub(s, slot[s], job, tokens)
      /\ slot \in [Slots -> Attempt]
  BY OfSlot
<1>4. slot[s].at \notin {"idle", "gone"} /\ slot[s].at \notin Closing /\ {"preempting", "yielding"} \subseteq Between /\ slot[s].at \in Early
  BY <1>1 DEF Closing, Between, Early
<1>5. ASSUME NEW at \in {"preempting", "yielding"}, Goes(s, at)
      PROVE  ExecInv'
  BY <1>1, <1>2, <1>4, <1>5, GoesIs
<1>6. ASSUME NEW f \in slot[s].left, slot' = [slot EXCEPT ![s].left = @ \ {f}]
      PROVE  ExecInv'
  <2> DEFINE a == slot[s]
             c == [a EXCEPT !.at = "checking", !.left = a.left \ {f}]
  <2>1. c \in Attempt
    BY <1>3 DEF Attempt, Phases
  <2>2. c = [a EXCEPT !.left = a.left \ {f}]
    BY <1>1, <1>3 DEF Attempt
  <2>3. /\ c.at = "checking" /\ c.job = a.job /\ c.token = a.token /\ c.verdict = a.verdict /\ c.said = a.said /\ c.took = a.took
        /\ c.mine = a.mine
    BY <1>3 DEF Attempt
  <2>4. slot' = [slot EXCEPT ![s] = c]
    BY <1>3, <1>6, <2>2
  <2> HIDE DEF c
  <2>41. AttemptOK(c)
    BY <1>1, <1>3, <2>1, <2>3, LeftIs
  <2>5. c.at \notin {"sent", "failSent", "yielded", "asked"} /\ SeesOwners(s, c, owner)
    BY <2>3 DEF SeesOwners
  <2>6. KnowsHub(s, c, job, tokens)
    BY <1>3, <2>1, <2>3, <2>5, KnowsMoved
  <2> QED
    BY <1>1, <1>2, <2>1, <2>4, <2>41, <2>5, <2>6, LocalIs
<1> QED
  BY <1>5, <1>6 DEF CheckFile

LEMMA AllCheckedKeeps ==
  ASSUME ExecInv, NEW s \in Slots, AllChecked(s)
  PROVE  ExecInv'
<1>1. /\ slot[s].at = "checking" /\ Goes(s, "lease") /\ job' = job /\ owner' = owner /\ tokens' = tokens
      /\ progress' = progress /\ UNCHANGED <<claimFile, bound, troubles>>
  BY DEF AllChecked, hub, disk
<1>2. DiskTyped' /\ ProgressOK'
  BY <1>1, DiskStays, SilentIs
<1>3. slot[s].at \notin {"idle", "gone"} /\ slot[s].at \notin Closing /\ "lease" \in Between /\ slot[s].at \in Early
  BY <1>1 DEF Closing, Between, Early
<1> QED
  BY <1>1, <1>2, <1>3, GoesIs

LEMMA ThrowKeeps ==
  ASSUME ExecInv, NEW s \in Slots, Throw(s)
  PROVE  ExecInv'
<1>1. /\ slot[s].at = "working" /\ Goes(s, "failing") /\ job' = job /\ owner' = owner /\ tokens' = tokens
      /\ progress' = progress /\ UNCHANGED <<claimFile, bound, troubles>>
  BY DEF Throw, hub, disk
<1>2. DiskTyped' /\ ProgressOK'
  BY <1>1, DiskStays, SilentIs
<1>3. slot[s].at \notin {"idle", "gone"} /\ slot[s].at \notin Closing /\ "failing" \in Between /\ "failing" \notin Early
  BY <1>1 DEF Closing, Between, Early
<1> QED
  BY <1>1, <1>2, <1>3, GoesIs

\* The end of an attempt whose claim is settled: the claim file goes and the outcome is noted.
LEMMA GaveWayKeeps ==
  ASSUME ExecInv, NEW s \in Slots, Yielded(s) \/ Asked(s)
  PROVE  ExecInv'
<1>1. /\ slot[s].at \in {"yielded", "asked"} /\ Clear(s) /\ Writes(s, "blocked", "none", "none")
      /\ job' = job /\ owner' = owner /\ tokens' = tokens /\ bound' = bound /\ troubles' = troubles
  BY DEF Yielded, Asked, hub
<1>2. PICK at \in {"leaving", "gone"} : Goes(s, at)
  BY <1>1, ClearIs
<1>3. DiskTyped
  BY OfSlot
<1>4. DiskTyped'
  BY <1>1, <1>3, ClearIs DEF DiskTyped
<1>5. slot[s].at \notin {"idle", "gone"} /\ at \in Between /\ at \notin Early
  BY <1>1 DEF Between, Early
<1>6. ProgressOK'
  BY <1>1, <1>5, NotedIs DEF Stages
<1> QED
  BY <1>1, <1>2, <1>4, <1>5, <1>6, GoesIs

LEMMA CheckLeaseKeeps ==
  ASSUME ExecInv, NEW s \in Slots, CheckLease(s)
  PROVE  ExecInv'
<1>1. /\ slot[s].at = "lease" /\ job' = job /\ owner' = owner /\ tokens' = tokens
      /\ UNCHANGED <<claimFile, bound, troubles>>
  BY DEF CheckLease, hub
<1>2. PICK at \in {"listing", "leaving"}, stage \in {"running", "failed"} : Goes(s, at) /\ Writes(s, stage, "none", "none")
  BY DEF CheckLease
<1>3. slot[s].at \notin {"idle", "gone"} /\ slot[s].at \notin Closing /\ at \in Between /\ stage \in Stages /\ slot[s].at \in Early
  BY <1>1 DEF Closing, Between, Stages, Early
<1>4. DiskTyped' /\ ProgressOK'
  BY <1>1, <1>2, <1>3, DiskStays, NotedIs
<1> QED
  BY <1>1, <1>2, <1>3, <1>4, GoesIs

LEMMA ListOwnersKeeps ==
  ASSUME ExecInv, NEW s \in Slots, ListOwners(s)
  PROVE  ExecInv'
<1> DEFINE a == slot[s]
           seen == {f \in Files : OfOther(s, f)}
           c == [a EXCEPT !.at = "working", !.lanes = seen, !.others = @ \cup seen]
<1>1. /\ a.at = "listing" /\ job' = job /\ owner' = owner /\ tokens' = tokens
      /\ progress' = progress /\ UNCHANGED <<claimFile, bound, troubles>>
  BY DEF ListOwners, hub, disk
<1>2. DiskTyped' /\ ProgressOK'
  BY <1>1, DiskStays, SilentIs
<1>3. a \in Attempt /\ AttemptOK(a) /\ KnowsHub(s, a, job, tokens) /\ slot \in [Slots -> Attempt]
  BY OfSlot
<1>4. slot' = [slot EXCEPT ![s] = c]
  BY <1>3 DEF ListOwners
<1>5. seen \in SUBSET Files /\ \A f \in Files : owner[f].slot \notin {NoSlot, s} => f \in seen
  BY DEF OfOther
<1> HIDE DEF seen
<1>6. c \in Attempt
  BY <1>3, <1>5 DEF Attempt, Phases
<1>7. /\ c.at = "working" /\ c.job = a.job /\ c.token = a.token /\ c.verdict = a.verdict /\ c.said = a.said /\ c.took = a.took /\ c.told = a.told
      /\ c.mine = a.mine /\ c.changed = a.changed /\ c.lanes = seen /\ c.others = a.others \cup seen
  BY <1>3 DEF Attempt
<1> HIDE DEF c
<1>8. NamesItsJob(c)
  BY <1>1, <1>3, <1>7 DEF NamesItsJob, AttemptOK
<1>9. VerdictStands(c)
  BY <1>1, <1>3, <1>7 DEF VerdictStands, AttemptOK
<1>10. RunIsSeen(c)
  BY <1>1, <1>3, <1>7 DEF RunIsSeen, AttemptOK, Early
<1>11. SaysOnce(c)
  BY <1>1, <1>3, <1>7 DEF SaysOnce, AttemptOK
<1>12. AttemptOK(c)
  BY <1>8, <1>9, <1>10, <1>11 DEF AttemptOK
<1>13. SeesOwners(s, c, owner)
  BY <1>5, <1>7 DEF SeesOwners
<1>14. c.at \notin {"sent", "failSent", "yielded", "asked"}
  BY <1>7
<1>15. KnowsHub(s, c, job, tokens)
  BY <1>3, <1>6, <1>7, <1>14, KnowsMoved
<1> QED
  BY <1>1, <1>2, <1>4, <1>6, <1>12, <1>13, <1>15, LocalIs
\* An agent writes: whoever runs meanwhile sees the change.
LEMMA EditKeeps ==
  ASSUME ExecInv, NEW s \in Slots, NEW f \in Files, Edit(s, f)
  PROVE  ExecInv'
<1>1. /\ slot[s].at = "working" /\ job' = job /\ owner' = owner /\ tokens' = tokens
      /\ progress' = progress /\ UNCHANGED <<claimFile, bound, troubles>>
  BY DEF Edit, hub, disk
<1>2. DiskTyped' /\ ProgressOK'
  BY <1>1, DiskStays, SilentIs
<1>3. slot' = [x \in Slots |->
       IF x = s THEN [slot[x] EXCEPT !.mine = slot[x].mine \cup {f}, !.changed = slot[x].changed \cup {f}]
       ELSE IF slot[x].at \in {"listing", "working"} THEN [slot[x] EXCEPT !.changed = slot[x].changed \cup {f}]
       ELSE slot[x]]
  BY DEF Edit
<1>4. ASSUME NEW x \in Slots
      PROVE  slot'[x] \in Attempt /\ AttemptOK(slot'[x]) /\ SeesOwners(x, slot'[x], owner') /\ KnowsHub(x, slot'[x], job', tokens')
  <2> DEFINE a == slot[x]
  <2>1. a \in Attempt /\ AttemptOK(a) /\ SeesOwners(x, a, owner) /\ KnowsHub(x, a, job, tokens)
    BY OfSlot
  <2>2. CASE x = s
    <3> DEFINE c == [a EXCEPT !.mine = a.mine \cup {f}, !.changed = a.changed \cup {f}]
    <3>1. slot'[x] = c /\ a.at = "working"
      BY <1>1, <1>3, <2>2
    <3>2. c \in Attempt
      BY <2>1 DEF Attempt
    <3>3. /\ c.at = a.at /\ c.job = a.job /\ c.token = a.token /\ c.verdict = a.verdict /\ c.said = a.said /\ c.took = a.took /\ c.told = a.told
          /\ c.mine = a.mine \cup {f} /\ c.changed = a.changed \cup {f} /\ c.lanes = a.lanes /\ c.others = a.others
          /\ c.took = a.took
      BY <2>1 DEF Attempt
    <3> HIDE DEF c, a
    <3>4. NamesItsJob(c)
      BY <2>1, <3>3 DEF NamesItsJob, AttemptOK
    <3>5. VerdictStands(c)
      BY <2>1, <3>1, <3>3 DEF VerdictStands, AttemptOK
    <3>6. RunIsSeen(c)
      BY <2>1, <3>1, <3>3 DEF RunIsSeen, AttemptOK, Early
    <3>7. SaysOnce(c)
      BY <2>1, <3>3 DEF SaysOnce, AttemptOK
    <3>8. SeesOwners(x, c, owner)
      BY <2>1, <3>3 DEF SeesOwners
    <3>9. KnowsHub(x, c, job, tokens)
      BY <2>1, <3>2, <3>3, KnowsMoved
    <3> QED
      BY <1>1, <3>1, <3>2, <3>4, <3>5, <3>6, <3>7, <3>8, <3>9 DEF AttemptOK
  <2>3. CASE x # s /\ a.at \in {"listing", "working"}
    <3> DEFINE c == [a EXCEPT !.changed = a.changed \cup {f}]
    <3>1. slot'[x] = c
      BY <1>3, <2>3
    <3>2. c \in Attempt
      BY <2>1 DEF Attempt
    <3>3. /\ c.at = a.at /\ c.job = a.job /\ c.token = a.token /\ c.verdict = a.verdict /\ c.said = a.said /\ c.took = a.took /\ c.told = a.told
          /\ c.mine = a.mine /\ c.changed = a.changed \cup {f} /\ c.lanes = a.lanes /\ c.others = a.others
          /\ c.took = a.took
      BY <2>1 DEF Attempt
    <3> HIDE DEF c, a
    <3>4. NamesItsJob(c)
      BY <2>1, <3>3 DEF NamesItsJob, AttemptOK
    <3>5. VerdictStands(c)
      BY <2>1, <3>3 DEF VerdictStands, AttemptOK
    <3>6. RunIsSeen(c)
      BY <2>1, <3>3 DEF RunIsSeen, AttemptOK, Early
    <3>7. SaysOnce(c)
      BY <2>1, <3>3 DEF SaysOnce, AttemptOK
    <3>8. SeesOwners(x, c, owner)
      BY <2>1, <3>3 DEF SeesOwners
    <3>9. KnowsHub(x, c, job, tokens)
      BY <2>1, <3>2, <3>3, KnowsMoved
    <3> QED
      BY <1>1, <3>1, <3>2, <3>4, <3>5, <3>6, <3>7, <3>8, <3>9 DEF AttemptOK
  <2>4. CASE x # s /\ a.at \notin {"listing", "working"}
    BY <1>1, <1>3, <2>1, <2>4
  <2> QED
    BY <2>2, <2>3, <2>4
<1>5. SlotsOK'
  BY <1>3, <1>4 DEF SlotsOK
<1>6. SlotsSee' /\ SlotsKnow'
  BY <1>4 DEF SlotsSee, SlotsKnow
<1>7. HubTyped'
  BY <1>1, HubStays
<1> QED
  BY <1>2, <1>5, <1>6, <1>7 DEF ExecInv

LEMMA FinishKeeps ==
  ASSUME ExecInv, NEW s \in Slots, Finish(s)
  PROVE  ExecInv'
<1> DEFINE a == slot[s]
<1>1. /\ a.at = "working" /\ job' = job /\ owner' = owner /\ tokens' = tokens
      /\ progress' = progress /\ UNCHANGED <<claimFile, bound, troubles>>
  BY DEF Finish, hub, disk
<1>2. DiskTyped' /\ ProgressOK'
  BY <1>1, DiskStays, SilentIs
<1>3. a \in Attempt /\ AttemptOK(a) /\ SeesOwners(s, a, owner) /\ KnowsHub(s, a, job, tokens) /\ slot \in [Slots -> Attempt]
  BY OfSlot
<1>4. PICK told \in SUBSET a.mine, outcome \in {"clean", "question", "error"} :
        slot' = [slot EXCEPT ![s].at = "attributing", ![s].told = told, ![s].outcome = outcome]
  BY DEF Finish
<1> DEFINE c == [a EXCEPT !.at = "attributing", !.told = told, !.outcome = outcome]
<1>5. slot' = [slot EXCEPT ![s] = c]
  BY <1>3, <1>4
<1>6. c \in Attempt
  BY <1>3 DEF Attempt, Phases
<1>7. /\ c.at = "attributing" /\ c.job = a.job /\ c.token = a.token /\ c.verdict = a.verdict /\ c.said = a.said /\ c.took = a.took
      /\ c.told = told /\ c.mine = a.mine /\ c.changed = a.changed /\ c.lanes = a.lanes /\ c.others = a.others
  BY <1>3 DEF Attempt
<1> HIDE DEF c, a
<1>8. NamesItsJob(c)
  BY <1>1, <1>3, <1>7 DEF NamesItsJob, AttemptOK
<1>9. VerdictStands(c)
  BY <1>1, <1>3, <1>7 DEF VerdictStands, AttemptOK
<1>10. RunIsSeen(c)
  BY <1>1, <1>3, <1>7 DEF RunIsSeen, AttemptOK, Early
<1>11. SaysOnce(c)
  BY <1>1, <1>3, <1>7 DEF SaysOnce, AttemptOK
<1>12. AttemptOK(c)
  BY <1>8, <1>9, <1>10, <1>11 DEF AttemptOK
<1>13. SeesOwners(s, c, owner)
  BY <1>1, <1>3, <1>7 DEF SeesOwners
<1>14. c.at \notin {"sent", "failSent", "yielded", "asked"}
  BY <1>7
<1>15. KnowsHub(s, c, job, tokens)
  BY <1>3, <1>6, <1>7, <1>14, KnowsMoved
<1> QED
  BY <1>1, <1>2, <1>5, <1>6, <1>12, <1>13, <1>15, LocalIs

\* Attribution: `done' says that nothing outside the task's files was its own.
LEMMA AttributeKeeps ==
  ASSUME ExecInv, NEW s \in Slots, Attribute(s)
  PROVE  ExecInv'
<1> DEFINE a == slot[s]
<1>1. /\ a.at = "attributing" /\ job' = job /\ owner' = owner /\ tokens' = tokens
      /\ claimFile' = claimFile /\ troubles' = troubles
  BY DEF Attribute, hub
<1>2. /\ a \in Attempt /\ AttemptOK(a) /\ SeesOwners(s, a, owner) /\ KnowsHub(s, a, job, tokens) /\ slot \in [Slots -> Attempt]
      /\ Mine(s) \in Jobs /\ DiskTyped
  BY <1>1, OfSlot
<1>3. CASE Goes(s, "asking") /\ progress' = progress /\ bound' = bound
  <2>1. DiskTyped' /\ ProgressOK'
    BY <1>1, <1>3, DiskStays, SilentIs
  <2>2. a.at \notin {"idle", "gone"} /\ a.at \notin Closing /\ "asking" \in Between /\ "asking" \notin Early
    BY <1>1 DEF Closing, Between, Early
  <2> QED
    BY <1>1, <1>3, <2>1, <2>2, GoesIs
<1>4. ASSUME NEW verdict \in Over, verdict = "done" => Violations(s) = {},
             slot' = [slot EXCEPT ![s].at = "reporting", ![s].verdict = verdict, ![s].changed = {}, ![s].lanes = {}],
             bound' = bound \cup {Mine(s)}, Writes(s, "reporting", verdict, "pending")
      PROVE  ExecInv'
  <2>1. DiskTyped'
    BY <1>1, <1>2, <1>4 DEF DiskTyped
  <2>2. verdict \in {"none", "done", "failed"}
    BY DEF Over
  <2>3. ProgressOK'
    BY <1>1, <1>4, <2>2, NotedIs DEF Stages
  <2> DEFINE c == [a EXCEPT !.at = "reporting", !.verdict = verdict, !.changed = {}, !.lanes = {}]
  <2>4. slot' = [slot EXCEPT ![s] = c]
    BY <1>2, <1>4
  <2>5. c \in Attempt
    BY <1>2, <2>2 DEF Attempt, Phases
  <2>6. /\ c.at = "reporting" /\ c.job = a.job /\ c.token = a.token /\ c.verdict = verdict /\ c.said = a.said /\ c.took = a.took
        /\ c.told = a.told /\ c.mine = a.mine /\ c.others = a.others
    BY <1>2 DEF Attempt
  <2>7. a.job \in Jobs
    BY <1>2 DEF Mine
  <2>8. verdict = "done" => a.told \subseteq Owns(a.job) /\ a.mine \ Owns(a.job) \subseteq a.others
    <3> SUFFICES ASSUME verdict = "done"
                 PROVE  a.told \subseteq Owns(a.job) /\ a.mine \ Owns(a.job) \subseteq a.others
      OBVIOUS
    <3>1. a.mine \subseteq a.changed /\ a.lanes \subseteq a.others /\ a.told \subseteq a.mine
      BY <1>1, <1>2 DEF AttemptOK, RunIsSeen
    <3>2. \A f \in a.changed : f \in a.told \/ (f \notin a.lanes /\ ~OfOther(s, f)) => f \in Owns(a.job)
      BY <1>4 DEF Violations, Attributed, Mine
    <3>3. \A f \in Files : OfOther(s, f) => f \in a.others
      BY <1>1, <1>2 DEF SeesOwners, OfOther
    <3>4. a.mine \subseteq Files
      BY <1>2 DEF Attempt
    <3> QED
      BY <3>1, <3>2, <3>3, <3>4
  <2> HIDE DEF c, a
  <2>9. NamesItsJob(c)
    BY <2>6, <2>7 DEF NamesItsJob
  <2>10. VerdictStands(c)
    BY <2>6, <2>7, <2>8 DEF VerdictStands
  <2>11. RunIsSeen(c)
    BY <2>6 DEF RunIsSeen, Early
  <2>12. SaysOnce(c)
    BY <1>1, <1>2, <2>6 DEF SaysOnce, AttemptOK
  <2>13. AttemptOK(c)
    BY <2>9, <2>10, <2>11, <2>12 DEF AttemptOK
  <2>14. SeesOwners(s, c, owner)
    BY <2>6 DEF SeesOwners
  <2>15. c.at \notin {"sent", "failSent", "yielded", "asked"}
    BY <2>6
  <2>16. KnowsHub(s, c, job, tokens)
    BY <1>2, <2>5, <2>6, <2>15, KnowsMoved
  <2> QED
    BY <1>1, <2>1, <2>3, <2>4, <2>5, <2>13, <2>14, <2>16, LocalIs
<1>5. CASE slot[s].outcome # "question"
  <2>1. PICK passed \in BOOLEAN :
          LET verdict == IF slot[s].outcome = "clean" /\ Violations(s) = {} /\ passed THEN "done" ELSE "failed" IN
          /\ slot' = [slot EXCEPT ![s].at = "reporting", ![s].verdict = verdict, ![s].changed = {}, ![s].lanes = {}]
          /\ bound' = bound \cup {Mine(s)}
          /\ Writes(s, "reporting", verdict, "pending")
    BY <1>5 DEF Attribute
  <2>2. PICK verdict : verdict = IF slot[s].outcome = "clean" /\ Violations(s) = {} /\ passed THEN "done" ELSE "failed"
    OBVIOUS
  <2>3. verdict \in Over /\ (verdict = "done" => Violations(s) = {})
    BY <2>2 DEF Over
  <2>4. /\ slot' = [slot EXCEPT ![s].at = "reporting", ![s].verdict = verdict, ![s].changed = {}, ![s].lanes = {}]
        /\ bound' = bound \cup {Mine(s)}
        /\ Writes(s, "reporting", verdict, "pending")
    BY <2>1, <2>2
  <2> QED
    BY <1>4, <2>3, <2>4
<1> QED
  BY <1>3, <1>5 DEF Attribute

LEMMA LeaveRunningKeeps ==
  ASSUME ExecInv, NEW s \in Slots, LeaveRunning(s)
  PROVE  ExecInv'
<1>1. /\ slot[s].at \in {"attributing", "failing"} /\ Goes(s, "gone") /\ job' = job /\ owner' = owner /\ tokens' = tokens
      /\ progress' = progress /\ claimFile' = claimFile /\ troubles' = troubles /\ bound' = bound \ {Mine(s)}
  BY DEF LeaveRunning, hub
<1>2. DiskTyped
  BY OfSlot
<1>3. DiskTyped' /\ ProgressOK'
  BY <1>1, <1>2, SilentIs DEF DiskTyped
<1>4. slot[s].at \notin {"idle", "gone"} /\ slot[s].at \notin Closing /\ "gone" \in Between /\ "gone" \notin Early
  BY <1>1 DEF Closing, Between, Early
<1> QED
  BY <1>1, <1>3, <1>4, GoesIs

\* A fresh record after an attempt, or instead of one.
LEMMA FreshIs ==
  ASSUME ExecInv, NEW s \in Slots, NEW at \in {"idle", "gone"}, NEW stopped \in BOOLEAN,
         slot' = [slot EXCEPT ![s] = [NoAttempt EXCEPT !.at = at, !.stopped = stopped]],
         job' = job, owner' = owner, tokens' = tokens, DiskTyped', ProgressOK'
  PROVE  ExecInv'
<1> USE ExecutionAssumption
<1> DEFINE c == [NoAttempt EXCEPT !.at = at, !.stopped = stopped]
<1>0. NoAttempt \in Attempt
  BY DEF NoAttempt, Attempt, Phases
<1>1. c \in Attempt
  BY <1>0 DEF Attempt, Phases
<1>2. c.at = at /\ c.job = NoJob /\ c.verdict = "none" /\ c.said = {} /\ c.took = FALSE
  BY DEF NoAttempt
<1> HIDE DEF c
<1>3. AttemptOK(c)
  BY <1>2 DEF AttemptOK, NamesItsJob, VerdictStands, RunIsSeen, SaysOnce, Early
<1>4. KnowsHub(s, c, job, tokens) /\ SeesOwners(s, c, owner)
  BY <1>2 DEF KnowsHub, SeesOwners
<1> QED
  BY <1>1, <1>3, <1>4, LocalIs DEF c

LEMMA LeaveKeeps ==
  ASSUME ExecInv, NEW s \in Slots, Leave(s)
  PROVE  ExecInv'
<1>1. /\ job' = job /\ owner' = owner /\ tokens' = tokens /\ bound' = bound \ {Mine(s)}
      /\ progress' = progress /\ claimFile' = claimFile /\ troubles' = troubles
      /\ slot' = [slot EXCEPT ![s] = [NoAttempt EXCEPT !.at = IF Stopped(s) THEN "gone" ELSE "idle", !.stopped = Stopped(s)]]
  BY DEF Leave, hub
<1>2. DiskTyped /\ slot[s] \in Attempt
  BY OfSlot
<1>3. DiskTyped' /\ ProgressOK'
  BY <1>1, <1>2, SilentIs DEF DiskTyped
<1>4. PICK at, stopped : at = (IF Stopped(s) THEN "gone" ELSE "idle") /\ stopped = Stopped(s)
  OBVIOUS
<1>5. at \in {"idle", "gone"} /\ stopped \in BOOLEAN
  BY <1>2, <1>4 DEF Stopped, Attempt
<1>6. slot' = [slot EXCEPT ![s] = [NoAttempt EXCEPT !.at = at, !.stopped = stopped]]
  BY <1>1, <1>4
<1> QED
  BY <1>1, <1>3, <1>5, <1>6, FreshIs

LEMMA AbandonClaimKeeps ==
  ASSUME ExecInv, NEW s \in Slots, AbandonClaim(s)
  PROVE  ExecInv'
<1>1. /\ job' = job /\ owner' = owner /\ tokens' = tokens
      /\ progress' = progress /\ UNCHANGED <<claimFile, bound, troubles>>
      /\ slot' = [slot EXCEPT ![s] = [NoAttempt EXCEPT !.at = "gone", !.stopped = TRUE]]
  BY DEF AbandonClaim, hub, disk
<1>2. DiskTyped' /\ ProgressOK'
  BY <1>1, DiskStays, SilentIs
<1> QED
  BY <1>1, <1>2, FreshIs
\* A report is under way, or its answer: nothing is asked of the hub here.
LEMMA LoseReportKeeps ==
  ASSUME ExecInv, NEW s \in Slots, LoseReport(s)
  PROVE  ExecInv'
<1> DEFINE a == slot[s]
           c == [a EXCEPT !.at = "sent", !.said = a.said \cup {a.verdict}]
<1>1. /\ a.at = "reporting" /\ Trouble /\ job' = job /\ owner' = owner /\ tokens' = tokens
      /\ progress' = progress /\ claimFile' = claimFile /\ bound' = bound
  BY DEF LoseReport, hub, disk
<1>2. /\ a \in Attempt /\ AttemptOK(a) /\ KnowsHub(s, a, job, tokens) /\ slot \in [Slots -> Attempt] /\ DiskTyped
  BY OfSlot
<1>3. DiskTyped' /\ ProgressOK'
  BY <1>1, <1>2, TroubleTyped, SilentIs DEF DiskTyped
<1>4. slot' = [slot EXCEPT ![s] = c]
  BY <1>2 DEF LoseReport
<1>5. a.verdict \in Over /\ a.said = {} /\ a.took = FALSE
  BY <1>1, <1>2 DEF AttemptOK, VerdictStands, SaysOnce
<1>6. c \in Attempt
  BY <1>2, <1>5 DEF Attempt, Phases, Over
<1>7. /\ c.at = "sent" /\ c.job = a.job /\ c.token = a.token /\ c.verdict = a.verdict /\ c.said = {a.verdict}
      /\ c.told = a.told /\ c.mine = a.mine /\ c.others = a.others /\ c.took = a.took
  BY <1>2, <1>5 DEF Attempt
<1> HIDE DEF c, a
<1>8. NamesItsJob(c)
  BY <1>1, <1>2, <1>7 DEF NamesItsJob, AttemptOK
<1>9. VerdictStands(c)
  BY <1>1, <1>2, <1>5, <1>7 DEF VerdictStands, AttemptOK
<1>10. RunIsSeen(c)
  BY <1>7 DEF RunIsSeen, Early
<1>11. SaysOnce(c)
  BY <1>5, <1>7 DEF SaysOnce, Over
<1>12. AttemptOK(c)
  BY <1>8, <1>9, <1>10, <1>11 DEF AttemptOK
<1>13. SeesOwners(s, c, owner)
  BY <1>7 DEF SeesOwners
<1>14. KnowsHub(s, c, job, tokens)
  BY <1>2, <1>5, <1>7 DEF KnowsHub
<1> QED
  BY <1>1, <1>3, <1>4, <1>6, <1>12, <1>13, <1>14, LocalIs

\* What a report found at the hub: the verdict, under this claim's token.
LEMMA ReportFound ==
  ASSUME ExecInv, NEW s \in Slots, slot[s].at = "sent", slot[s].took \/ Confirmed(s)
  PROVE  /\ slot[s].verdict \in Over
         /\ job[Mine(s)].status = slot[s].verdict /\ job[Mine(s)].token = slot[s].token
<1>1. /\ slot[s] \in Attempt /\ AttemptOK(slot[s]) /\ KnowsHub(s, slot[s], job, tokens) /\ slot[s].job \in Jobs
  BY OfSlot DEF Mine
<1>2. slot[s].verdict \in Over
  BY <1>1 DEF AttemptOK, VerdictStands
<1>3. CASE slot[s].took
  <2>1. slot[s].took = TRUE
    BY <1>1, <1>3 DEF Attempt
  <2> QED
    BY <1>1, <1>2, <2>1 DEF KnowsHub, Mine
<1>4. CASE Confirmed(s)
  BY <1>1, <1>2, <1>4 DEF KnowsHub, Confirmed, Mine
<1> QED
  BY <1>3, <1>4

\* The end of an attempt that reported.
LEMMA EndsIs ==
  ASSUME ExecInv, NEW s \in Slots, slot[s].at \in {"sent", "failSent"}, job' = job, owner' = owner, tokens' = tokens,
         bound' = bound, troubles' \in 0 .. TroubleBound, ProgressOK',
         Clear(s) \/ (Goes(s, "leaving") /\ claimFile' = claimFile)
  PROVE  ExecInv'
<1>1. DiskTyped
  BY OfSlot
<1>2. claimFile' \in [Jobs -> 0 .. TokenBound] /\ \E at \in {"leaving", "gone"} : Goes(s, at)
  BY <1>1, ClearIs DEF DiskTyped
<1>3. PICK at \in {"leaving", "gone"} : Goes(s, at)
  BY <1>2
<1>4. DiskTyped'
  BY <1>1, <1>2 DEF DiskTyped
<1>5. slot[s].at \notin {"idle", "gone"} /\ at \in Between /\ at \notin Early
  BY DEF Between, Early
<1> QED
  BY <1>3, <1>4, <1>5, GoesIs

\* The progress of a claim that the hub has closed with this verdict.
LEMMA ClosedIs ==
  ASSUME ExecInv, NEW s \in Slots, slot[s].at \notin {"idle", "gone"}, NEW stage \in Stages, NEW verdict \in Over,
         NEW delivery \in {"reported", "confirmed"}, Writes(s, stage, verdict, delivery), job' = job,
         job[Mine(s)].status = verdict, job[Mine(s)].token = slot[s].token
  PROVE  ProgressOK'
<1>1. Mine(s) \in Jobs /\ job \in [Jobs -> JobRow]
  BY OfSlot
<1>2. delivery \in Delivery /\ verdict \in {"none", "done", "failed"}
  BY DEF Delivery, Over
<1>3. job' \in [Jobs -> JobRow] /\ \A j \in Jobs : job'[j] = job[j] \/ job[j].status \notin Over
  BY <1>1
<1>4. delivery \in {"reported", "confirmed"} =>
        verdict \in Over /\ job'[Mine(s)].status = verdict /\ job'[Mine(s)].token = slot[s].token
  OBVIOUS
<1> QED
  BY <1>1, <1>2, <1>3, <1>4, WritesIs

LEMMA ReportedKeeps ==
  ASSUME ExecInv, NEW s \in Slots, Reported(s)
  PROVE  ExecInv'
<1>1. /\ slot[s].at = "sent" /\ job' = job /\ owner' = owner /\ tokens' = tokens /\ bound' = bound /\ troubles' = troubles
  BY DEF Reported, hub
<1>2. slot[s] \in Attempt /\ AttemptOK(slot[s]) /\ DiskTyped
  BY OfSlot
<1>3. slot[s].verdict \in Over /\ Ends(slot[s].verdict) \in Stages /\ "failed" \in Stages
  BY <1>1, <1>2 DEF AttemptOK, VerdictStands, Ends, Stages
<1>4. CASE slot[s].took \/ Confirmed(s)
  <2>1. PICK delivery : delivery = IF slot[s].took THEN "reported" ELSE "confirmed"
    OBVIOUS
  <2>2. Clear(s) /\ Writes(s, Ends(slot[s].verdict), slot[s].verdict, delivery) /\ delivery \in {"reported", "confirmed"}
    BY <1>4, <2>1 DEF Reported
  <2>3. job[Mine(s)].status = slot[s].verdict /\ job[Mine(s)].token = slot[s].token
    BY <1>1, <1>4, ReportFound
  <2>4. ProgressOK'
    BY <1>1, <1>3, <2>2, <2>3, ClosedIs
  <2> QED
    BY <1>1, <1>2, <2>2, <2>4, EndsIs DEF DiskTyped
<1>5. CASE ~(slot[s].took \/ Confirmed(s))
  <2>1. Goes(s, "leaving") /\ claimFile' = claimFile /\ Writes(s, "failed", slot[s].verdict, "rejected")
    BY <1>5 DEF Reported
  <2>2. ProgressOK'
    BY <1>1, <1>3, <2>1, NotedIs DEF Over
  <2> QED
    BY <1>1, <1>2, <2>1, <2>2, EndsIs DEF DiskTyped
<1> QED
  BY <1>4, <1>5

LEMMA AnswerLostKeeps ==
  ASSUME ExecInv, NEW s \in Slots, AnswerLost(s)
  PROVE  ExecInv'
<1>1. /\ slot[s].at = "sent" /\ job' = job /\ owner' = owner /\ tokens' = tokens /\ bound' = bound
      /\ troubles' \in 0 .. TroubleBound
  BY TroubleTyped DEF AnswerLost, hub
<1>2. slot[s] \in Attempt /\ AttemptOK(slot[s])
  BY OfSlot
<1>3. slot[s].verdict \in Over /\ Ends(slot[s].verdict) \in Stages /\ "reporting" \in Stages
  BY <1>1, <1>2 DEF AttemptOK, VerdictStands, Ends, Stages
<1>4. CASE Confirmed(s)
  <2>1. Clear(s) /\ Writes(s, Ends(slot[s].verdict), slot[s].verdict, "confirmed")
    BY <1>4 DEF AnswerLost
  <2>2. job[Mine(s)].status = slot[s].verdict /\ job[Mine(s)].token = slot[s].token
    BY <1>1, <1>4, ReportFound
  <2>3. ProgressOK'
    BY <1>1, <1>3, <2>1, <2>2, ClosedIs
  <2> QED
    BY <1>1, <2>1, <2>3, EndsIs
<1>5. CASE ~Confirmed(s)
  <2>1. Goes(s, "leaving") /\ claimFile' = claimFile /\ Writes(s, "reporting", slot[s].verdict, "unknown")
    BY <1>5 DEF AnswerLost
  <2>2. ProgressOK'
    BY <1>1, <1>3, <2>1, NotedIs DEF Over
  <2> QED
    BY <1>1, <2>1, <2>2, EndsIs
<1> QED
  BY <1>4, <1>5

LEMMA FailureReportedKeeps ==
  ASSUME ExecInv, NEW s \in Slots, FailureReported(s)
  PROVE  ExecInv'
<1>1. /\ slot[s].at = "failSent" /\ job' = job /\ owner' = owner /\ tokens' = tokens /\ bound' = bound /\ troubles' = troubles
  BY DEF FailureReported, hub
<1>2. slot[s] \in Attempt /\ KnowsHub(s, slot[s], job, tokens) /\ DiskTyped
  BY OfSlot
<1>3. CASE slot[s].took
  <2>1. Clear(s) /\ Writes(s, "failed", "failed", "reported")
    BY <1>3 DEF FailureReported
  <2>2. job[Mine(s)].status = "failed" /\ job[Mine(s)].token = slot[s].token
    <3>1. slot[s].took = TRUE
      BY <1>2, <1>3 DEF Attempt
    <3> QED
      BY <1>1, <1>2, <3>1 DEF KnowsHub, Mine
  <2>3. ProgressOK'
    BY <1>1, <2>1, <2>2, ClosedIs DEF Over, Stages
  <2> QED
    BY <1>1, <1>2, <2>1, <2>3, EndsIs DEF DiskTyped
<1>4. CASE ~slot[s].took
  <2>1. Goes(s, "leaving") /\ claimFile' = claimFile /\ Writes(s, "failed", "failed", "rejected")
    BY <1>4 DEF FailureReported
  <2>2. ProgressOK'
    BY <1>1, <2>1, NotedIs DEF Stages
  <2> QED
    BY <1>1, <1>2, <2>1, <2>2, EndsIs DEF DiskTyped
<1> QED
  BY <1>3, <1>4

\* A slot is told to stop: it goes on until it looks.
LEMMA StopKeeps ==
  ASSUME ExecInv, NEW s \in Slots, Stop(s)
  PROVE  ExecInv'
<1> DEFINE a == slot[s]
           c == [a EXCEPT !.stopped = TRUE]
<1>1. /\ Trouble /\ job' = job /\ owner' = owner /\ tokens' = tokens
      /\ progress' = progress /\ claimFile' = claimFile /\ bound' = bound
  BY DEF Stop, hub, disk
<1>2. /\ a \in Attempt /\ AttemptOK(a) /\ SeesOwners(s, a, owner) /\ KnowsHub(s, a, job, tokens)
      /\ slot \in [Slots -> Attempt] /\ DiskTyped
  BY OfSlot
<1>3. DiskTyped' /\ ProgressOK'
  BY <1>1, <1>2, TroubleTyped, SilentIs DEF DiskTyped
<1>4. slot' = [slot EXCEPT ![s] = c]
  BY <1>2 DEF Stop
<1>5. c \in Attempt
  BY <1>2 DEF Attempt
<1>6. /\ c.at = a.at /\ c.job = a.job /\ c.token = a.token /\ c.verdict = a.verdict /\ c.said = a.said /\ c.took = a.took
      /\ c.told = a.told /\ c.mine = a.mine /\ c.others = a.others /\ c.changed = a.changed /\ c.lanes = a.lanes
  BY <1>2 DEF Attempt
<1> HIDE DEF c, a
<1>7. NamesItsJob(c)
  BY <1>2, <1>6 DEF NamesItsJob, AttemptOK
<1>8. VerdictStands(c)
  BY <1>2, <1>6 DEF VerdictStands, AttemptOK
<1>9. RunIsSeen(c)
  BY <1>2, <1>6 DEF RunIsSeen, AttemptOK
<1>10. SaysOnce(c)
  BY <1>2, <1>6 DEF SaysOnce, AttemptOK
<1>11. AttemptOK(c)
  BY <1>7, <1>8, <1>9, <1>10 DEF AttemptOK
<1>12. SeesOwners(s, c, owner)
  BY <1>2, <1>6 DEF SeesOwners
<1>13. KnowsHub(s, c, job, tokens)
  BY <1>2, <1>5, <1>6, KnowsMoved
<1> QED
  BY <1>1, <1>3, <1>4, <1>5, <1>11, <1>12, <1>13, LocalIs
\* Owners only leave.
Frees == \A f \in Files : owner'[f].slot \in {owner[f].slot, NoSlot}

\* A step of one slot and the hub.
LEMMA HubStepIs ==
  ASSUME ExecInv, NEW s \in Slots, NEW c \in Attempt, AttemptOK(c), slot' = [slot EXCEPT ![s] = c],
         HubTyped', tokens' = tokens, \A x \in Slots, j \in Jobs : RowMoves(job[j], job'[j], tokens, x), Frees,
         DiskTyped', ProgressOK', KnowsHub(s, c, job', tokens'), SeesOwners(s, c, owner')
  PROVE  ExecInv'
<1>1. /\ slot \in [Slots -> Attempt] /\ \A x \in Slots : AttemptOK(slot[x]) /\ SeesOwners(x, slot[x], owner)
      /\ \A x \in Slots : KnowsHub(x, slot[x], job, tokens)
  BY DEF ExecInv, SlotsOK, SlotsSee, SlotsKnow
<1>2. \A x \in Slots : slot'[x] = IF x = s THEN c ELSE slot[x]
  BY <1>1
<1>3. SlotsOK'
  BY <1>1, <1>2 DEF SlotsOK
<1>4. ASSUME NEW x \in Slots, x # s PROVE SeesOwners(x, slot'[x], owner')
  BY <1>1, <1>2, <1>4 DEF SeesOwners, Frees
<1>5. ASSUME NEW x \in Slots, x # s PROVE KnowsHub(x, slot'[x], job', tokens')
  <2>1. slot[x] \in Attempt /\ AttemptOK(slot[x]) /\ KnowsHub(x, slot[x], job, tokens)
    BY <1>1
  <2>2. job \in [Jobs -> JobRow] /\ job' \in [Jobs -> JobRow] /\ tokens \in Nat /\ tokens <= tokens
    BY ExecutionAssumption DEF ExecInv, HubTyped
  <2>3. \A j \in Jobs : RowMoves(job[j], job'[j], tokens, x)
    OBVIOUS
  <2>4. KnowsHub(x, slot[x], job', tokens)
    BY <2>1, <2>2, <2>3, KnowsStays
  <2> QED
    BY <1>2, <1>5, <2>4
<1>6. SlotsSee' /\ SlotsKnow'
  BY <1>2, <1>4, <1>5 DEF SlotsSee, SlotsKnow
<1> QED
  BY <1>3, <1>6 DEF ExecInv

\* The hub closes a claim.
LEMMA SettledIs ==
  ASSUME ExecInv, NEW s \in Slots, Mine(s) \in Jobs, Holds(s), NEW status \in {"blocked", "done", "failed"},
         Settled(s, status), tokens' = tokens
  PROVE  /\ HubTyped' /\ Frees /\ \A x \in Slots, j \in Jobs : RowMoves(job[j], job'[j], tokens, x)
         /\ \A j \in Jobs : job'[j] = job[j] \/ job[j].status \notin Over
         /\ job' \in [Jobs -> JobRow] /\ job'[Mine(s)].status = status /\ job'[Mine(s)].token = slot[s].token
         /\ job'[Mine(s)].by = job[Mine(s)].by
<1> USE ExecutionAssumption
<1>1. /\ job \in [Jobs -> JobRow] /\ owner \in OwnerRows /\ tokens \in 0 .. TokenBound
      /\ \A j \in Jobs : job[j].token <= tokens
  BY DEF ExecInv, HubTyped
<1>2. job' = [job EXCEPT ![Mine(s)].status = status] /\ owner' = Released(Mine(s))
  BY DEF Settled
<1>3. job[Mine(s)].status = "running" /\ job[Mine(s)].token = slot[s].token
  BY DEF Holds
<1>4. status \in Status
  BY DEF Status
<1>5. job' \in [Jobs -> JobRow]
  BY <1>1, <1>2, <1>4 DEF JobRow
<1>6. \A j \in Jobs : /\ j # Mine(s) => job'[j] = job[j]
                      /\ job'[j].token = job[j].token /\ job'[j].by = job[j].by
  BY <1>1, <1>2 DEF JobRow
<1>7. job'[Mine(s)].status = status
  BY <1>1, <1>2 DEF JobRow
<1>8. owner' \in OwnerRows /\ Frees
  BY <1>1, <1>2 DEF OwnerRows, Released, Free, Frees
<1>9. ASSUME NEW x \in Slots, NEW j \in Jobs PROVE RowMoves(job[j], job'[j], tokens, x)
  BY <1>3, <1>6, <1>7 DEF RowMoves, Over
<1>10. HubTyped'
  BY <1>1, <1>5, <1>6, <1>8 DEF HubTyped
<1>11. \A j \in Jobs : job'[j] = job[j] \/ job[j].status \notin Over
  BY <1>3, <1>6 DEF Over
<1> QED
  BY <1>3, <1>5, <1>6, <1>7, <1>8, <1>9, <1>10, <1>11

\* The slot gives way, or asks: the hub blocks the task if the claim still stands.
LEMMA BlocksKeeps ==
  ASSUME ExecInv, NEW s \in Slots, Yield(s) \/ Ask(s)
  PROVE  ExecInv'
<1>1. /\ slot[s].at \in {"yielding", "asking"} /\ tokens' = tokens /\ progress' = progress
      /\ UNCHANGED <<claimFile, bound, troubles>>
  BY DEF Yield, Ask, disk
<1>2. DiskTyped'
  BY <1>1, DiskStays
<1>3. /\ slot[s] \in Attempt /\ AttemptOK(slot[s]) /\ KnowsHub(s, slot[s], job, tokens) /\ slot \in [Slots -> Attempt]
      /\ Mine(s) \in Jobs
  BY <1>1, OfSlot
<1>4. CASE ~Holds(s)
  <2>1. job' = job /\ owner' = owner /\ Goes(s, "failing")
    BY <1>4 DEF Yield, Ask
  <2>2. slot[s].at \notin {"idle", "gone"} /\ slot[s].at \notin Closing /\ "failing" \in Between /\ "failing" \notin Early
    BY <1>1 DEF Closing, Between, Early
  <2>3. ProgressOK'
    BY <1>1, <2>1, SilentIs
  <2> QED
    BY <1>1, <1>2, <2>1, <2>2, <2>3, GoesIs
<1>5. CASE Holds(s)
  <2>1. PICK at \in {"yielded", "asked"} : Goes(s, at)
    BY <1>5 DEF Yield, Ask
  <2>2. Settled(s, "blocked")
    BY <1>5 DEF Yield, Ask
  <2>3. /\ HubTyped' /\ Frees /\ \A x \in Slots, j \in Jobs : RowMoves(job[j], job'[j], tokens, x)
        /\ \A j \in Jobs : job'[j] = job[j] \/ job[j].status \notin Over
        /\ job' \in [Jobs -> JobRow] /\ job'[Mine(s)].status = "blocked" /\ job'[Mine(s)].token = slot[s].token
        /\ job'[Mine(s)].by = job[Mine(s)].by
    BY <1>1, <1>3, <1>5, <2>2, SettledIs
  <2>4. ProgressOK'
    BY <1>1, <2>3, ProgressStays
  <2> DEFINE a == slot[s]
             c == [a EXCEPT !.at = at]
  <2>5. at \in Phases
    BY DEF Phases
  <2>6. c \in Attempt
    BY <1>3, <2>5, MovesOn
  <2>7. /\ c.at = at /\ c.job = a.job /\ c.token = a.token /\ c.verdict = a.verdict /\ c.said = a.said /\ c.took = a.took
        /\ c.told = a.told /\ c.mine = a.mine /\ c.others = a.others
    BY <1>3 DEF Attempt
  <2>8. slot' = [slot EXCEPT ![s] = c]
    BY <2>1 DEF Goes
  <2>9. a.job \in Jobs /\ a.at \in {"yielding", "asking"} /\ job'[a.job].status = "blocked" /\ job'[a.job].token = a.token
    BY <1>1, <1>3, <2>3 DEF Mine
  <2> HIDE DEF c, a
  <2>10. NamesItsJob(c)
    BY <2>7, <2>9 DEF NamesItsJob
  <2>11. VerdictStands(c)
    BY <1>3, <2>7, <2>9 DEF a, VerdictStands, AttemptOK
  <2>12. RunIsSeen(c)
    BY <2>7 DEF RunIsSeen, Early
  <2>13. SaysOnce(c)
    BY <1>3, <2>7, <2>9 DEF a, SaysOnce, AttemptOK
  <2>14. AttemptOK(c)
    BY <2>10, <2>11, <2>12, <2>13 DEF AttemptOK
  <2>15. SeesOwners(s, c, owner')
    BY <2>7 DEF SeesOwners
  <2>16. KnowsHub(s, c, job', tokens')
    BY <1>1, <1>3, <2>7, <2>9 DEF a, KnowsHub
  <2> QED
    BY <1>1, <1>2, <2>3, <2>4, <2>6, <2>8, <2>14, <2>15, <2>16, HubStepIs
<1> QED
  BY <1>4, <1>5

LEMMA ReportKeeps ==
  ASSUME ExecInv, NEW s \in Slots, Report(s)
  PROVE  ExecInv'
<1> DEFINE a == slot[s]
           c == [a EXCEPT !.at = "sent", !.took = Holds(s), !.said = a.said \cup {a.verdict}]
<1>1. /\ a.at = "reporting" /\ tokens' = tokens /\ progress' = progress /\ UNCHANGED <<claimFile, bound, troubles>>
  BY DEF Report, disk
<1>2. DiskTyped'
  BY <1>1, DiskStays
<1>3. /\ a \in Attempt /\ AttemptOK(a) /\ KnowsHub(s, a, job, tokens) /\ slot \in [Slots -> Attempt]
      /\ Mine(s) \in Jobs /\ a.job \in Jobs
  BY <1>1, OfSlot DEF Mine
<1>4. a.verdict \in Over /\ a.said = {}
  BY <1>1, <1>3 DEF AttemptOK, VerdictStands, SaysOnce
<1>5. slot' = [slot EXCEPT ![s] = c]
  BY <1>3 DEF Report
<1>6. Holds(s) \in BOOLEAN
  BY DEF Holds
<1>7. c \in Attempt
  BY <1>3, <1>4, <1>6 DEF Attempt, Phases, Over
<1>8. /\ c.at = "sent" /\ c.job = a.job /\ c.token = a.token /\ c.verdict = a.verdict /\ c.said = {a.verdict}
      /\ c.told = a.told /\ c.mine = a.mine /\ c.others = a.others /\ c.took = Holds(s)
  BY <1>3, <1>4 DEF Attempt
<1> HIDE DEF c
<1>9. NamesItsJob(c)
  BY <1>3, <1>8 DEF NamesItsJob
<1>10. VerdictStands(c)
  BY <1>1, <1>3, <1>4, <1>8 DEF VerdictStands, AttemptOK
<1>11. RunIsSeen(c)
  BY <1>8 DEF RunIsSeen, Early
<1>12. SaysOnce(c)
  BY <1>4, <1>8 DEF SaysOnce, Over
<1>13. AttemptOK(c)
  BY <1>9, <1>10, <1>11, <1>12 DEF AttemptOK
<1>14. SeesOwners(s, c, owner) /\ SeesOwners(s, c, owner')
  BY <1>8 DEF SeesOwners
<1>15. CASE ~Holds(s)
  <2>1. job' = job /\ owner' = owner
    BY <1>15 DEF Report
  <2>2. ProgressOK'
    BY <1>1, <2>1, SilentIs
  <2>3. c.took # TRUE
    BY <1>8, <1>15
  <2>4. KnowsHub(s, c, job, tokens)
    BY <1>3, <1>8, <2>3 DEF KnowsHub
  <2> QED
    BY <1>1, <1>2, <1>5, <1>7, <1>13, <1>14, <2>1, <2>2, <2>4, LocalIs
<1>16. CASE Holds(s)
  <2>1. Settled(s, a.verdict) /\ a.verdict \in {"blocked", "done", "failed"}
    BY <1>4, <1>16 DEF Report, Over
  <2>2. /\ HubTyped' /\ Frees /\ \A x \in Slots, j \in Jobs : RowMoves(job[j], job'[j], tokens, x)
        /\ \A j \in Jobs : job'[j] = job[j] \/ job[j].status \notin Over
        /\ job' \in [Jobs -> JobRow] /\ job'[Mine(s)].status = a.verdict /\ job'[Mine(s)].token = a.token
        /\ job'[Mine(s)].by = job[Mine(s)].by
    BY <1>1, <1>3, <1>16, <2>1, SettledIs
  <2>3. ProgressOK'
    BY <1>1, <2>2, ProgressStays
  <2>4. job'[a.job].status = a.verdict /\ job'[a.job].token = a.token
    BY <2>2 DEF Mine
  <2>5. KnowsHub(s, c, job', tokens')
    BY <1>1, <1>3, <1>8, <2>4 DEF KnowsHub
  <2> QED
    BY <1>1, <1>2, <1>5, <1>7, <1>13, <1>14, <2>2, <2>3, <2>5, HubStepIs
<1> QED
  BY <1>15, <1>16

LEMMA ReportFailureKeeps ==
  ASSUME ExecInv, NEW s \in Slots, ReportFailure(s)
  PROVE  ExecInv'
<1> DEFINE a == slot[s]
           c == [a EXCEPT !.at = "failSent", !.took = Holds(s), !.said = a.said \cup {"failed"}]
<1>1. /\ a.at = "failing" /\ tokens' = tokens /\ UNCHANGED <<claimFile, bound, troubles>>
      /\ Writes(s, "reporting", "failed", "pending")
  BY DEF ReportFailure
<1>2. DiskTyped'
  BY <1>1, DiskStays
<1>3. /\ a \in Attempt /\ AttemptOK(a) /\ KnowsHub(s, a, job, tokens) /\ slot \in [Slots -> Attempt]
      /\ Mine(s) \in Jobs /\ a.job \in Jobs /\ job \in [Jobs -> JobRow]
  BY <1>1, OfSlot DEF Mine
<1>4. a.verdict = "none" /\ a.said = {}
  BY <1>1, <1>3 DEF AttemptOK, VerdictStands, SaysOnce
<1>5. slot' = [slot EXCEPT ![s] = c]
  BY <1>3 DEF ReportFailure
<1>6. Holds(s) \in BOOLEAN
  BY DEF Holds
<1>7. c \in Attempt
  BY <1>3, <1>4, <1>6 DEF Attempt, Phases
<1>8. /\ c.at = "failSent" /\ c.job = a.job /\ c.token = a.token /\ c.verdict = "none" /\ c.said = {"failed"}
      /\ c.told = a.told /\ c.mine = a.mine /\ c.others = a.others /\ c.took = Holds(s)
  BY <1>3, <1>4 DEF Attempt
<1> HIDE DEF c
<1>9. NamesItsJob(c)
  BY <1>3, <1>8 DEF NamesItsJob
<1>10. VerdictStands(c)
  BY <1>8 DEF VerdictStands
<1>11. RunIsSeen(c)
  BY <1>8 DEF RunIsSeen, Early
<1>12. SaysOnce(c)
  BY <1>8 DEF SaysOnce
<1>13. AttemptOK(c)
  BY <1>9, <1>10, <1>11, <1>12 DEF AttemptOK
<1>14. SeesOwners(s, c, owner) /\ SeesOwners(s, c, owner')
  BY <1>8 DEF SeesOwners
<1>15. "reporting" \in Stages /\ "failed" \in {"none", "done", "failed"} /\ "pending" \in Delivery
       /\ "pending" \notin {"reported", "confirmed"}
  BY DEF Stages, Delivery
<1>16. CASE ~Holds(s)
  <2>1. job' = job /\ owner' = owner
    BY <1>16 DEF ReportFailure
  <2>2. job' \in [Jobs -> JobRow] /\ \A j \in Jobs : job'[j] = job[j] \/ job[j].status \notin Over
    BY <1>3, <2>1
  <2>3. ProgressOK'
    BY <1>1, <1>3, <1>15, <2>2, WritesIs
  <2>4. c.took # TRUE
    BY <1>8, <1>16
  <2>5. KnowsHub(s, c, job, tokens)
    BY <1>3, <1>8, <2>4 DEF KnowsHub
  <2> QED
    BY <1>1, <1>2, <1>5, <1>7, <1>13, <1>14, <2>1, <2>3, <2>5, LocalIs
<1>17. CASE Holds(s)
  <2>1. Settled(s, "failed")
    BY <1>17 DEF ReportFailure
  <2>2. /\ HubTyped' /\ Frees /\ \A x \in Slots, j \in Jobs : RowMoves(job[j], job'[j], tokens, x)
        /\ \A j \in Jobs : job'[j] = job[j] \/ job[j].status \notin Over
        /\ job' \in [Jobs -> JobRow] /\ job'[Mine(s)].status = "failed" /\ job'[Mine(s)].token = a.token
        /\ job'[Mine(s)].by = job[Mine(s)].by
    BY <1>1, <1>3, <1>17, <2>1, SettledIs
  <2>3. ProgressOK'
    BY <1>1, <1>3, <1>15, <2>2, WritesIs
  <2>4. job'[a.job].status = "failed" /\ job'[a.job].token = a.token
    BY <2>2 DEF Mine
  <2>5. KnowsHub(s, c, job', tokens')
    BY <1>1, <1>3, <1>8, <2>4 DEF KnowsHub
  <2> QED
    BY <1>1, <1>2, <1>5, <1>7, <1>13, <1>14, <2>2, <2>3, <2>5, HubStepIs
<1> QED
  BY <1>16, <1>17

\* The hub alone: the lease ends, or the wait of a blocked task.
LEMMA HubAloneKeeps ==
  ASSUME ExecInv, NEW j \in Jobs, Lapse(j) \/ Reopen(j)
  PROVE  ExecInv'
<1> USE ExecutionAssumption
<1> DEFINE free == [status |-> "pending", by |-> NoSlot, token |-> 0]
<1>1. /\ job' = [job EXCEPT ![j] = free] /\ tokens' = tokens /\ slot' = slot /\ claimFile' = claimFile
      /\ progress' = progress /\ bound' = bound /\ job[j].status \in {"running", "blocked"}
      /\ owner' = owner \/ owner' = Released(j)
  BY DEF Lapse, Reopen
<1>2. /\ job \in [Jobs -> JobRow] /\ owner \in OwnerRows /\ tokens \in 0 .. TokenBound
      /\ (\A k \in Jobs : job[k].token <= tokens) /\ DiskTyped /\ SlotsOK /\ SlotsSee /\ SlotsKnow
  BY DEF ExecInv, HubTyped
<1>3. free \in JobRow /\ free.by = NoSlot /\ free.status = "pending" /\ free.token = 0
  BY DEF JobRow, Status
<1> HIDE DEF free
<1>4. job' \in [Jobs -> JobRow] /\ \A k \in Jobs : job'[k] = IF k = j THEN free ELSE job[k]
  BY <1>1, <1>2, <1>3
<1>5. owner' \in OwnerRows /\ Frees
  BY <1>1, <1>2 DEF OwnerRows, Released, Free, Frees
<1>6. HubTyped'
  BY <1>1, <1>2, <1>3, <1>4, <1>5 DEF HubTyped
<1>7. troubles' \in 0 .. TroubleBound
  BY <1>2, TroubleTyped DEF Lapse, Reopen, DiskTyped
<1>8. DiskTyped'
  BY <1>1, <1>2, <1>7 DEF DiskTyped
<1>9. SlotsOK' /\ SlotsSee'
  BY <1>1, <1>2, <1>5 DEF SlotsOK, SlotsSee, SeesOwners, Frees
<1>10. ASSUME NEW x \in Slots PROVE KnowsHub(x, slot[x], job', tokens)
  <2>1. slot[x] \in Attempt /\ AttemptOK(slot[x]) /\ KnowsHub(x, slot[x], job, tokens)
    BY OfSlot
  <2>2. \A k \in Jobs : RowMoves(job[k], job'[k], tokens, x)
    BY <1>1, <1>3, <1>4 DEF RowMoves, Over
  <2>3. tokens \in Nat /\ tokens <= tokens
    BY <1>2
  <2> QED
    BY <1>2, <1>4, <2>1, <2>2, <2>3, KnowsStays
<1>11. SlotsKnow'
  BY <1>1, <1>10 DEF SlotsKnow
<1>12. \A k \in Jobs : job'[k] = job[k] \/ job[k].status \notin Over
  BY <1>1, <1>4 DEF Over
<1>13. ProgressOK'
  BY <1>1, <1>4, <1>12, ProgressStays
<1> QED
  BY <1>6, <1>8, <1>9, <1>11, <1>13 DEF ExecInv
\* What a slot becomes when the owners change to `held'.
Widened(a, s, held) == [a EXCEPT !.others = a.others \cup {f \in Files : held[f].slot \notin {NoSlot, s}}]

LEMMA WidenedIs ==
  ASSUME NEW a \in Attempt, AttemptOK(a), NEW s, NEW held, NEW rows, NEW n, KnowsHub(s, a, rows, n)
  PROVE  /\ Widened(a, s, held) \in Attempt /\ AttemptOK(Widened(a, s, held))
         /\ SeesOwners(s, Widened(a, s, held), held) /\ KnowsHub(s, Widened(a, s, held), rows, n)
<1> DEFINE seen == {f \in Files : held[f].slot \notin {NoSlot, s}}
           c == Widened(a, s, held)
<1>1. seen \in SUBSET Files /\ \A f \in Files : held[f].slot \notin {NoSlot, s} => f \in seen
  OBVIOUS
<1>2. c = [a EXCEPT !.others = a.others \cup seen]
  BY DEF Widened
<1> HIDE DEF seen, c
<1>3. c \in Attempt
  BY <1>1, <1>2 DEF Attempt
<1>4. /\ c.at = a.at /\ c.job = a.job /\ c.token = a.token /\ c.verdict = a.verdict /\ c.said = a.said /\ c.took = a.took
      /\ c.told = a.told /\ c.mine = a.mine /\ c.changed = a.changed /\ c.lanes = a.lanes /\ c.others = a.others \cup seen
  BY <1>2 DEF Attempt
<1>5. NamesItsJob(c)
  BY <1>4 DEF NamesItsJob, AttemptOK
<1>6. VerdictStands(c)
  BY <1>4 DEF VerdictStands, AttemptOK
<1>7. RunIsSeen(c)
  BY <1>4 DEF RunIsSeen, AttemptOK
<1>8. SaysOnce(c)
  BY <1>4 DEF SaysOnce, AttemptOK
<1>9. AttemptOK(c)
  BY <1>5, <1>6, <1>7, <1>8 DEF AttemptOK
<1>10. SeesOwners(s, c, held)
  BY <1>1, <1>4 DEF SeesOwners
<1>11. KnowsHub(s, c, rows, n)
  BY <1>3, <1>4, KnowsMoved
<1> QED
  BY <1>3, <1>9, <1>10, <1>11 DEF c

\* A step of one slot that gives it files: every run under way sees it.
LEMMA TakesIs ==
  ASSUME ExecInv, NEW s \in Slots, NEW c \in Attempt, AttemptOK(c), c.at \notin {"working", "attributing"}, ~InRun(s),
         slot' = Witnessed(owner', [slot EXCEPT ![s] = c]), HubTyped', DiskTyped', ProgressOK', tokens <= tokens',
         \A x \in Slots, j \in Jobs : x # s => RowMoves(job[j], job'[j], tokens, x),
         KnowsHub(s, c, job', tokens')
  PROVE  ExecInv'
<1> USE ExecutionAssumption
<1>1. slot \in [Slots -> Attempt] /\ \A x \in Slots : AttemptOK(slot[x]) /\ KnowsHub(x, slot[x], job, tokens)
  BY DEF ExecInv, SlotsOK, SlotsKnow
<1> DEFINE base(x) == IF x = s THEN c ELSE slot[x]
<1>2. \A x \in Slots : slot'[x] = IF InRun(x) THEN Widened(base(x), x, owner') ELSE base(x)
  BY <1>1 DEF Witnessed, Widened
<1>3. slot' = [x \in Slots |-> slot'[x]]
  BY DEF Witnessed
<1>4. job \in [Jobs -> JobRow] /\ job' \in [Jobs -> JobRow] /\ tokens \in Nat /\ tokens' \in Nat
  BY DEF ExecInv, HubTyped
<1>5. ASSUME NEW x \in Slots
      PROVE  /\ slot'[x] \in Attempt /\ AttemptOK(slot'[x]) /\ SeesOwners(x, slot'[x], owner')
             /\ KnowsHub(x, slot'[x], job', tokens')
  <2>1. CASE x = s
    <3>1. slot'[x] = c
      BY <1>2, <2>1
    <3>2. SeesOwners(x, c, owner')
      BY DEF SeesOwners
    <3> QED
      BY <2>1, <3>1, <3>2
  <2>2. CASE x # s
    <3>1. KnowsHub(x, slot[x], job', tokens')
      BY <1>1, <1>4, <2>2, KnowsStays
    <3>2. CASE InRun(x)
      <4>1. slot'[x] = Widened(slot[x], x, owner')
        BY <1>2, <2>2, <3>2
      <4> QED
        BY <1>1, <3>1, <4>1, WidenedIs
    <3>3. CASE ~InRun(x)
      <4>1. slot'[x] = slot[x]
        BY <1>2, <2>2, <3>3
      <4>2. SeesOwners(x, slot[x], owner')
        BY <3>3 DEF SeesOwners, InRun
      <4> QED
        BY <1>1, <3>1, <4>1, <4>2
    <3> QED
      BY <3>2, <3>3
  <2> QED
    BY <2>1, <2>2
<1>6. SlotsOK'
  BY <1>3, <1>5 DEF SlotsOK
<1>7. SlotsSee' /\ SlotsKnow'
  BY <1>5 DEF SlotsSee, SlotsKnow
<1> QED
  BY <1>6, <1>7 DEF ExecInv

LEMMA ClaimKeeps ==
  ASSUME ExecInv, NEW s \in Slots, NEW j \in Jobs, Claim(s, j)
  PROVE  ExecInv'
<1> USE ExecutionAssumption
<1> DEFINE c == [NoAttempt EXCEPT !.at = "granted", !.job = j, !.token = tokens + 1, !.left = Owns(j),
                                  !.stopped = slot[s].stopped]
           row == [status |-> "running", by |-> s, token |-> tokens + 1]
           held == [f \in Files |-> IF f \in Owns(j) THEN [job |-> j, slot |-> s] ELSE owner[f]]
<1>1. /\ slot[s].at = "idle" /\ job[j].status = "pending" /\ tokens < TokenBound /\ tokens' = tokens + 1
      /\ job' = [job EXCEPT ![j] = row] /\ owner' = held /\ slot' = Witnessed(held, [slot EXCEPT ![s] = c])
      /\ progress' = progress /\ UNCHANGED <<claimFile, bound, troubles>>
  BY DEF Claim, Grant, disk
<1>2. /\ job \in [Jobs -> JobRow] /\ owner \in OwnerRows /\ tokens \in 0 .. TokenBound
      /\ (\A k \in Jobs : job[k].token <= tokens) /\ slot[s] \in Attempt
  BY OfSlot DEF ExecInv, HubTyped
<1>3. PICK n : n = tokens + 1
  OBVIOUS
<1>4. n \in 0 .. TokenBound /\ n \in Nat /\ tokens < n /\ tokens' = n /\ tokens \in Nat /\ tokens <= n /\ n \in 1 .. n
  BY <1>1, <1>2, <1>3
<1>5. c = [NoAttempt EXCEPT !.at = "granted", !.job = j, !.token = n, !.left = Owns(j), !.stopped = slot[s].stopped]
      /\ row = [status |-> "running", by |-> s, token |-> n]
  BY <1>3
<1>6. slot[s].stopped \in BOOLEAN /\ Owns(j) \in SUBSET Files
  BY <1>2 DEF Attempt
<1>7. NoAttempt \in Attempt
  BY DEF NoAttempt, Attempt, Phases
<1>8. row \in JobRow /\ row.status = "running" /\ row.by = s /\ row.token = n
  BY <1>4, <1>5 DEF JobRow, Status
<1>9. held \in OwnerRows
  BY <1>2 DEF OwnerRows
<1> HIDE DEF c, row, held
<1>10. c \in Attempt
  BY <1>4, <1>5, <1>6, <1>7 DEF Attempt, Phases
<1>11. c.at = "granted" /\ c.job = j /\ c.token = n /\ c.verdict = "none" /\ c.said = {} /\ c.took = FALSE /\ c.mine = {}
  BY <1>5 DEF NoAttempt
<1>12. AttemptOK(c)
  BY <1>11 DEF AttemptOK, NamesItsJob, VerdictStands, RunIsSeen, SaysOnce
<1>13. job' \in [Jobs -> JobRow] /\ \A k \in Jobs : job'[k] = IF k = j THEN row ELSE job[k]
  BY <1>1, <1>2, <1>8
<1>14. HubTyped'
  <2>1. ASSUME NEW k \in Jobs PROVE job'[k].token <= n
    <3>1. job[k].token \in Int /\ job[k].token <= tokens
      BY <1>2 DEF JobRow
    <3> QED
      BY <1>4, <1>8, <1>13, <3>1
  <2> QED
    BY <2>1, <1>1, <1>4, <1>9, <1>13 DEF HubTyped
<1>15. DiskTyped'
  BY <1>1, DiskStays
<1>16. \A k \in Jobs : job'[k] = job[k] \/ job[k].status \notin Over
  BY <1>1, <1>13 DEF Over
<1>17. ProgressOK'
  BY <1>1, <1>13, <1>16, ProgressStays
<1>18. ASSUME NEW x \in Slots, NEW k \in Jobs, x # s PROVE RowMoves(job[k], job'[k], tokens, x)
  <2>1. n > tokens
    BY <1>4
  <2> QED
    BY <2>1, <1>1, <1>8, <1>13, <1>18 DEF RowMoves, Over
<1>19. KnowsHub(s, c, job', tokens')
  BY <1>4, <1>8, <1>11, <1>13 DEF KnowsHub
<1>20. ~InRun(s) /\ c.at \notin {"working", "attributing"}
  BY <1>1, <1>11 DEF InRun
<1>21. slot' = Witnessed(owner', [slot EXCEPT ![s] = c]) /\ tokens <= tokens'
  BY <1>1, <1>4
<1> QED
  BY <1>10, <1>12, <1>14, <1>15, <1>17, <1>18, <1>19, <1>20, <1>21, TakesIs

LEMMA PreemptKeeps ==
  ASSUME ExecInv, NEW s \in Slots, Preempt(s)
  PROVE  ExecInv'
<1> USE ExecutionAssumption
<1>1. /\ slot[s].at = "preempting" /\ job' = job /\ tokens' = tokens
      /\ progress' = progress /\ UNCHANGED <<claimFile, bound, troubles>>
  BY DEF Preempt, disk
<1>2. DiskTyped' /\ ProgressOK'
  BY <1>1, DiskStays, SilentIs
<1>3. /\ slot[s] \in Attempt /\ AttemptOK(slot[s]) /\ KnowsHub(s, slot[s], job, tokens)
      /\ slot \in [Slots -> Attempt] /\ Mine(s) \in Jobs /\ HubTyped
  BY <1>1, OfSlot DEF ExecInv
<1>4. ASSUME owner' = owner, Goes(s, "yielding")
      PROVE  ExecInv'
  <2>1. slot[s].at \notin {"idle", "gone"} /\ slot[s].at \notin Closing /\ "yielding" \in Between /\ "yielding" \notin Early
    BY <1>1 DEF Closing, Between, Early
  <2> QED
    BY <1>1, <1>2, <1>4, <2>1, GoesIs
<1>5. ASSUME NEW f \in slot[s].left,
             owner' = [owner EXCEPT ![f] = [job |-> Mine(s), slot |-> s]],
             slot' = Witnessed(owner', [slot EXCEPT ![s].at = "checking", ![s].left = @ \ {f}])
      PROVE  ExecInv'
  <2> DEFINE a == slot[s]
             c == [a EXCEPT !.at = "checking", !.left = a.left \ {f}]
  <2>1. c \in Attempt
    BY <1>3 DEF Attempt, Phases
  <2>2. /\ c.at = "checking" /\ c.job = a.job /\ c.token = a.token /\ c.verdict = a.verdict /\ c.said = a.said /\ c.took = a.took
        /\ c.mine = a.mine
    BY <1>3 DEF Attempt
  <2>3. [slot EXCEPT ![s].at = "checking", ![s].left = @ \ {f}] = [slot EXCEPT ![s] = c]
    BY <1>3
  <2>4. slot' = Witnessed(owner', [slot EXCEPT ![s] = c])
    BY <1>5, <2>3
  <2> HIDE DEF c
  <2>5. AttemptOK(c)
    BY <1>1, <1>3, <2>1, <2>2, LeftIs
  <2>6. c.at \notin {"sent", "failSent", "yielded", "asked"}
    BY <2>2
  <2>7. KnowsHub(s, c, job, tokens)
    BY <1>3, <2>1, <2>2, <2>6, KnowsMoved
  <2>8. f \in Files /\ [job |-> Mine(s), slot |-> s] \in [job : Jobs \cup {NoJob}, slot : Slots \cup {NoSlot}]
    BY <1>3 DEF Attempt
  <2>9. owner' \in OwnerRows
    BY <1>3, <1>5, <2>8 DEF HubTyped, OwnerRows
  <2>10. HubTyped'
    BY <1>1, <1>3, <2>9 DEF HubTyped
  <2>11. \A x \in Slots, j \in Jobs : x # s => RowMoves(job[j], job'[j], tokens, x)
    BY <1>1 DEF RowMoves
  <2>12. ~InRun(s) /\ c.at \notin {"working", "attributing"} /\ tokens <= tokens'
    BY <1>1, <1>3, <2>2 DEF InRun, HubTyped
  <2>13. KnowsHub(s, c, job', tokens')
    BY <1>1, <2>7
  <2> QED
    BY <1>2, <2>1, <2>4, <2>5, <2>10, <2>11, <2>12, <2>13, TakesIs
<1> QED
  BY <1>4, <1>5 DEF Preempt
LEMMA ExecKeeps ==
  ASSUME ExecInv, ExecutionNext
  PROVE  ExecInv'
<1>1. CASE \E s \in Slots, j \in Jobs : Claim(s, j)
  BY <1>1, ClaimKeeps
<1>2. CASE \E s \in Slots, f \in Files : Edit(s, f)
  BY <1>2, EditKeeps
<1>3. CASE \E s \in Slots : AbandonClaim(s) \/ Begin(s) \/ CheckFile(s) \/ AllChecked(s) \/ Preempt(s) \/ Yield(s) \/ Yielded(s)
  BY <1>3, AbandonClaimKeeps, BeginKeeps, CheckFileKeeps, AllCheckedKeeps, PreemptKeeps, BlocksKeeps, GaveWayKeeps
<1>4. CASE \E s \in Slots : CheckLease(s) \/ ListOwners(s) \/ Finish(s) \/ Throw(s) \/ Attribute(s) \/ LeaveRunning(s)
  BY <1>4, CheckLeaseKeeps, ListOwnersKeeps, FinishKeeps, ThrowKeeps, AttributeKeeps, LeaveRunningKeeps
<1>5. CASE \E s \in Slots : Ask(s) \/ Asked(s) \/ Report(s) \/ Reported(s) \/ LoseReport(s) \/ AnswerLost(s)
  BY <1>5, BlocksKeeps, GaveWayKeeps, ReportKeeps, ReportedKeeps, LoseReportKeeps, AnswerLostKeeps
<1>6. CASE \E s \in Slots : ReportFailure(s) \/ FailureReported(s) \/ Leave(s) \/ Stop(s)
  BY <1>6, ReportFailureKeeps, FailureReportedKeeps, LeaveKeeps, StopKeeps
<1>7. CASE \E j \in Jobs : Lapse(j) \/ Reopen(j)
  BY <1>7, HubAloneKeeps
<1> QED
  BY <1>1, <1>2, <1>3, <1>4, <1>5, <1>6, <1>7 DEF ExecutionNext

LEMMA ExecUnchanged ==
  ASSUME ExecInv, UNCHANGED executionVars
  PROVE  ExecInv'
<1>1. /\ job' = job /\ owner' = owner /\ tokens' = tokens /\ slot' = slot /\ progress' = progress
      /\ UNCHANGED <<claimFile, bound, troubles>>
  BY DEF executionVars
<1>2. HubTyped' /\ DiskTyped' /\ ProgressOK'
  BY <1>1, HubStays, DiskStays, SilentIs
<1>3. SlotsOK' /\ SlotsSee' /\ SlotsKnow'
  BY <1>1 DEF ExecInv, SlotsOK, SlotsSee, SlotsKnow
<1> QED
  BY <1>2, <1>3 DEF ExecInv

LEMMA ExecTyped ==
  ASSUME ExecInv
  PROVE  ExecutionTypeOK
<1>1. HubTyped /\ DiskTyped /\ slot \in [Slots -> Attempt] /\ progress \in [Jobs -> ProgressRow]
  BY DEF ExecInv, SlotsOK, ProgressOK
<1> QED
  BY <1>1 DEF ExecutionTypeOK, HubTyped, DiskTyped, JobRow, OwnerRows, ProgressRow

\* What `done' says of the files, one verdict per claim, and what the progress file says.
LEMMA ExecSafeState ==
  ASSUME ExecInv
  PROVE  /\ \A s \in Slots : slot[s].verdict = "done" =>
              /\ slot[s].told \subseteq Owns(Mine(s))
              /\ slot[s].mine \ Owns(Mine(s)) \subseteq slot[s].others
         /\ \A s \in Slots : Cardinality(slot[s].said) <= 1
         /\ \A j \in Jobs : progress[j].delivery \in {"reported", "confirmed"} =>
              job[j].status = progress[j].verdict /\ job[j].token = progress[j].token
<1>1. ASSUME NEW s \in Slots
      PROVE  /\ slot[s].verdict = "done" => /\ slot[s].told \subseteq Owns(Mine(s))
                                            /\ slot[s].mine \ Owns(Mine(s)) \subseteq slot[s].others
             /\ Cardinality(slot[s].said) <= 1
  <2>1. VerdictStands(slot[s]) /\ SaysOnce(slot[s])
    BY OfSlot DEF AttemptOK
  <2>2. slot[s].said \in {{}, {"done"}, {"failed"}}
    BY <2>1 DEF SaysOnce
  <2>3. Cardinality({}) = 0 /\ Cardinality({"done"}) = 1 /\ Cardinality({"failed"}) = 1
    BY FS_EmptySet, FS_Singleton
  <2>4. Cardinality(slot[s].said) <= 1
    BY <2>2, <2>3
  <2> QED
    BY <2>1, <2>4 DEF VerdictStands, Mine
<1>2. \A j \in Jobs : progress[j].delivery \in {"reported", "confirmed"} =>
              job[j].status = progress[j].verdict /\ job[j].token = progress[j].token
  BY DEF ExecInv, ProgressOK, Delivered
<1> QED
  BY <1>1, <1>2

\* A slot that removes its claim file has nothing running under its token.
LEMMA ClearedIsSettled ==
  ASSUME ExecInv, ExecutionNext, NEW s \in Slots, slot[s].job # NoJob, claimFile'[Mine(s)] = 0, claimFile[Mine(s)] # 0,
         slot'[s].at # slot[s].at
  PROVE  ~Holds(s)
<1> USE ExecutionAssumption
<1>1. claimFile' # claimFile
  OBVIOUS
<1>2. /\ slot[s] \in Attempt /\ KnowsHub(s, slot[s], job, tokens) /\ slot \in [Slots -> Attempt] /\ slot[s].job \in Jobs
      /\ claimFile \in [Jobs -> 0 .. TokenBound]
  BY OfSlot DEF DiskTyped, Attempt
<1>3. PICK x \in Slots : Begin(x) \/ Yielded(x) \/ Asked(x) \/ Reported(x) \/ AnswerLost(x) \/ FailureReported(x)
  <2>1. ASSUME NEW x \in Slots, \/ \E j \in Jobs : Claim(x, j)
                                \/ \E f \in Files : Edit(x, f)
                                \/ AbandonClaim(x) \/ CheckFile(x) \/ AllChecked(x) \/ Preempt(x) \/ Yield(x)
                                \/ CheckLease(x) \/ ListOwners(x) \/ Finish(x) \/ Throw(x) \/ Attribute(x) \/ LeaveRunning(x)
        PROVE  claimFile' = claimFile
    BY <2>1 DEF Claim, Edit, AbandonClaim, CheckFile, AllChecked, Preempt, Yield, CheckLease, ListOwners, Finish, Throw,
         Attribute, LeaveRunning, disk
  <2>2. ASSUME NEW x \in Slots, Ask(x) \/ Report(x) \/ LoseReport(x) \/ ReportFailure(x) \/ Leave(x) \/ Stop(x)
        PROVE  claimFile' = claimFile
    BY <2>2 DEF Ask, Report, LoseReport, ReportFailure, Leave, Stop, disk
  <2>3. ASSUME NEW j \in Jobs, Lapse(j) \/ Reopen(j)
        PROVE  claimFile' = claimFile
    BY <2>3 DEF Lapse, Reopen
  <2> QED
    BY <1>1, <2>1, <2>2, <2>3 DEF ExecutionNext
<1>4. \E at : Goes(x, at)
  BY <1>3 DEF Begin, Yielded, Asked, Reported, AnswerLost, FailureReported, Clear
<1>5. x = s
  BY <1>2, <1>4 DEF Goes
<1>6. CASE Begin(x)
  <2>1. claimFile'[Mine(s)] = slot[s].token
    BY <1>2, <1>5, <1>6 DEF Begin, Mine
  <2>2. slot[s].token \in 1 .. tokens
    BY <1>2 DEF KnowsHub
  <2>3. tokens \in Int
    BY DEF ExecInv, HubTyped
  <2> QED
    BY <2>1, <2>2, <2>3
<1>7. CASE Yielded(x) \/ Asked(x)
  BY <1>2, <1>5, <1>7 DEF Yielded, Asked, KnowsHub, Holds, Mine
<1>8. CASE Reported(x) \/ AnswerLost(x)
  <2>1. slot[s].at = "sent" /\ (slot[s].took \/ Confirmed(s))
    BY <1>1, <1>5, <1>8 DEF Reported, AnswerLost
  <2>2. slot[s].verdict \in Over /\ job[Mine(s)].status = slot[s].verdict
    BY <2>1, ReportFound
  <2> QED
    BY <2>2 DEF Holds, Over
<1>9. CASE FailureReported(x)
  <2>1. slot[s].at = "failSent" /\ slot[s].took = TRUE
    BY <1>1, <1>2, <1>5, <1>9 DEF FailureReported, Attempt
  <2> QED
    BY <1>2, <2>1 DEF KnowsHub, Holds, Mine
<1> QED
  BY <1>3, <1>6, <1>7, <1>8, <1>9

LEMMA ExecSafeStep ==
  ASSUME ExecInv, [ExecutionNext]_executionVars
  PROVE  [\A s \in Slots :
            slot[s].job # NoJob /\ claimFile'[Mine(s)] = 0 /\ claimFile[Mine(s)] # 0 /\ slot'[s].at # slot[s].at
            => ~Holds(s)]_executionVars
  BY ClearedIsSettled

\* The variables of the worker's attempts keep their types (ClaimContext, the claim and progress files).
THEOREM ExecutionTypes == ExecutionSpec => []ExecutionTypeOK
<1>1. ExecutionInit => ExecInv
  BY ExecInitially
<1>2. ExecInv /\ [ExecutionNext]_executionVars => ExecInv'
  BY ExecKeeps, ExecUnchanged
<1>3. ExecInv => ExecutionTypeOK
  BY ExecTyped
<1> QED
  BY <1>1, <1>2, <1>3, PTL DEF ExecutionSpec

\* `done' is only said of changes that are the task's or another's, a claim gets one verdict
\* however its report is lost, the progress file reports only closed claims, and the claim
\* file is removed only of a claim the hub has settled (BaseWorker's execution of a task).
THEOREM Execution_Safe == ExecutionSpec => ExecutionIsSafe
<1>1. ExecutionInit => ExecInv
  BY ExecInitially
<1>2. ExecInv /\ [ExecutionNext]_executionVars => ExecInv'
  BY ExecKeeps, ExecUnchanged
<1>3. ExecInv => (\A s \in Slots : slot[s].verdict = "done" =>
          /\ slot[s].told \subseteq Owns(Mine(s))
          /\ slot[s].mine \ Owns(Mine(s)) \subseteq slot[s].others)
  BY ExecSafeState
<1>4. ExecInv => (\A s \in Slots : Cardinality(slot[s].said) <= 1)
  BY ExecSafeState
<1>5. ExecInv => (\A j \in Jobs : progress[j].delivery \in {"reported", "confirmed"} =>
          job[j].status = progress[j].verdict /\ job[j].token = progress[j].token)
  BY ExecSafeState
<1>6. ExecInv /\ [ExecutionNext]_executionVars =>
       [\A s \in Slots :
          slot[s].job # NoJob /\ claimFile'[Mine(s)] = 0 /\ claimFile[Mine(s)] # 0 /\ slot'[s].at # slot[s].at
          => ~Holds(s)]_executionVars
  BY ExecSafeStep
<1> QED
  BY <1>1, <1>2, <1>3, <1>4, <1>5, <1>6, PTL DEF ExecutionSpec, ExecutionIsSafe, ClearedWhenSettled

-----------------------------------------------------------------------------
(* ---- AcceptanceReverify ---- *)

\* The limit, and the attempts there may be after d decisions of the PM.
Limit == Max({1, MaxReverifies})
Now(d) == {g \in Gens : d = 0 => g <= Limit}

\* What a root, and a request's reading of it, may name.
RootOK(r, d) ==
  /\ r \in Root /\ r.at \in Now(d) /\ r.generation \in Now(d) /\ r.history \subseteq Now(d)
  /\ d = 0 => r.continued = NoSnapshot

RequestRow == [steps : Seq(JobSteps), root : Root, gen : Gens, why : Why, over : BOOLEAN,
               result : {"none", "task", "pm"}, targets : SUBSET Gens, repairs : SUBSET Fixes]
RequestOK(t, d) ==
  /\ t \in RequestRow /\ RootOK(t.root, d) /\ t.gen \in Now(d) /\ t.targets \subseteq Now(d)
  /\ d = 0 => t.over = FALSE

\* Attempts: none past the limit, none reviewed in the future.
AttemptsOK(as, d, n) ==
  /\ as \in [Gens -> AttemptRecord]
  /\ \A g \in Gens : (as[g].state # "absent" => g \in Now(d)) /\ as[g].time <= n
FixesOK == fix \in [Fixes -> Fix]
LooksOK == looked \subseteq Reverifiers \X Gens
CountOK == count \in [reviews : Nat, decisions : 0 .. DecisionBound, sweeps : 0 .. SweepBound, crashes : 0 .. CrashBound,
                       diverted : BOOLEAN]
LockOK == rootLock \in Requests \cup {NoRequest}
RequestsOK(d) == todo \in [Requests -> RequestRow] /\ \A c \in Requests : RequestOK(todo[c], d)

RevInv ==
  /\ CountOK /\ LockOK /\ RootOK(root, count.decisions) /\ AttemptsOK(attempt, count.decisions, count.reviews)
  /\ FixesOK /\ LooksOK /\ RequestsOK(count.decisions)

LEMMA LimitIs == Limit \in Nat /\ 1 <= Limit
<1> USE ReverifyAssumption
<1>1. {1, MaxReverifies} \in SUBSET (0 .. MaxReverifies + 1) /\ {1, MaxReverifies} # {} /\ MaxReverifies + 1 \in Nat
  OBVIOUS
<1>2. Limit \in {1, MaxReverifies} /\ \A n \in {1, MaxReverifies} : n <= Limit
  BY <1>1, GreatestExists DEF Limit
<1> QED
  BY <1>2

\* The newest of some attempts is one of them.
LEMMA NewestIs ==
  ASSUME NEW H, H \subseteq Gens, H # {}
  PROVE  Max(H) \in H
  BY GreatestExists, ReverifyAssumption DEF Gens

LEMMA NowIs ==
  ASSUME NEW d
  PROVE  0 \in Now(d) /\ Now(d) \subseteq Gens
  BY LimitIs, ReverifyAssumption DEF Now, Gens

LEMMA NoRootIs ==
  ASSUME NEW d
  PROVE  RootOK(NoRoot, d)
<1>1. NoSnapshot \in Snapshot
  BY ReverifyAssumption DEF NoSnapshot, Snapshot, Why, Gens
<1>2. NoRoot \in Root
  BY <1>1, ReverifyAssumption DEF NoRoot, Root, Why, Gens
<1>3. NoRoot.at = 0 /\ NoRoot.generation = 0 /\ NoRoot.history = {} /\ NoRoot.continued = NoSnapshot
  BY DEF NoRoot
<1> QED
  BY <1>2, <1>3, NowIs DEF RootOK

LEMMA IdleIs ==
  ASSUME NEW d
  PROVE  RequestOK(Idle0, d)
<1>1. RootOK(NoRoot, d)
  BY NoRootIs
<1>2. Idle0 \in RequestRow
  BY <1>1, NowIs, EmptySeq, ReverifyAssumption DEF Idle0, RequestRow, RootOK, Why, Gens
<1>3. Idle0.root = NoRoot /\ Idle0.gen = 0 /\ Idle0.targets = {} /\ Idle0.over = FALSE
  BY DEF Idle0
<1> QED
  BY <1>1, <1>2, <1>3, NowIs DEF RequestOK

LEMMA RevInitially ==
  ASSUME ReverifyInit
  PROVE  RevInv
<1> USE ReverifyAssumption
<1>1. CountOK /\ count.decisions = 0 /\ count.reviews = 0
  BY DEF ReverifyInit, CountOK
<1>2. LockOK /\ LooksOK
  BY DEF ReverifyInit, LockOK, LooksOK
<1>3. RootOK(root, count.decisions)
  BY NoRootIs DEF ReverifyInit
<1>4. PICK a \in Reverifiers : attempt = [g \in Gens |->
       [state |-> IF g = 0 THEN "running" ELSE "absent", verdict |-> "none",
        by |-> IF g = 0 THEN a ELSE Nobody, time |-> 0, offered |-> FALSE]]
  BY DEF ReverifyInit
<1>5. attempt \in [Gens -> AttemptRecord]
  BY <1>4 DEF AttemptRecord, States
<1>6. \A g \in Gens : (attempt[g].state # "absent" => g = 0) /\ attempt[g].time = 0
  BY <1>4
<1>7. AttemptsOK(attempt, count.decisions, count.reviews)
  BY <1>1, <1>5, <1>6, NowIs DEF AttemptsOK
<1>8. FixesOK
  BY DEF ReverifyInit, FixesOK, Fix, Gens
<1>9. RequestsOK(count.decisions)
  BY IdleIs DEF ReverifyInit, RequestsOK, RequestOK
<1> QED
  BY <1>1, <1>2, <1>3, <1>7, <1>8, <1>9 DEF RevInv

\* The steps that remain are steps.
LEMMA LeftIs3 ==
  ASSUME NEW t \in RequestRow, t.steps # <<>>, NEW steps \in Seq(JobSteps)
  PROVE  steps \o Tail(t.steps) \in Seq(JobSteps) /\ Head(t.steps) \in JobSteps
<1>1. t.steps \in Seq(JobSteps)
  BY DEF RequestRow
<1> QED
  BY <1>1, HeadTailProperties, ConcatProperties

\* What a request keeps of what it knows.
LEMMA KeepingIs ==
  ASSUME NEW t, NEW d, RequestOK(t, d), NEW steps \in Seq(JobSteps)
  PROVE  RequestOK(Keeping(t, steps), d)
<1> DEFINE over == t.over /\ Uses(steps, {"read", "current", "gate"})
           r == IF Uses(steps, {"marks", "current", "gate", "make", "create", "write"}) THEN t.root ELSE NoRoot
           g == IF Uses(steps, {"asks", "await", "make", "create", "publish", "write", "sweep", "resolve"}) THEN t.gen ELSE 0
           why == IF Uses(steps, {"needs", "asks"}) THEN t.why ELSE "none"
           result == IF Uses(steps, {"audit", "check"}) THEN t.result ELSE "none"
           targets == IF Uses(steps, {"kill", "kills"}) THEN t.targets ELSE {}
           repairs == IF Uses(steps, {"mark", "marks", "close", "restore"}) THEN t.repairs ELSE {}
<1>1. Keeping(t, steps) = [steps |-> steps, over |-> over, root |-> r, gen |-> g, why |-> why, result |-> result,
                           targets |-> targets, repairs |-> repairs]
  BY DEF Keeping
<1>2. /\ t \in RequestRow /\ RootOK(t.root, d) /\ RootOK(NoRoot, d) /\ t.gen \in Now(d) /\ 0 \in Now(d)
      /\ t.targets \subseteq Now(d)
  BY NoRootIs, NowIs DEF RequestOK
<1>3. /\ RootOK(r, d) /\ g \in Now(d) /\ targets \subseteq Now(d) /\ why \in Why
      /\ result \in {"none", "task", "pm"} /\ repairs \in SUBSET Fixes
  BY <1>2 DEF RequestRow, Why
<1>4. over \in BOOLEAN /\ (d = 0 => over = FALSE)
  BY DEF RequestOK
<1> HIDE DEF over, r, g, why, result, targets, repairs
<1>5. r \in Root /\ g \in Gens /\ targets \in SUBSET Gens
  BY <1>3, NowIs DEF RootOK
<1>6. Keeping(t, steps) \in RequestRow
  BY <1>1, <1>3, <1>4, <1>5 DEF RequestRow
<1> QED
  BY <1>1, <1>3, <1>4, <1>6 DEF RequestOK

\* A request that goes on with `new' and these steps.
LEMMA GoesOn ==
  ASSUME RevInv, NEW c \in Requests, ~Idle(c), NEW steps \in Seq(JobSteps), NEW new, RequestOK(new, count.decisions),
         Continues(c, steps, new), Unlocks(c, steps), count'.decisions = count.decisions
  PROVE  RequestsOK(count.decisions)' /\ LockOK'
<1>1. todo \in [Requests -> RequestRow] /\ (\A x \in Requests : RequestOK(todo[x], count.decisions)) /\ LockOK
  BY DEF RevInv, RequestsOK
<1>2. LockOK'
  BY <1>1 DEF Unlocks, LockOK
<1>3. Left(c, steps) \in Seq(JobSteps)
  BY <1>1, LeftIs3 DEF Left, Idle
<1>4. PICK t : t = Keeping(new, Left(c, steps))
  OBVIOUS
<1>5. RequestOK(t, count.decisions)
  BY <1>3, <1>4, KeepingIs
<1>6. todo' = [todo EXCEPT ![c] = t]
  BY <1>4 DEF Continues
<1>7. todo' \in [Requests -> RequestRow] /\ \A x \in Requests : RequestOK(todo'[x], count.decisions)
  BY <1>1, <1>5, <1>6 DEF RequestOK
<1> QED
  BY <1>2, <1>7 DEF RequestsOK

LEMMA OnTodo ==
  ASSUME RevInv, NEW c \in Requests, ~Idle(c), NEW steps \in Seq(JobSteps), NEW new, RequestOK(new, count.decisions),
         On(c, steps, new)
  PROVE  RequestsOK(count.decisions)' /\ LockOK' /\ CountOK' /\ count' = count
<1>1. count' = count /\ Continues(c, steps, new) /\ Unlocks(c, steps)
  BY DEF On
<1>2. CountOK'
  BY <1>1 DEF RevInv, CountOK
<1> QED
  BY <1>1, <1>2, GoesOn

\* A request that begins.
LEMMA StartsTodo ==
  ASSUME RevInv, NEW c \in Requests, NEW steps \in Seq(JobSteps), NEW new, RequestOK(new, count.decisions),
         Starts(c, steps, new), count'.decisions = count.decisions
  PROVE  RequestsOK(count.decisions)'
<1>1. todo \in [Requests -> RequestRow] /\ \A x \in Requests : RequestOK(todo[x], count.decisions)
  BY DEF RevInv, RequestsOK
<1> DEFINE t == [new EXCEPT !.steps = steps]
<1>2. t \in RequestRow
  BY DEF RequestOK, RequestRow
<1>3. t.root = new.root /\ t.gen = new.gen /\ t.targets = new.targets /\ t.over = new.over
  BY DEF RequestOK, RequestRow
<1>4. todo' = [todo EXCEPT ![c] = t]
  BY DEF Starts
<1> HIDE DEF t
<1>5. RequestOK(t, count.decisions)
  BY <1>2, <1>3 DEF RequestOK
<1>6. \A x \in Requests : RequestOK(todo'[x], count.decisions)
  BY <1>1, <1>4, <1>5
<1> QED
  BY <1>1, <1>2, <1>4, <1>6 DEF RequestsOK

LEMMA OfRequest ==
  ASSUME RevInv, NEW c \in Requests
  PROVE  /\ todo[c] \in RequestRow /\ RequestOK(todo[c], count.decisions) /\ RootOK(todo[c].root, count.decisions)
         /\ root \in Root /\ RootOK(root, count.decisions) /\ todo[c].gen \in Gens /\ todo[c].gen \in Now(count.decisions)
         /\ attempt \in [Gens -> AttemptRecord] /\ fix \in [Fixes -> Fix] /\ count.reviews \in Nat
         /\ count.decisions \in 0 .. DecisionBound
  BY DEF RevInv, RequestsOK, RequestOK, RequestRow, RootOK, AttemptsOK, FixesOK, CountOK

\* The tasks as they are.
LEMMA TasksStay ==
  ASSUME RevInv, UNCHANGED Tasks0, count' = count
  PROVE  AttemptsOK(attempt, count.decisions, count.reviews)' /\ FixesOK' /\ LooksOK'
  BY DEF RevInv, Tasks0, AttemptsOK, FixesOK, LooksOK

\* A step that only moves a request on.
LEMMA QuietStep ==
  ASSUME RevInv, NEW c \in Requests, ~Idle(c), NEW steps \in Seq(JobSteps), NEW new, RequestOK(new, count.decisions),
         On(c, steps, new), UNCHANGED <<root, Tasks0>>
  PROVE  RevInv'
<1>1. RequestsOK(count.decisions)' /\ LockOK' /\ CountOK' /\ count' = count
  BY OnTodo
<1>2. root' = root /\ UNCHANGED Tasks0
  OBVIOUS
<1>3. RootOK(root, count.decisions)'
  BY <1>1, <1>2 DEF RevInv
<1> QED
  BY <1>1, <1>2, <1>3, TasksStay DEF RevInv

\* A step that moves a request on and writes the root.
LEMMA RootStep ==
  ASSUME RevInv, NEW c \in Requests, ~Idle(c), NEW steps \in Seq(JobSteps), NEW new, RequestOK(new, count.decisions),
         On(c, steps, new), RootOK(root', count.decisions), UNCHANGED Tasks0
  PROVE  RevInv'
<1>1. RequestsOK(count.decisions)' /\ LockOK' /\ CountOK' /\ count' = count
  BY OnTodo
<1>2. RootOK(root, count.decisions)'
  BY <1>1
<1> QED
  BY <1>1, <1>2, TasksStay DEF RevInv

\* A step that moves a request on and writes attempts.
LEMMA AttemptStep ==
  ASSUME RevInv, NEW c \in Requests, ~Idle(c), NEW steps \in Seq(JobSteps), NEW new, RequestOK(new, count.decisions),
         On(c, steps, new), AttemptsOK(attempt', count.decisions, count.reviews), UNCHANGED <<root, fix, looked>>
  PROVE  RevInv'
<1>1. RequestsOK(count.decisions)' /\ LockOK' /\ CountOK' /\ count' = count
  BY OnTodo
<1>2. RootOK(root, count.decisions)' /\ AttemptsOK(attempt, count.decisions, count.reviews)'
  BY <1>1 DEF RevInv
<1>3. FixesOK' /\ LooksOK'
  BY DEF RevInv, FixesOK, LooksOK
<1> QED
  BY <1>1, <1>2, <1>3 DEF RevInv

\* A step that moves a request on and writes repairs.
LEMMA FixStep ==
  ASSUME RevInv, NEW c \in Requests, ~Idle(c), NEW steps \in Seq(JobSteps), NEW new, RequestOK(new, count.decisions),
         On(c, steps, new), fix' \in [Fixes -> Fix], UNCHANGED <<root, attempt, looked>>
  PROVE  RevInv'
<1>1. RequestsOK(count.decisions)' /\ LockOK' /\ CountOK' /\ count' = count
  BY OnTodo
<1>2. RootOK(root, count.decisions)' /\ AttemptsOK(attempt, count.decisions, count.reviews)' /\ LooksOK' /\ FixesOK'
  BY <1>1 DEF RevInv, LooksOK, FixesOK
<1> QED
  BY <1>1, <1>2 DEF RevInv

\* Requests with some fields set.
LEMMA SetsWhy ==
  ASSUME NEW t, NEW d, RequestOK(t, d), NEW why \in Why
  PROVE  RequestOK([t EXCEPT !.why = why], d)
  BY DEF RequestOK, RequestRow

LEMMA SetsResult ==
  ASSUME NEW t, NEW d, RequestOK(t, d), NEW result \in {"none", "task", "pm"}
  PROVE  RequestOK([t EXCEPT !.result = result], d)
  BY DEF RequestOK, RequestRow

LEMMA SetsGen ==
  ASSUME NEW t, NEW d, RequestOK(t, d), NEW g \in Now(d)
  PROVE  RequestOK([t EXCEPT !.gen = g], d)
<1>1. g \in Gens
  BY NowIs
<1> QED
  BY <1>1 DEF RequestOK, RequestRow

LEMMA SetsGenResult ==
  ASSUME NEW t, NEW d, RequestOK(t, d), NEW g \in Now(d), NEW result \in {"none", "task", "pm"}
  PROVE  RequestOK([t EXCEPT !.gen = g, !.result = result], d)
<1>1. g \in Gens
  BY NowIs
<1> QED
  BY <1>1 DEF RequestOK, RequestRow

LEMMA SetsTargets ==
  ASSUME NEW t, NEW d, RequestOK(t, d), NEW targets, targets \subseteq Now(d)
  PROVE  RequestOK([t EXCEPT !.targets = targets], d)
<1>1. targets \in SUBSET Gens
  BY NowIs
<1> QED
  BY <1>1 DEF RequestOK, RequestRow

LEMMA SetsTargetsWhy ==
  ASSUME NEW t, NEW d, RequestOK(t, d), NEW targets, targets \subseteq Now(d), NEW why \in Why
  PROVE  RequestOK([t EXCEPT !.targets = targets, !.why = why], d)
<1>1. targets \in SUBSET Gens
  BY NowIs
<1> QED
  BY <1>1 DEF RequestOK, RequestRow

LEMMA SetsRepairs ==
  ASSUME NEW t, NEW d, RequestOK(t, d), NEW repairs \in SUBSET Fixes
  PROVE  RequestOK([t EXCEPT !.repairs = repairs], d)
  BY DEF RequestOK, RequestRow

LEMMA SetsRoot ==
  ASSUME NEW t, NEW d, RequestOK(t, d), NEW r, RootOK(r, d), NEW result \in {"none", "task", "pm"}
  PROVE  RequestOK([t EXCEPT !.root = r, !.result = result], d) /\ RequestOK([t EXCEPT !.root = r], d)
  BY DEF RequestOK, RequestRow, RootOK

\* The step sequences of the requests.
LEMMA StepsAre ==
  /\ <<>> \in Seq(JobSteps)
  /\ \A a, b, c, d \in JobSteps : /\ <<a>> \in Seq(JobSteps) /\ <<a, b>> \in Seq(JobSteps)
                                  /\ <<a, b, c>> \in Seq(JobSteps) /\ <<a, b, c, d>> \in Seq(JobSteps)
  OBVIOUS

\* A root whose state and reason change.
LEMMA RootMoves ==
  ASSUME NEW r, NEW d, RootOK(r, d), NEW state \in {"none", "required", "repairing", "needs", "resolved"},
         NEW why \in Why, NEW at \in Now(d), NEW s, s = [r EXCEPT !.state = state, !.why = why, !.at = at]
  PROVE  RootOK(s, d)
<1>1. at \in Gens
  BY NowIs
<1>2. s \in Root
  BY <1>1 DEF RootOK, Root
<1>3. s.at = at /\ s.generation = r.generation /\ s.history = r.history /\ s.continued = r.continued
  BY DEF RootOK, Root
<1> QED
  BY <1>2, <1>3 DEF RootOK

\* Where a root points when it did not point anywhere.
LEMMA PointsAt ==
  ASSUME NEW r, NEW d, RootOK(r, d)
  PROVE  (IF r.at # 0 \/ r.history = {} THEN r.at ELSE Max(r.history)) \in Now(d)
<1>1. r.at \in Now(d) /\ r.history \subseteq Now(d) /\ r.history \subseteq Gens
  BY NowIs DEF RootOK
<1>2. CASE r.at # 0 \/ r.history = {}
  BY <1>1, <1>2
<1>3. CASE ~(r.at # 0 \/ r.history = {})
  <2>1. Max(r.history) \in r.history
    BY <1>1, <1>3, NewestIs
  <2> QED
    BY <1>1, <1>3, <2>1
<1> QED
  BY <1>2, <1>3

LEMMA AskReadsKeeps ==
  ASSUME RevInv, NEW c \in Requests, AskReads(c)
  PROVE  RevInv'
<1> DEFINE d == count.decisions
<1>1. PICK at : at = LastOf(root)
  OBVIOUS
<1>2. ~Idle(c) /\ On(c, <<"asks">>, [todo[c] EXCEPT !.gen = at]) /\ UNCHANGED <<root, Tasks0>> /\ "asks" \in JobSteps
  BY <1>1 DEF AskReads, Does, JobSteps
<1>3. RequestOK(todo[c], d) /\ RootOK(root, d)
  BY OfRequest
<1>4. at \in Now(d)
  BY <1>1, <1>3, PointsAt DEF LastOf
<1>5. RequestOK([todo[c] EXCEPT !.gen = at], d)
  BY <1>3, <1>4, SetsGen
<1> QED
  BY <1>2, <1>5, StepsAre, QuietStep

\* What the request read may be old by now.
LEMMA AskPmKeeps ==
  ASSUME RevInv, NEW c \in Requests, AskPm(c)
  PROVE  RevInv'
<1> DEFINE d == count.decisions
<1>1. /\ ~Idle(c) /\ Continues(c, <<>>, [todo[c] EXCEPT !.result = "pm"]) /\ Unlocks(c, <<>>) /\ UNCHANGED Tasks0
      /\ root' = [root EXCEPT !.state = "needs", !.why = todo[c].why, !.at = todo[c].gen]
  BY DEF AskPm, Does
<1>2. RequestOK(todo[c], d) /\ RootOK(root, d) /\ todo[c].why \in Why /\ root \in Root /\ todo[c].gen \in Now(d)
  BY OfRequest DEF RequestRow
<1>3. CountOK
  BY DEF RevInv
<1>4. PICK b : b = (count.diverted \/ (todo[c].gen # LastOf(root) /\ \E h \in Gens \ {todo[c].gen} : Standing(attempt[h])))
  OBVIOUS
<1>5. b \in BOOLEAN
  BY <1>3, <1>4 DEF CountOK
<1>6. count' = [count EXCEPT !.diverted = b]
  BY <1>4 DEF AskPm
<1>7. CountOK' /\ count'.decisions = d /\ count'.reviews = count.reviews
  BY <1>3, <1>5, <1>6 DEF CountOK
<1>8. RequestOK([todo[c] EXCEPT !.result = "pm"], d)
  BY <1>2, SetsResult
<1>9. RequestsOK(count.decisions)' /\ LockOK'
  BY <1>1, <1>7, <1>8, StepsAre, GoesOn
<1>10. RootOK(root', d)
  BY <1>1, <1>2, RootMoves
<1>11. AttemptsOK(attempt, count.decisions, count.reviews)' /\ FixesOK' /\ LooksOK' /\ RootOK(root, count.decisions)'
  BY <1>1, <1>7, <1>10 DEF RevInv, Tasks0, FixesOK, LooksOK
<1> QED
  BY <1>7, <1>9, <1>11 DEF RevInv

LEMMA MarkReadsKeeps ==
  ASSUME RevInv, NEW c \in Requests, MarkReads(c)
  PROVE  RevInv'
<1> DEFINE d == count.decisions
<1>1. ~Idle(c) /\ UNCHANGED <<root, Tasks0>> /\ "marks" \in JobSteps
  BY DEF MarkReads, Does, JobSteps
<1>2. RequestOK(todo[c], d) /\ RootOK(root, d)
  BY OfRequest
<1>3. RequestOK([todo[c] EXCEPT !.root = root], d)
  BY <1>2, SetsRoot
<1>4. CASE On(c, <<>>, todo[c])
  BY <1>1, <1>2, <1>4, StepsAre, QuietStep
<1>5. CASE On(c, <<"marks">>, [todo[c] EXCEPT !.root = root])
  BY <1>1, <1>3, <1>5, StepsAre, QuietStep
<1> QED
  BY <1>4, <1>5 DEF MarkReads, Same

LEMMA MarkWritesKeeps ==
  ASSUME RevInv, NEW c \in Requests, MarkWrites(c)
  PROVE  RevInv'
<1> DEFINE d == count.decisions
<1>1. ~Idle(c) /\ UNCHANGED Tasks0 /\ On(c, <<>>, todo[c])
  BY DEF MarkWrites, Does, Same
<1>2. /\ RequestOK(todo[c], d) /\ RootOK(todo[c].root, d) /\ RootOK(root, d) /\ todo[c].repairs \in SUBSET Fixes
      /\ todo[c].root \in Root /\ root \in Root
  BY OfRequest DEF RequestRow
<1>3. PICK seen, at, state, why, repairs :
        /\ seen = todo[c].root /\ repairs = seen.repairs \cup todo[c].repairs
        /\ at = IF seen.at # 0 \/ seen.history = {} THEN seen.at ELSE Max(seen.history)
        /\ state = IF todo[c].repairs = {} THEN "needs" ELSE "repairing"
        /\ why = IF todo[c].repairs = {} THEN seen.why ELSE "none"
  OBVIOUS
<1>4. root' = [root EXCEPT !.state = state, !.why = why, !.at = at, !.history = seen.history,
                           !.generation = seen.generation, !.repairs = repairs]
  BY <1>3 DEF MarkWrites
<1>5. /\ RootOK(seen, d) /\ at \in Now(d) /\ at \in Gens /\ why \in Why /\ state \in {"needs", "repairing"}
      /\ repairs \in SUBSET Fixes
  BY <1>2, <1>3, PointsAt, NowIs DEF Root, Why
<1>6. root' \in Root
  BY <1>2, <1>4, <1>5 DEF Root, RootOK
<1>7. root'.at = at /\ root'.history = seen.history /\ root'.generation = seen.generation /\ root'.continued = root.continued
  BY <1>2, <1>4 DEF Root
<1>8. RootOK(root', d)
  BY <1>2, <1>5, <1>6, <1>7 DEF RootOK
<1> QED
  BY <1>1, <1>2, <1>8, StepsAre, RootStep

LEMMA KillReadsKeeps ==
  ASSUME RevInv, NEW c \in Requests, KillReads(c)
  PROVE  RevInv'
<1> DEFINE d == count.decisions
<1>1. ~Idle(c) /\ UNCHANGED <<root, Tasks0>> /\ "kills" \in JobSteps
  BY DEF KillReads, Does, JobSteps
<1>2. RequestOK(todo[c], d)
  BY OfRequest
<1>3. PICK found : found = {g \in todo[c].targets \ {0} : attempt[g].state = "pending"}
  OBVIOUS
<1>4. found \subseteq Now(d)
  BY <1>2, <1>3 DEF RequestOK
<1>5. RequestOK([todo[c] EXCEPT !.targets = found], d)
  BY <1>2, <1>4, SetsTargets
<1>6. On(c, <<>>, todo[c]) \/ On(c, <<"kills">>, [todo[c] EXCEPT !.targets = found])
  BY <1>3 DEF KillReads, Same
<1>7. CASE On(c, <<>>, todo[c])
  BY <1>1, <1>2, <1>7, StepsAre, QuietStep
<1>8. CASE On(c, <<"kills">>, [todo[c] EXCEPT !.targets = found])
  BY <1>1, <1>5, <1>8, StepsAre, QuietStep
<1> QED
  BY <1>6, <1>7, <1>8

LEMMA KillWritesKeeps ==
  ASSUME RevInv, NEW c \in Requests, KillWrites(c)
  PROVE  RevInv'
<1> DEFINE d == count.decisions
<1>1. /\ ~Idle(c) /\ UNCHANGED <<root, fix, looked>> /\ On(c, <<>>, todo[c])
      /\ attempt' = [g \in Gens |-> IF g \notin todo[c].targets THEN attempt[g]
                                    ELSE [attempt[g] EXCEPT !.state = "cancelled", !.offered = FALSE]]
  BY DEF KillWrites, Does, Same
<1>2. RequestOK(todo[c], d) /\ AttemptsOK(attempt, d, count.reviews)
  BY OfRequest DEF RevInv
<1>3. attempt' \in [Gens -> AttemptRecord]
  BY <1>1, <1>2 DEF AttemptsOK, AttemptRecord, States
<1>4. \A g \in Gens : /\ attempt'[g].time = attempt[g].time
                      /\ g \notin todo[c].targets => attempt'[g] = attempt[g]
  BY <1>1, <1>2 DEF AttemptsOK, AttemptRecord
<1>5. AttemptsOK(attempt', d, count.reviews)
  BY <1>2, <1>3, <1>4 DEF AttemptsOK, RequestOK
<1> QED
  BY <1>1, <1>2, <1>5, StepsAre, AttemptStep

LEMMA EnsureReadKeeps ==
  ASSUME RevInv, NEW c \in Requests, EnsureRead(c)
  PROVE  RevInv'
<1> DEFINE d == count.decisions
<1>1. ~Idle(c) /\ UNCHANGED <<root, Tasks0>> /\ "current" \in JobSteps
  BY DEF EnsureRead, Does, JobSteps
<1>2. RequestOK(todo[c], d) /\ RootOK(root, d)
  BY OfRequest
<1>3. CASE On(c, <<"current">>, [todo[c] EXCEPT !.root = root, !.result = "none"])
  <2>1. RequestOK([todo[c] EXCEPT !.root = root, !.result = "none"], d)
    BY <1>2, SetsRoot
  <2> QED
    BY <1>1, <1>3, <2>1, StepsAre, QuietStep
<1>4. CASE On(c, <<>>, [todo[c] EXCEPT !.result = "none"])
  <2>1. RequestOK([todo[c] EXCEPT !.result = "none"], d)
    BY <1>2, SetsResult
  <2> QED
    BY <1>1, <1>4, <2>1, StepsAre, QuietStep
<1> QED
  BY <1>3, <1>4 DEF EnsureRead

LEMMA EnsureCurrentKeeps ==
  ASSUME RevInv, NEW c \in Requests, EnsureCurrent(c)
  PROVE  RevInv'
<1> DEFINE d == count.decisions
<1>1. ~Idle(c) /\ UNCHANGED <<root, Tasks0>> /\ {"sweep", "resolve", "gate", "publish", "kill", "needs"} \subseteq JobSteps
  BY DEF EnsureCurrent, Does, JobSteps
<1>2. RequestOK(todo[c], d) /\ RootOK(todo[c].root, d)
  BY OfRequest
<1>3. PICK g : g = todo[c].root.at
  OBVIOUS
<1>4. g \in Now(d) /\ {g} \subseteq Now(d) /\ "gate" \in Why
  BY <1>2, <1>3 DEF RootOK, Why
<1>5. RequestOK([todo[c] EXCEPT !.gen = g, !.result = "task"], d)
  BY <1>2, <1>4, SetsGenResult
<1>6. RequestOK([todo[c] EXCEPT !.targets = {g}, !.why = "gate"], d)
  BY <1>2, <1>4, SetsTargetsWhy
<1>7. \/ On(c, <<"sweep", "resolve">>, [todo[c] EXCEPT !.gen = g, !.result = "task"])
      \/ On(c, <<"gate">>, todo[c]) \/ On(c, <<>>, todo[c])
      \/ On(c, <<"publish">>, [todo[c] EXCEPT !.gen = g, !.result = "task"])
      \/ On(c, <<"kill", "needs">>, [todo[c] EXCEPT !.targets = {g}, !.why = "gate"])
  BY <1>3 DEF EnsureCurrent, Same
<1>8. CASE On(c, <<"sweep", "resolve">>, [todo[c] EXCEPT !.gen = g, !.result = "task"])
  BY <1>1, <1>5, <1>8, StepsAre, QuietStep
<1>9. CASE On(c, <<"gate">>, todo[c])
  BY <1>1, <1>2, <1>9, StepsAre, QuietStep
<1>10. CASE On(c, <<>>, todo[c])
  BY <1>1, <1>2, <1>10, StepsAre, QuietStep
<1>11. CASE On(c, <<"publish">>, [todo[c] EXCEPT !.gen = g, !.result = "task"])
  BY <1>1, <1>5, <1>11, StepsAre, QuietStep
<1>12. CASE On(c, <<"kill", "needs">>, [todo[c] EXCEPT !.targets = {g}, !.why = "gate"])
  BY <1>1, <1>6, <1>12, StepsAre, QuietStep
<1> QED
  BY <1>7, <1>8, <1>9, <1>10, <1>11, <1>12

\* Only a decision of the PM goes past the limit.
LEMMA EnsureGateKeeps ==
  ASSUME RevInv, NEW c \in Requests, EnsureGate(c)
  PROVE  RevInv'
<1> DEFINE d == count.decisions
<1>1. ~Idle(c) /\ UNCHANGED <<root, Tasks0>> /\ {"needs", "make"} \subseteq JobSteps
  BY DEF EnsureGate, Does, JobSteps
<1>2. RequestOK(todo[c], d) /\ RootOK(todo[c].root, d) /\ d \in Nat
  BY OfRequest, ReverifyAssumption
<1>3. {"gate", "limit"} \subseteq Why
  BY DEF Why
<1>4. CASE On(c, <<>>, todo[c])
  BY <1>1, <1>2, <1>4, StepsAre, QuietStep
<1>5. ASSUME NEW why \in {"gate", "limit"}, On(c, <<"needs">>, [todo[c] EXCEPT !.why = why])
      PROVE  RevInv'
  <2>1. RequestOK([todo[c] EXCEPT !.why = why], d)
    BY <1>2, <1>3, SetsWhy
  <2> QED
    BY <1>1, <1>5, <2>1, StepsAre, QuietStep
<1>6. ASSUME todo[c].root.generation < MaxGen, On(c, <<"make">>, [todo[c] EXCEPT !.gen = todo[c].root.generation + 1]),
             ~(LimitReached(todo[c].root) /\ ~todo[c].over)
      PROVE  RevInv'
  <2>1. PICK n, g : n = todo[c].root.generation /\ g = n + 1
    OBVIOUS
  <2>2. n \in 0 .. MaxGen /\ n \in Int /\ MaxGen \in Int
    BY <1>2, <2>1, ReverifyAssumption DEF RootOK, Now, Gens
  <2>3. g \in Gens
    BY <1>6, <2>1, <2>2, ReverifyAssumption DEF Gens
  <2>4. d = 0 => g <= Limit
    <3> SUFFICES ASSUME d = 0 PROVE g <= Limit
      OBVIOUS
    <3>1. ~todo[c].over
      BY <1>2 DEF RequestOK
    <3>2. ~(n >= Limit)
      BY <1>6, <2>1, <3>1 DEF LimitReached, Limit
    <3> QED
      BY <2>1, <2>2, <3>2, LimitIs
  <2>5. g \in Now(d)
    BY <2>3, <2>4 DEF Now
  <2>6. RequestOK([todo[c] EXCEPT !.gen = g], d)
    BY <1>2, <2>5, SetsGen
  <2> QED
    BY <1>1, <1>6, <2>1, <2>6, StepsAre, QuietStep
<1> QED
  BY <1>4, <1>5, <1>6 DEF EnsureGate, Same

LEMMA EnsureMakeKeeps ==
  ASSUME RevInv, NEW c \in Requests, EnsureMake(c)
  PROVE  RevInv'
<1> DEFINE d == count.decisions
<1>1. ~Idle(c) /\ UNCHANGED <<root, Tasks0>> /\ {"create", "needs", "publish", "write", "sweep", "resolve"} \subseteq JobSteps
  BY DEF EnsureMake, Does, JobSteps
<1>2. RequestOK(todo[c], d) /\ "collision" \in Why
  BY OfRequest DEF Why
<1>3. RequestOK([todo[c] EXCEPT !.result = "task"], d) /\ RequestOK([todo[c] EXCEPT !.why = "collision"], d)
  BY <1>2, SetsResult, SetsWhy
<1>4. \/ On(c, <<"create">>, todo[c]) \/ On(c, <<"needs">>, [todo[c] EXCEPT !.why = "collision"])
      \/ On(c, <<"publish", "write", "sweep", "resolve">>, [todo[c] EXCEPT !.result = "task"])
      \/ On(c, <<"publish", "write">>, [todo[c] EXCEPT !.result = "task"])
  BY DEF EnsureMake, Same
<1>5. CASE On(c, <<"create">>, todo[c])
  BY <1>1, <1>2, <1>5, StepsAre, QuietStep
<1>6. CASE On(c, <<"needs">>, [todo[c] EXCEPT !.why = "collision"])
  BY <1>1, <1>3, <1>6, StepsAre, QuietStep
<1>7. CASE On(c, <<"publish", "write", "sweep", "resolve">>, [todo[c] EXCEPT !.result = "task"])
  BY <1>1, <1>3, <1>7, StepsAre, QuietStep
<1>8. CASE On(c, <<"publish", "write">>, [todo[c] EXCEPT !.result = "task"])
  BY <1>1, <1>3, <1>8, StepsAre, QuietStep
<1> QED
  BY <1>4, <1>5, <1>6, <1>7, <1>8

\* One attempt's state and offer change.
LEMMA AttemptMoves ==
  ASSUME NEW d, NEW n \in Nat, AttemptsOK(attempt, d, n), NEW g \in Now(d), NEW r \in AttemptRecord,
         r.time <= n, attempt' = [attempt EXCEPT ![g] = r]
  PROVE  AttemptsOK(attempt', d, n)
<1>1. g \in Gens
  BY NowIs
<1> QED
  BY <1>1 DEF AttemptsOK

LEMMA EnsureCreateKeeps ==
  ASSUME RevInv, NEW c \in Requests, EnsureCreate(c)
  PROVE  RevInv'
<1> DEFINE d == count.decisions
<1>1. ~Idle(c) /\ UNCHANGED <<root, fix, looked>> /\ {"read", "publish", "write"} \subseteq JobSteps
  BY DEF EnsureCreate, Does, JobSteps
<1>2. RequestOK(todo[c], d) /\ AttemptsOK(attempt, d, count.reviews) /\ count.reviews \in Nat
  BY OfRequest DEF RevInv
<1>3. PICK g : g = todo[c].gen
  OBVIOUS
<1>4. g \in Now(d) /\ g \in Gens
  BY <1>2, <1>3, NowIs DEF RequestOK
<1>5. CASE attempt[g].state # "absent"
  <2>1. On(c, <<"read">>, todo[c]) /\ attempt' = attempt
    BY <1>3, <1>5 DEF EnsureCreate, Same
  <2> QED
    BY <1>1, <1>2, <2>1, StepsAre, AttemptStep
<1>6. CASE attempt[g].state = "absent"
  <2>1. attempt' = [attempt EXCEPT ![g].state = "pending"] /\ On(c, <<"publish", "write">>, [todo[c] EXCEPT !.result = "task"])
    BY <1>3, <1>6 DEF EnsureCreate
  <2>2. attempt[g] \in AttemptRecord /\ attempt[g].time <= count.reviews
    BY <1>2, <1>4 DEF AttemptsOK
  <2> DEFINE r == [attempt[g] EXCEPT !.state = "pending"]
  <2>3. r \in AttemptRecord /\ r.time = attempt[g].time
    BY <2>2 DEF AttemptRecord, States
  <2>4. attempt' = [attempt EXCEPT ![g] = r]
    BY <2>1
  <2> HIDE DEF r
  <2>5. AttemptsOK(attempt', d, count.reviews)
    BY <1>2, <1>4, <2>2, <2>3, <2>4, AttemptMoves
  <2>6. RequestOK([todo[c] EXCEPT !.result = "task"], d)
    BY <1>2, SetsResult
  <2> QED
    BY <1>1, <2>1, <2>5, <2>6, StepsAre, AttemptStep
<1> QED
  BY <1>5, <1>6

LEMMA PublishKeeps ==
  ASSUME RevInv, NEW c \in Requests, Publish(c)
  PROVE  RevInv'
<1> DEFINE d == count.decisions
<1>1. ~Idle(c) /\ UNCHANGED <<root, fix, looked>> /\ On(c, <<>>, todo[c])
  BY DEF Publish, Does, Same
<1>2. RequestOK(todo[c], d) /\ AttemptsOK(attempt, d, count.reviews) /\ count.reviews \in Nat
  BY OfRequest DEF RevInv
<1>3. PICK g : g = todo[c].gen
  OBVIOUS
<1>4. g \in Now(d) /\ g \in Gens
  BY <1>2, <1>3, NowIs DEF RequestOK
<1>5. attempt[g] \in AttemptRecord /\ attempt[g].time <= count.reviews
  BY <1>2, <1>4 DEF AttemptsOK
<1> DEFINE r == [attempt[g] EXCEPT !.offered = attempt[g].offered \/ attempt[g].state = "pending"]
<1>6. r \in AttemptRecord /\ r.time = attempt[g].time
  <2>1. (attempt[g].offered \/ attempt[g].state = "pending") \in BOOLEAN
    BY <1>5 DEF AttemptRecord
  <2> QED
    BY <1>5, <2>1 DEF AttemptRecord
<1>7. attempt' = [attempt EXCEPT ![g] = r]
  BY <1>2, <1>3, <1>4 DEF Publish, AttemptsOK
<1> HIDE DEF r
<1>8. AttemptsOK(attempt', d, count.reviews)
  BY <1>2, <1>4, <1>5, <1>6, <1>7, AttemptMoves
<1> QED
  BY <1>1, <1>2, <1>8, StepsAre, AttemptStep

LEMMA EnsureWriteKeeps ==
  ASSUME RevInv, NEW c \in Requests, EnsureWrite(c)
  PROVE  RevInv'
<1> DEFINE d == count.decisions
<1>1. ~Idle(c) /\ UNCHANGED Tasks0 /\ On(c, <<>>, todo[c])
  BY DEF EnsureWrite, Does, Same
<1>2. RequestOK(todo[c], d) /\ RootOK(root, d) /\ RootOK(todo[c].root, d) /\ root \in Root
  BY OfRequest
<1>3. PICK g, history : g = todo[c].gen /\ history = todo[c].root.history \cup {g}
  OBVIOUS
<1>4. g \in Now(d) /\ g \in Gens /\ history \subseteq Now(d) /\ history \in SUBSET Gens
  BY <1>2, <1>3, NowIs DEF RequestOK, RootOK
<1>5. root' = [root EXCEPT !.state = "required", !.why = "none", !.at = g, !.history = history, !.generation = g]
  BY <1>3 DEF EnsureWrite
<1>6. root' \in Root
  BY <1>2, <1>4, <1>5 DEF Root, Why
<1>7. root'.at = g /\ root'.history = history /\ root'.generation = g /\ root'.continued = root.continued
  BY <1>2, <1>5 DEF Root
<1>8. RootOK(root', d)
  BY <1>2, <1>4, <1>6, <1>7 DEF RootOK
<1> QED
  BY <1>1, <1>2, <1>8, StepsAre, RootStep

LEMMA SweepSiblingsKeeps ==
  ASSUME RevInv, NEW c \in Requests, SweepSiblings(c)
  PROVE  RevInv'
<1> DEFINE d == count.decisions
<1>1. /\ ~Idle(c) /\ UNCHANGED <<root, Tasks0>> /\ "kill" \in JobSteps
      /\ On(c, <<"kill">>, [todo[c] EXCEPT !.targets = root.history \ {todo[c].gen}])
  BY DEF SweepSiblings, Does, JobSteps
<1>2. RequestOK(todo[c], d) /\ RootOK(root, d)
  BY OfRequest
<1>3. root.history \ {todo[c].gen} \subseteq Now(d)
  BY <1>2 DEF RootOK
<1>4. RequestOK([todo[c] EXCEPT !.targets = root.history \ {todo[c].gen}], d)
  BY <1>2, <1>3, SetsTargets
<1> QED
  BY <1>1, <1>4, StepsAre, QuietStep

LEMMA ResolveRootKeeps ==
  ASSUME RevInv, NEW c \in Requests, ResolveRoot(c)
  PROVE  RevInv'
<1> DEFINE d == count.decisions
<1>1. /\ ~Idle(c) /\ UNCHANGED Tasks0 /\ On(c, <<>>, todo[c])
      /\ root' = [root EXCEPT !.state = "resolved", !.why = "none", !.at = todo[c].gen, !.continued = NoSnapshot]
  BY DEF ResolveRoot, Does, Same
<1>2. RequestOK(todo[c], d) /\ RootOK(root, d) /\ root \in Root /\ todo[c].gen \in Now(d) /\ todo[c].gen \in Gens
  BY OfRequest
<1>3. NoSnapshot \in Snapshot
  BY ReverifyAssumption DEF NoSnapshot, Snapshot, Why, Gens
<1>4. root' \in Root
  BY <1>1, <1>2, <1>3 DEF Root, Why
<1>5. root'.at = todo[c].gen /\ root'.history = root.history /\ root'.generation = root.generation /\ root'.continued = NoSnapshot
  BY <1>1, <1>2 DEF Root
<1>6. RootOK(root', d)
  BY <1>2, <1>4, <1>5 DEF RootOK
<1> QED
  BY <1>1, <1>2, <1>6, StepsAre, RootStep

\* A step of an agent: no request moves.
LEMMA AgentStep ==
  ASSUME RevInv, UNCHANGED <<root, todo, rootLock, count>>,
         AttemptsOK(attempt', count.decisions, count.reviews), fix' \in [Fixes -> Fix],
         looked' \subseteq Reverifiers \X Gens
  PROVE  RevInv'
<1>1. root' = root /\ todo' = todo /\ rootLock' = rootLock /\ count' = count
  OBVIOUS
<1>2. RootOK(root, count.decisions)' /\ CountOK' /\ LockOK' /\ AttemptsOK(attempt, count.decisions, count.reviews)'
  BY <1>1 DEF RevInv, CountOK, LockOK
<1>3. RequestsOK(count.decisions)'
  BY <1>1 DEF RevInv, RequestsOK
<1> QED
  BY <1>2, <1>3 DEF RevInv, FixesOK, LooksOK

LEMMA LookKeeps ==
  ASSUME RevInv, NEW a \in Reverifiers, NEW g \in Gens, Look(a, g)
  PROVE  RevInv'
<1>1. UNCHANGED <<root, todo, rootLock, count>> /\ attempt' = attempt /\ fix' = fix /\ looked' = looked \cup {<<a, g>>}
  BY DEF Look
<1>2. AttemptsOK(attempt', count.decisions, count.reviews) /\ fix' \in [Fixes -> Fix] /\ looked' \subseteq Reverifiers \X Gens
  BY <1>1 DEF RevInv, FixesOK, LooksOK
<1> QED
  BY <1>1, <1>2, AgentStep

LEMMA TakeAttemptKeeps ==
  ASSUME RevInv, NEW a \in Reverifiers, NEW g \in Gens, TakeAttempt(a, g)
  PROVE  RevInv'
<1> DEFINE d == count.decisions
<1>1. UNCHANGED <<root, todo, rootLock, count>> /\ fix' = fix /\ looked' \subseteq looked
  BY DEF TakeAttempt
<1>2. fix' \in [Fixes -> Fix] /\ looked' \subseteq Reverifiers \X Gens /\ AttemptsOK(attempt, d, count.reviews) /\ count.reviews \in Nat
  BY <1>1 DEF RevInv, FixesOK, LooksOK, CountOK
<1>3. CASE attempt[g].state # "pending"
  <2>1. attempt' = attempt
    BY <1>3 DEF TakeAttempt
  <2> QED
    BY <1>1, <1>2, <2>1, AgentStep
<1>4. CASE attempt[g].state = "pending"
  <2>1. attempt' = [attempt EXCEPT ![g].state = "running", ![g].by = a, ![g].offered = FALSE]
    BY <1>4 DEF TakeAttempt
  <2>2. attempt[g] \in AttemptRecord /\ attempt[g].time <= count.reviews /\ g \in Now(d) /\ attempt \in [Gens -> AttemptRecord]
    BY <1>2, <1>4 DEF AttemptsOK
  <2> DEFINE r == [attempt[g] EXCEPT !.state = "running", !.by = a, !.offered = FALSE]
  <2>3. r \in AttemptRecord /\ r.time = attempt[g].time
    BY <2>2 DEF AttemptRecord, States
  <2>4. attempt' = [attempt EXCEPT ![g] = r]
    BY <2>1, <2>2
  <2> HIDE DEF r
  <2>5. AttemptsOK(attempt', d, count.reviews)
    BY <1>2, <2>2, <2>3, <2>4, AttemptMoves
  <2> QED
    BY <1>1, <1>2, <2>5, AgentStep
<1> QED
  BY <1>3, <1>4

\* One repair changes.
LEMMA FixMoves ==
  ASSUME RevInv, NEW r \in Fixes, NEW t \in Fix, fix' = [fix EXCEPT ![r] = t]
  PROVE  fix' \in [Fixes -> Fix]
  BY DEF RevInv, FixesOK

LEMMA TakeFixKeeps ==
  ASSUME RevInv, NEW a \in Reverifiers, NEW r \in Fixes, TakeFix(a, r)
  PROVE  RevInv'
<1>1. /\ UNCHANGED <<root, todo, rootLock, count>> /\ attempt' = attempt /\ looked' \subseteq looked
      /\ fix' = [fix EXCEPT ![r].state = "running", ![r].by = a]
  BY DEF TakeFix
<1>2. AttemptsOK(attempt', count.decisions, count.reviews) /\ looked' \subseteq Reverifiers \X Gens /\ fix \in [Fixes -> Fix]
  BY <1>1 DEF RevInv, FixesOK, LooksOK
<1> DEFINE t == [fix[r] EXCEPT !.state = "running", !.by = a]
<1>3. t \in Fix
  BY <1>2 DEF Fix
<1>4. fix' = [fix EXCEPT ![r] = t]
  BY <1>1, <1>2
<1> HIDE DEF t
<1>5. fix' \in [Fixes -> Fix]
  BY <1>3, <1>4, FixMoves
<1> QED
  BY <1>1, <1>2, <1>5, AgentStep

LEMMA DeliverFixKeeps ==
  ASSUME RevInv, NEW r \in Fixes, DeliverFix(r)
  PROVE  RevInv'
<1>1. /\ UNCHANGED <<root, todo, rootLock, count>> /\ attempt' = attempt /\ looked' = looked
      /\ fix' = [fix EXCEPT ![r].state = "done"]
  BY DEF DeliverFix
<1>2. AttemptsOK(attempt', count.decisions, count.reviews) /\ looked' \subseteq Reverifiers \X Gens /\ fix \in [Fixes -> Fix]
  BY <1>1 DEF RevInv, FixesOK, LooksOK
<1> DEFINE t == [fix[r] EXCEPT !.state = "done"]
<1>3. t \in Fix
  BY <1>2 DEF Fix
<1>4. fix' = [fix EXCEPT ![r] = t]
  BY <1>1, <1>2
<1> HIDE DEF t
<1>5. fix' \in [Fixes -> Fix]
  BY <1>3, <1>4, FixMoves
<1> QED
  BY <1>1, <1>2, <1>5, AgentStep

\* A request begins without a review: a delivery or a failure.
LEMMA BeginStep ==
  ASSUME RevInv, UNCHANGED <<root, fix, looked, rootLock, count>>,
         AttemptsOK(attempt', count.decisions, count.reviews), RequestsOK(count.decisions)'
  PROVE  RevInv'
<1>1. root' = root /\ rootLock' = rootLock /\ count' = count
  OBVIOUS
<1>2. RootOK(root, count.decisions)' /\ CountOK' /\ LockOK' /\ AttemptsOK(attempt, count.decisions, count.reviews)'
  BY <1>1 DEF RevInv, CountOK, LockOK
<1> QED
  BY <1>2 DEF RevInv, FixesOK, LooksOK

LEMMA DeliverKeeps ==
  ASSUME RevInv, NEW c \in Requests, NEW g \in Gens, Deliver(c, g)
  PROVE  RevInv'
<1> DEFINE d == count.decisions
<1>1. /\ UNCHANGED <<root, fix, looked, rootLock, count>> /\ attempt[g].state = "running"
      /\ attempt' = [attempt EXCEPT ![g].state = "done"]
  BY DEF Deliver
<1>2. AttemptsOK(attempt, d, count.reviews) /\ count.reviews \in Nat
  BY DEF RevInv, CountOK
<1>3. attempt[g] \in AttemptRecord /\ attempt[g].time <= count.reviews /\ g \in Now(d)
  BY <1>1, <1>2 DEF AttemptsOK
<1> DEFINE r == [attempt[g] EXCEPT !.state = "done"]
<1>4. r \in AttemptRecord /\ r.time = attempt[g].time
  BY <1>3 DEF AttemptRecord, States
<1>5. attempt' = [attempt EXCEPT ![g] = r]
  BY <1>1
<1> HIDE DEF r
<1>6. AttemptsOK(attempt', d, count.reviews)
  BY <1>2, <1>3, <1>4, <1>5, AttemptMoves
<1>7. RequestsOK(d)'
  <2>1. CASE g = 0
    <3>1. todo' = todo /\ count' = count
      BY <2>1 DEF Deliver
    <3> QED
      BY <3>1 DEF RevInv, RequestsOK
  <2>2. CASE g # 0
    <3>1. Starts(c, <<"await">>, [Idle0 EXCEPT !.gen = g]) /\ count'.decisions = d
      BY <2>2 DEF Deliver
    <3>2. RequestOK([Idle0 EXCEPT !.gen = g], d)
      BY <1>3, IdleIs, SetsGen
    <3>3. "await" \in JobSteps
      BY DEF JobSteps
    <3> QED
      BY <3>1, <3>2, <3>3, StepsAre, StartsTodo
  <2> QED
    BY <2>1, <2>2
<1> QED
  BY <1>1, <1>6, <1>7, BeginStep

LEMMA FailAttemptKeeps ==
  ASSUME RevInv, NEW c \in Requests, NEW g \in Gens, FailAttempt(c, g)
  PROVE  RevInv'
<1> DEFINE d == count.decisions
<1>1. /\ UNCHANGED <<root, fix, looked, rootLock, count>> /\ attempt[g].state = "running"
      /\ attempt' = [attempt EXCEPT ![g].state = "failed", ![g].time = count.reviews]
      /\ Starts(c, <<"needs">>, [Idle0 EXCEPT !.why = "failure"]) /\ count'.decisions = d
  BY DEF FailAttempt
<1>2. AttemptsOK(attempt, d, count.reviews) /\ count.reviews \in Nat
  BY DEF RevInv, CountOK
<1>3. attempt[g] \in AttemptRecord /\ g \in Now(d) /\ attempt \in [Gens -> AttemptRecord]
  BY <1>1, <1>2 DEF AttemptsOK
<1> DEFINE r == [attempt[g] EXCEPT !.state = "failed", !.time = count.reviews]
<1>4. r \in AttemptRecord /\ r.time <= count.reviews
  <2>1. r \in AttemptRecord /\ r.time = count.reviews
    BY <1>2, <1>3 DEF AttemptRecord, States
  <2>2. count.reviews <= count.reviews
    BY <1>2
  <2> QED
    BY <2>1, <2>2
<1>5. attempt' = [attempt EXCEPT ![g] = r]
  BY <1>1, <1>3
<1> HIDE DEF r
<1>6. AttemptsOK(attempt', d, count.reviews)
  BY <1>2, <1>3, <1>4, <1>5, AttemptMoves
<1>7. RequestOK([Idle0 EXCEPT !.why = "failure"], d)
  <2>1. "failure" \in Why
    BY DEF Why
  <2> QED
    BY <2>1, IdleIs, SetsWhy
<1>8. RequestsOK(d)'
  <2>1. "needs" \in JobSteps
    BY DEF JobSteps
  <2> QED
    BY <1>1, <1>7, <2>1, StepsAre, StartsTodo
<1> QED
  BY <1>1, <1>6, <1>8, BeginStep

LEMMA AwaitKeeps ==
  ASSUME RevInv, NEW c \in Requests, Await(c)
  PROVE  RevInv'
<1> DEFINE d == count.decisions
<1>1. ~Idle(c) /\ UNCHANGED Tasks0 /\ On(c, <<>>, todo[c])
  BY DEF Await, Does, Same
<1>2. RequestOK(todo[c], d) /\ RootOK(root, d) /\ root \in Root /\ todo[c].gen \in Now(d) /\ root.why \in Why
  BY OfRequest DEF Root
<1>3. root' = [root EXCEPT !.state = "required", !.why = root.why, !.at = todo[c].gen]
  BY <1>2 DEF Await, Root
<1>4. RootOK(root', d)
  BY <1>2, <1>3, RootMoves
<1> QED
  BY <1>1, <1>2, <1>4, StepsAre, RootStep

\* A step that writes the root, nothing else but a review being counted.
LEMMA ReviewStep ==
  ASSUME RevInv, NEW c \in Requests, NEW g \in Gens, NEW verdict \in {"accepted", "repair", "reverify"},
         NEW steps \in Seq(JobSteps), NEW new, RequestOK(new, count.decisions),
         Review(c, g, verdict, steps, new), RootOK(root', count.decisions)
  PROVE  RevInv'
<1> DEFINE d == count.decisions
<1>1. /\ attempt[g].state = "done" /\ Starts(c, steps, new) /\ LocksFor(c, g, steps) /\ fix' = fix /\ looked' = looked
      /\ attempt' = [attempt EXCEPT ![g] = Reviewed(verdict, @)]
  BY DEF Review
<1>2. AttemptsOK(attempt, d, count.reviews) /\ count.reviews \in Nat /\ CountOK /\ LockOK
  BY DEF RevInv, CountOK
<1>3. PICK n : n = count.reviews + 1
  OBVIOUS
<1>4. n \in Nat /\ n <= n /\ count.reviews <= n
  BY <1>2, <1>3
<1>5. count' = [count EXCEPT !.reviews = n]
  BY <1>3 DEF Review, Counts
<1>6. CountOK' /\ count'.reviews = n /\ count'.decisions = d
  BY <1>2, <1>4, <1>5 DEF CountOK
<1>7. attempt[g] \in AttemptRecord /\ g \in Now(d) /\ attempt \in [Gens -> AttemptRecord]
  BY <1>1, <1>2 DEF AttemptsOK
<1> DEFINE r == [attempt[g] EXCEPT !.verdict = verdict, !.time = n]
<1>8. r \in AttemptRecord /\ r.time = n
  BY <1>4, <1>7 DEF AttemptRecord
<1>9. attempt' = [attempt EXCEPT ![g] = r]
  BY <1>1, <1>3, <1>7 DEF Reviewed
<1> HIDE DEF r
<1>10. AttemptsOK(attempt, d, n)
  <2>1. \A h \in Gens : attempt[h].time \in Nat /\ attempt[h].time <= count.reviews
    BY <1>2 DEF AttemptsOK, AttemptRecord
  <2>2. \A h \in Gens : attempt[h].time <= n
    BY <1>2, <1>4, <2>1
  <2> QED
    BY <1>2, <2>2 DEF AttemptsOK
<1>11. AttemptsOK(attempt', d, n)
  BY <1>4, <1>7, <1>8, <1>9, <1>10, AttemptMoves
<1>12. AttemptsOK(attempt, count.decisions, count.reviews)'
  BY <1>6, <1>11
<1>13. RequestsOK(count.decisions)'
  BY <1>1, <1>6, StartsTodo
<1>14. LockOK'
  BY <1>1, <1>2 DEF LocksFor, LockOK
<1>15. RootOK(root, count.decisions)' /\ FixesOK' /\ LooksOK'
  BY <1>1, <1>6 DEF RevInv, FixesOK, LooksOK
<1> QED
  BY <1>6, <1>12, <1>13, <1>14, <1>15 DEF RevInv

LEMMA AcceptAttemptKeeps ==
  ASSUME RevInv, NEW c \in Requests, NEW g \in Gens, AcceptAttempt(c, g)
  PROVE  RevInv'
<1> DEFINE d == count.decisions
<1>1. PICK steps : steps = IF g = 0 THEN <<>> ELSE <<"sweep", "resolve">>
  OBVIOUS
<1>2. Review(c, g, "accepted", steps, [Idle0 EXCEPT !.gen = g]) /\ root' = root
  BY <1>1 DEF AcceptAttempt
<1>3. steps \in Seq(JobSteps)
  <2>1. {"sweep", "resolve"} \subseteq JobSteps
    BY DEF JobSteps
  <2> QED
    BY <1>1, <2>1, StepsAre
<1>4. g \in Now(d)
  BY <1>2 DEF Review, RevInv, AttemptsOK
<1>5. RequestOK([Idle0 EXCEPT !.gen = g], d)
  BY <1>4, IdleIs, SetsGen
<1>6. RootOK(root', d)
  BY <1>2 DEF RevInv
<1> QED
  BY <1>2, <1>3, <1>5, <1>6, ReviewStep

LEMMA RejectRepairKeeps ==
  ASSUME RevInv, NEW c \in Requests, NEW g \in Gens, RejectRepair(c, g)
  PROVE  RevInv'
<1> DEFINE d == count.decisions
<1>1. Review(c, g, "repair", <<"mark", "needs">>, [Idle0 EXCEPT !.why = "sources"]) /\ root' = root
  BY DEF RejectRepair
<1>2. {"mark", "needs"} \subseteq JobSteps /\ "sources" \in Why
  BY DEF JobSteps, Why
<1>3. <<"mark", "needs">> \in Seq(JobSteps)
  BY <1>2, StepsAre
<1>4. RequestOK([Idle0 EXCEPT !.why = "sources"], d)
  BY <1>2, IdleIs, SetsWhy
<1>5. RootOK(root', d)
  BY <1>1 DEF RevInv
<1> QED
  BY <1>1, <1>3, <1>4, <1>5, ReviewStep

LEMMA RejectReverifyKeeps ==
  ASSUME RevInv, NEW c \in Requests, NEW g \in Gens, RejectReverify(c, g)
  PROVE  RevInv'
<1> DEFINE d == count.decisions
<1>1. Review(c, g, "reverify", <<"read", "check">>, Idle0)
  BY DEF RejectReverify
<1>2. {"read", "check"} \subseteq JobSteps /\ "none" \in Why
  BY DEF JobSteps, Why
<1>3. <<"read", "check">> \in Seq(JobSteps)
  BY <1>2, StepsAre
<1>4. RequestOK(Idle0, d) /\ RootOK(root, d)
  BY IdleIs DEF RevInv
<1>5. RootOK(root', d)
  <2>1. CASE g # 0
    BY <1>4, <2>1 DEF RejectReverify
  <2>2. CASE g = 0
    <3>1. root' = [root EXCEPT !.state = "required", !.why = "none", !.at = 0]
      BY <2>2 DEF RejectReverify
    <3> QED
      BY <1>2, <1>4, <3>1, NowIs, RootMoves
  <2> QED
    BY <2>1, <2>2
<1> QED
  BY <1>1, <1>3, <1>4, <1>5, ReviewStep

LEMMA CheckScheduledKeeps ==
  ASSUME RevInv, NEW c \in Requests, CheckScheduled(c)
  PROVE  RevInv'
<1> DEFINE d == count.decisions
<1>1. ~Idle(c) /\ UNCHANGED <<root, Tasks0>> /\ "needs" \in JobSteps /\ "schedule" \in Why
  BY DEF CheckScheduled, Does, JobSteps, Why
<1>2. RequestOK(todo[c], d)
  BY OfRequest
<1>3. RequestOK([todo[c] EXCEPT !.why = "schedule"], d)
  BY <1>1, <1>2, SetsWhy
<1>4. CASE On(c, <<>>, todo[c])
  BY <1>1, <1>2, <1>4, StepsAre, QuietStep
<1>5. CASE On(c, <<"needs">>, [todo[c] EXCEPT !.why = "schedule"])
  BY <1>1, <1>3, <1>5, StepsAre, QuietStep
<1> QED
  BY <1>4, <1>5 DEF CheckScheduled, Same

\* A repair is reviewed; its request may begin.
LEMMA FixReviewStep ==
  ASSUME RevInv, NEW r \in Fixes, NEW verdict \in {"accepted", "rejected"},
         fix' = [fix EXCEPT ![r] = Reviewed(verdict, @)], Counts, RequestsOK(count.decisions)',
         UNCHANGED <<root, attempt, looked, rootLock>>
  PROVE  RevInv'
<1> DEFINE d == count.decisions
<1>1. AttemptsOK(attempt, d, count.reviews) /\ count.reviews \in Nat /\ CountOK /\ fix \in [Fixes -> Fix]
  BY DEF RevInv, CountOK, FixesOK
<1>2. PICK n : n = count.reviews + 1
  OBVIOUS
<1>3. n \in Nat /\ count.reviews <= n
  BY <1>1, <1>2
<1>4. count' = [count EXCEPT !.reviews = n]
  BY <1>2 DEF Counts
<1>5. CountOK' /\ count'.reviews = n /\ count'.decisions = d
  BY <1>1, <1>3, <1>4 DEF CountOK
<1> DEFINE t == [fix[r] EXCEPT !.verdict = verdict, !.time = n]
<1>6. t \in Fix
  BY <1>1, <1>3 DEF Fix
<1>7. fix' = [fix EXCEPT ![r] = t]
  BY <1>1, <1>2 DEF Reviewed
<1> HIDE DEF t
<1>8. fix' \in [Fixes -> Fix]
  BY <1>6, <1>7, FixMoves
<1>9. \A h \in Gens : attempt[h].time \in Nat /\ attempt[h].time <= count.reviews
  BY <1>1 DEF AttemptsOK, AttemptRecord
<1>10. \A h \in Gens : attempt[h].time <= n
  BY <1>1, <1>3, <1>9
<1>11. AttemptsOK(attempt, d, n)
  BY <1>1, <1>10 DEF AttemptsOK
<1>12. AttemptsOK(attempt, count.decisions, count.reviews)' /\ RootOK(root, count.decisions)'
  BY <1>5, <1>11 DEF RevInv
<1>13. LockOK' /\ LooksOK' /\ FixesOK'
  BY <1>8 DEF RevInv, LockOK, LooksOK, FixesOK
<1> QED
  BY <1>5, <1>12, <1>13 DEF RevInv

LEMMA AcceptFixKeeps ==
  ASSUME RevInv, NEW c \in Requests, NEW r \in Fixes, AcceptFix(c, r)
  PROVE  RevInv'
<1> DEFINE d == count.decisions
<1>1. /\ fix' = [fix EXCEPT ![r] = Reviewed("accepted", @)] /\ Counts /\ UNCHANGED <<root, attempt, looked, rootLock>>
      /\ Starts(c, <<"close", "read">>, [Idle0 EXCEPT !.repairs = {r}])
  BY DEF AcceptFix
<1>2. {"close", "read"} \subseteq JobSteps /\ {r} \in SUBSET Fixes
  BY DEF JobSteps
<1>3. RequestOK([Idle0 EXCEPT !.repairs = {r}], d)
  BY <1>2, IdleIs, SetsRepairs
<1>4. count'.decisions = d
  BY <1>1 DEF Counts, RevInv, CountOK
<1>5. <<"close", "read">> \in Seq(JobSteps)
  BY <1>2, StepsAre
<1>6. RequestsOK(d)'
  BY <1>1, <1>3, <1>4, <1>5, StartsTodo
<1> QED
  BY <1>1, <1>6, FixReviewStep

LEMMA RejectFixKeeps ==
  ASSUME RevInv, NEW c \in Requests, NEW r \in Fixes, RejectFix(c, r)
  PROVE  RevInv'
<1> DEFINE d == count.decisions
<1>1. fix' = [fix EXCEPT ![r] = Reviewed("rejected", @)] /\ Counts /\ UNCHANGED <<root, attempt, looked, rootLock>>
  BY DEF RejectFix
<1>2. count'.decisions = d
  BY <1>1 DEF Counts, RevInv, CountOK
<1>3. CASE r \in root.repairs /\ root.state # "resolved"
  <2>1. Starts(c, <<"restore", "mark", "needs">>, [Idle0 EXCEPT !.repairs = {r}, !.why = "sources"])
    BY <1>3 DEF RejectFix
  <2>2. {"restore", "mark", "needs"} \subseteq JobSteps /\ {r} \in SUBSET Fixes /\ "sources" \in Why
    BY DEF JobSteps, Why
  <2>3. RequestOK([Idle0 EXCEPT !.repairs = {r}], d)
    BY <2>2, IdleIs, SetsRepairs
  <2>4. RequestOK([Idle0 EXCEPT !.repairs = {r}, !.why = "sources"], d)
    BY <2>2, <2>3, SetsWhy
  <2>5. <<"restore", "mark", "needs">> \in Seq(JobSteps)
    BY <2>2, StepsAre
  <2>6. RequestsOK(d)'
    BY <1>2, <2>1, <2>4, <2>5, StartsTodo
  <2> QED
    BY <1>1, <2>6, FixReviewStep
<1>4. CASE ~(r \in root.repairs /\ root.state # "resolved")
  <2>1. todo' = todo
    BY <1>4 DEF RejectFix
  <2>2. RequestsOK(d)'
    BY <1>2, <2>1 DEF RevInv, RequestsOK
  <2> QED
    BY <1>1, <2>2, FixReviewStep
<1> QED
  BY <1>3, <1>4

LEMMA CloseSourceKeeps ==
  ASSUME RevInv, NEW c \in Requests, CloseSource(c)
  PROVE  RevInv'
<1> DEFINE d == count.decisions
<1>1. /\ ~Idle(c) /\ UNCHANGED <<root, attempt, looked>> /\ On(c, <<>>, [todo[c] EXCEPT !.repairs = {}])
      /\ fix' = [r \in Fixes |-> IF r \in todo[c].repairs THEN [fix[r] EXCEPT !.open = FALSE] ELSE fix[r]]
  BY DEF CloseSource, Does
<1>2. RequestOK(todo[c], d) /\ fix \in [Fixes -> Fix]
  BY OfRequest
<1>3. fix' \in [Fixes -> Fix]
  BY <1>1, <1>2 DEF Fix
<1>4. RequestOK([todo[c] EXCEPT !.repairs = {}], d)
  BY <1>2, SetsRepairs
<1> QED
  BY <1>1, <1>3, <1>4, StepsAre, FixStep

\* After a decision every attempt may be there.
LEMMA Decided ==
  ASSUME NEW d, NEW e, e # 0
  PROVE  /\ Now(e) = Gens
         /\ \A r : RootOK(r, d) => RootOK(r, e)
         /\ \A t : RequestOK(t, d) => RequestOK(t, e)
         /\ \A as, n : AttemptsOK(as, d, n) => AttemptsOK(as, e, n)
<1>1. Now(e) = Gens
  BY DEF Now
<1>2. \A r : RootOK(r, d) => RootOK(r, e)
  BY <1>1 DEF RootOK, Root
<1>3. \A t : RequestOK(t, d) => RequestOK(t, e)
  BY <1>1, <1>2 DEF RequestOK, RequestRow
<1>4. \A as, n : AttemptsOK(as, d, n) => AttemptsOK(as, e, n)
  BY <1>1 DEF AttemptsOK
<1> QED
  BY <1>1, <1>2, <1>3, <1>4

LEMMA ContinueKeeps ==
  ASSUME RevInv, NEW c \in Requests, Continue(c)
  PROVE  RevInv'
<1> DEFINE d == count.decisions
<1>1. PICK e, k : /\ e = count.decisions + 1
                  /\ k = [why |-> root.why, generation |-> root.generation, repairs |-> root.repairs,
                          history |-> root.history]
  OBVIOUS
<1>2. /\ root' = [root EXCEPT !.state = "repairing", !.continued = k] /\ count' = [count EXCEPT !.decisions = e]
      /\ Starts(c, <<"perform", "audit">>, Idle0) /\ UNCHANGED Tasks0 /\ rootLock' = c /\ d < DecisionBound
  BY <1>1 DEF Continue
<1>3. CountOK /\ d \in 0 .. DecisionBound /\ root \in Root /\ RootOK(root, d)
  BY OfRequest DEF RevInv
<1>4. e \in 0 .. DecisionBound /\ e # 0
  BY <1>1, <1>2, <1>3, ReverifyAssumption
<1>5. CountOK' /\ count'.decisions = e /\ count'.reviews = count.reviews
  BY <1>2, <1>3, <1>4 DEF CountOK
<1>6. RootOK(root, e) /\ RequestOK(Idle0, e)
  BY <1>3, <1>4, Decided, IdleIs
<1>7. k \in Snapshot
  BY <1>1, <1>3 DEF Root, Snapshot
<1>8. root' \in Root
  BY <1>2, <1>3, <1>7 DEF Root
<1>9. root'.at = root.at /\ root'.generation = root.generation /\ root'.history = root.history
  BY <1>2, <1>3 DEF Root
<1>10. RootOK(root', e)
  BY <1>4, <1>6, <1>8, <1>9 DEF RootOK
<1>11. AttemptsOK(attempt', e, count.reviews)
  <2>1. attempt' = attempt
    BY <1>2 DEF Tasks0
  <2> QED
    BY <1>4, <2>1, Decided DEF RevInv
<1>12. FixesOK' /\ LooksOK' /\ LockOK'
  BY <1>2 DEF RevInv, FixesOK, LooksOK, LockOK, Tasks0
<1>13. todo \in [Requests -> RequestRow] /\ \A x \in Requests : RequestOK(todo[x], e)
  BY <1>4, Decided DEF RevInv, RequestsOK
<1> DEFINE t == [Idle0 EXCEPT !.steps = <<"perform", "audit">>]
<1>14. RequestOK(t, e)
  <2>1. {"perform", "audit"} \subseteq JobSteps
    BY DEF JobSteps
  <2>2. <<"perform", "audit">> \in Seq(JobSteps)
    BY <2>1, StepsAre
  <2>3. t \in RequestRow
    BY <1>6, <2>2 DEF RequestOK, RequestRow
  <2>4. t.root = Idle0.root /\ t.gen = Idle0.gen /\ t.targets = Idle0.targets /\ t.over = Idle0.over
    BY DEF Idle0
  <2> QED
    BY <1>6, <2>3, <2>4 DEF RequestOK
<1>15. todo' = [todo EXCEPT ![c] = t]
  BY <1>2 DEF Starts
<1> HIDE DEF t
<1>16. todo' \in [Requests -> RequestRow] /\ \A x \in Requests : RequestOK(todo'[x], e)
  BY <1>13, <1>14, <1>15 DEF RequestOK
<1>17. RequestsOK(e)'
  BY <1>16 DEF RequestsOK
<1> QED
  BY <1>5, <1>10, <1>11, <1>12, <1>16 DEF RevInv, RequestsOK

\* Only a decision of the PM is performed.
LEMMA PerformReverifyKeeps ==
  ASSUME RevInv, NEW c \in Requests, PerformReverify(c)
  PROVE  RevInv'
<1> DEFINE d == count.decisions
<1>1. /\ ~Idle(c) /\ UNCHANGED <<root, Tasks0>> /\ On(c, <<"read">>, [todo[c] EXCEPT !.over = TRUE])
      /\ root.continued.why \in {"limit", "failure"} /\ "read" \in JobSteps
  BY DEF PerformReverify, Does, JobSteps
<1>2. RequestOK(todo[c], d) /\ RootOK(root, d)
  BY OfRequest
<1>3. d # 0
  BY <1>1, <1>2 DEF RootOK, NoSnapshot
<1>4. RequestOK([todo[c] EXCEPT !.over = TRUE], d)
  BY <1>2, <1>3 DEF RequestOK, RequestRow
<1> QED
  BY <1>1, <1>4, StepsAre, QuietStep

\* A repair is made for the last review that demands one.
LEMMA TriggerIs ==
  ASSUME RevInv
  PROVE  \E g \in Gens : \A h \in Gens :
           attempt[h].verdict = "repair" => attempt[g].verdict = "repair" /\ attempt[h].time <= attempt[g].time
<1> DEFINE D == {h \in Gens : attempt[h].verdict = "repair"}
           T == {attempt[h].time : h \in D}
<1>1. /\ count.reviews \in Nat
      /\ \A h \in Gens : attempt[h].time \in Nat /\ attempt[h].time <= count.reviews
  BY DEF RevInv, CountOK, AttemptsOK, AttemptRecord
<1>2. CASE D = {}
  <2>1. 0 \in Gens
    BY NowIs
  <2> QED
    BY <1>2, <2>1
<1>3. CASE D # {}
  <2>1. T \in SUBSET (0 .. count.reviews) /\ T # {}
    BY <1>1, <1>3
  <2>2. PICK K \in Nat : K = count.reviews
    BY <1>1
  <2>3. Max(T) \in T /\ \A n \in T : n <= Max(T)
    <3>1. T \in SUBSET (0 .. K)
      BY <2>1, <2>2
    <3> HIDE DEF T
    <3> QED
      BY <2>1, <3>1, GreatestExists
  <2>4. PICK g \in D : attempt[g].time = Max(T)
    BY <2>3
  <2>5. \A h \in D : attempt[h].time <= attempt[g].time
    BY <2>3, <2>4
  <2> QED
    BY <2>4, <2>5
<1> QED
  BY <1>2, <1>3

LEMMA PerformRepairKeeps ==
  ASSUME RevInv, NEW c \in Requests, NEW r \in Fixes, PerformRepair(c, r)
  PROVE  RevInv'
<1> DEFINE d == count.decisions
<1>1. /\ ~Idle(c) /\ UNCHANGED <<root, attempt, looked>> /\ On(c, <<"mark">>, [todo[c] EXCEPT !.repairs = {r}, !.result = "task"])
      /\ "mark" \in JobSteps
  BY DEF PerformRepair, Does, JobSteps
<1>2. RequestOK(todo[c], d) /\ fix \in [Fixes -> Fix] /\ count.reviews \in Nat
  BY OfRequest
<1>3. RequestOK([todo[c] EXCEPT !.repairs = {r}, !.result = "task"], d)
  <2>1. RequestOK([todo[c] EXCEPT !.repairs = {r}], d)
    BY <1>2, SetsRepairs
  <2> QED
    BY <2>1, SetsResult
<1>4. fix' \in [Fixes -> Fix]
  <2>1. CASE fix[r].state # "absent"
    BY <1>2, <2>1 DEF PerformRepair
  <2>2. CASE fix[r].state = "absent"
    <3>1. PICK x : x = CHOOSE g \in Gens : \A h \in Gens :
                      attempt[h].verdict = "repair" => attempt[g].verdict = "repair" /\ attempt[h].time <= attempt[g].time
      OBVIOUS
    <3>2. x \in Gens
      BY <3>1, TriggerIs
    <3> DEFINE t == [fix[r] EXCEPT !.state = "pending", !.open = TRUE, !.made = count.reviews, !.trigger = x]
    <3>3. t \in Fix
      BY <1>2, <3>2 DEF Fix
    <3>4. fix' = [fix EXCEPT ![r].state = "pending", ![r].open = TRUE, ![r].made = count.reviews, ![r].trigger = x]
      BY <2>2, <3>1 DEF PerformRepair
    <3>5. fix' = [fix EXCEPT ![r] = t]
      BY <1>2, <3>4
    <3> HIDE DEF t
    <3> QED
      BY <3>3, <3>5, FixMoves
  <2> QED
    BY <2>1, <2>2
<1> QED
  BY <1>1, <1>3, <1>4, StepsAre, FixStep

LEMMA PerformFailsKeeps ==
  ASSUME RevInv, NEW c \in Requests, PerformFails(c)
  PROVE  RevInv'
<1> DEFINE d == count.decisions
<1>1. ~Idle(c) /\ UNCHANGED <<root, Tasks0>> /\ On(c, <<>>, [todo[c] EXCEPT !.result = "none"])
  BY DEF PerformFails, Does
<1>2. RequestOK(todo[c], d)
  BY OfRequest
<1>3. RequestOK([todo[c] EXCEPT !.result = "none"], d)
  BY <1>2, SetsResult
<1> QED
  BY <1>1, <1>3, StepsAre, QuietStep

\* A root whose decision is closed.
LEMMA DecisionClosed ==
  ASSUME NEW r, NEW d, RootOK(r, d), NEW state \in {"none", "required", "repairing", "needs", "resolved"},
         NEW why \in Why, NEW s, s = [r EXCEPT !.state = state, !.why = why, !.continued = NoSnapshot]
  PROVE  RootOK(s, d)
<1>1. NoSnapshot \in Snapshot
  BY ReverifyAssumption DEF NoSnapshot, Snapshot, Why, Gens
<1>2. s \in Root
  BY <1>1 DEF RootOK, Root
<1>3. s.at = r.at /\ s.generation = r.generation /\ s.history = r.history /\ s.continued = NoSnapshot
  BY DEF RootOK, Root
<1> QED
  BY <1>2, <1>3 DEF RootOK

LEMMA AuditKeeps ==
  ASSUME RevInv, NEW c \in Requests, Audit(c)
  PROVE  RevInv'
<1> DEFINE d == count.decisions
<1>1. ~Idle(c) /\ UNCHANGED Tasks0 /\ On(c, <<>>, [todo[c] EXCEPT !.over = FALSE, !.result = "none", !.repairs = {}])
  BY DEF Audit, Does
<1>2. RequestOK(todo[c], d) /\ RootOK(root, d) /\ root \in Root
  BY OfRequest
<1>3. /\ root.state \in {"none", "required", "repairing", "needs", "resolved"} /\ root.why \in Why
      /\ root.continued.why \in Why /\ "needs" \in {"none", "required", "repairing", "needs", "resolved"}
  BY <1>2 DEF Root, Snapshot
<1>4. RequestOK([todo[c] EXCEPT !.over = FALSE, !.result = "none", !.repairs = {}], d)
  BY <1>2 DEF RequestOK, RequestRow
<1>5. ASSUME root' = [root EXCEPT !.continued = NoSnapshot] PROVE RootOK(root', d)
  <2>1. root' = [root EXCEPT !.state = root.state, !.why = root.why, !.continued = NoSnapshot]
    BY <1>2, <1>5 DEF Root
  <2> QED
    BY <1>2, <1>3, <2>1, DecisionClosed
<1>6. ASSUME root' = Restored PROVE RootOK(root', d)
  <2>1. \/ root' = [root EXCEPT !.state = "needs", !.why = root.continued.why, !.continued = NoSnapshot]
        \/ root' = [root EXCEPT !.continued = NoSnapshot] \/ root' = root
    BY <1>6 DEF Restored
  <2>2. CASE root' = [root EXCEPT !.state = "needs", !.why = root.continued.why, !.continued = NoSnapshot]
    BY <1>2, <1>3, <2>2, DecisionClosed
  <2> QED
    BY <1>2, <1>5, <2>1, <2>2
<1>7. root' = root \/ root' = Restored \/ root' = [root EXCEPT !.continued = NoSnapshot]
  BY DEF Audit
<1>8. RootOK(root', d)
  BY <1>2, <1>5, <1>6, <1>7
<1> QED
  BY <1>1, <1>4, <1>8, StepsAre, RootStep

LEMMA SweepKeeps ==
  ASSUME RevInv, NEW c \in Requests, Sweep(c)
  PROVE  RevInv'
<1> DEFINE d == count.decisions
<1>1. /\ Starts(c, <<"recover", "pick", "replay", "read">>, Idle0) /\ UNCHANGED <<root, Tasks0, rootLock>>
      /\ count.sweeps < SweepBound
  BY DEF Sweep
<1>2. PICK n : n = count.sweeps + 1
  OBVIOUS
<1>3. count' = [count EXCEPT !.sweeps = n] /\ CountOK
  BY <1>2 DEF Sweep, RevInv
<1>4. n \in 0 .. SweepBound
  BY <1>1, <1>2, <1>3, ReverifyAssumption DEF CountOK
<1>5. CountOK' /\ count'.decisions = d /\ count'.reviews = count.reviews
  BY <1>3, <1>4 DEF CountOK
<1>6. {"recover", "pick", "replay", "read"} \subseteq JobSteps
  BY DEF JobSteps
<1>7. <<"recover", "pick", "replay", "read">> \in Seq(JobSteps)
  BY <1>6, StepsAre
<1>8. RequestsOK(d)'
  BY <1>1, <1>5, <1>7, IdleIs, StartsTodo
<1>9. AttemptsOK(attempt, count.decisions, count.reviews)' /\ RootOK(root, count.decisions)'
  BY <1>1, <1>5 DEF RevInv, Tasks0
<1>10. LockOK' /\ LooksOK' /\ FixesOK'
  BY <1>1 DEF RevInv, LockOK, LooksOK, FixesOK, Tasks0
<1> QED
  BY <1>5, <1>8, <1>9, <1>10 DEF RevInv

LEMMA DieKeeps ==
  ASSUME RevInv, NEW c \in Requests, Die(c)
  PROVE  RevInv'
<1> DEFINE d == count.decisions
<1>1. /\ todo' = [todo EXCEPT ![c] = Idle0] /\ UNCHANGED <<root, Tasks0>> /\ count.crashes < CrashBound
      /\ rootLock' = IF rootLock = c THEN NoRequest ELSE rootLock
  BY DEF Die
<1>2. PICK n : n = count.crashes + 1
  OBVIOUS
<1>3. count' = [count EXCEPT !.crashes = n] /\ CountOK
  BY <1>2 DEF Die, RevInv
<1>4. n \in 0 .. CrashBound
  BY <1>1, <1>2, <1>3, ReverifyAssumption DEF CountOK
<1>5. CountOK' /\ count'.decisions = d /\ count'.reviews = count.reviews
  BY <1>3, <1>4 DEF CountOK
<1>6. todo \in [Requests -> RequestRow] /\ \A x \in Requests : RequestOK(todo[x], d)
  BY DEF RevInv, RequestsOK
<1>7. RequestOK(Idle0, d) /\ Idle0 \in RequestRow
  BY IdleIs DEF RequestOK
<1>8. todo' \in [Requests -> RequestRow] /\ \A x \in Requests : RequestOK(todo'[x], d)
  BY <1>1, <1>6, <1>7
<1>9. RequestsOK(count.decisions)'
  BY <1>5, <1>8 DEF RequestsOK
<1>10. AttemptsOK(attempt, count.decisions, count.reviews)' /\ RootOK(root, count.decisions)'
  BY <1>1, <1>5 DEF RevInv, Tasks0
<1>11. LockOK' /\ LooksOK' /\ FixesOK'
  BY <1>1 DEF RevInv, LockOK, LooksOK, FixesOK, Tasks0
<1> QED
  BY <1>5, <1>9, <1>10, <1>11 DEF RevInv

LEMMA RecoverKeeps ==
  ASSUME RevInv, NEW c \in Requests, Recover(c)
  PROVE  RevInv'
<1> DEFINE d == count.decisions
<1>1. ~Idle(c) /\ UNCHANGED Tasks0 /\ {"perform", "audit"} \subseteq JobSteps
  BY DEF Recover, Does, JobSteps
<1>2. RequestOK(todo[c], d) /\ RootOK(root, d) /\ root \in Root
  BY OfRequest
<1>3. \/ On(c, <<>>, todo[c]) /\ root' = root
      \/ On(c, <<>>, todo[c]) /\ root' = [root EXCEPT !.continued = NoSnapshot]
      \/ On(c, <<"perform", "audit">>, todo[c]) /\ root' = root
  BY DEF Recover, Same
<1>4. root' = root => RootOK(root', d)
  BY <1>2
<1>5. ASSUME root' = [root EXCEPT !.continued = NoSnapshot] PROVE RootOK(root', d)
  <2>1. /\ root' = [root EXCEPT !.state = root.state, !.why = root.why, !.continued = NoSnapshot]
        /\ root.state \in {"none", "required", "repairing", "needs", "resolved"} /\ root.why \in Why
    BY <1>2, <1>5 DEF Root
  <2> QED
    BY <1>2, <2>1, DecisionClosed
<1>6. RootOK(root', d)
  BY <1>3, <1>4, <1>5
<1>7. CASE On(c, <<>>, todo[c])
  BY <1>1, <1>2, <1>6, <1>7, StepsAre, RootStep
<1>8. CASE On(c, <<"perform", "audit">>, todo[c])
  BY <1>1, <1>2, <1>6, <1>8, StepsAre, RootStep
<1> QED
  BY <1>3, <1>7, <1>8

\* What the sweep picks for a source.
LEMMA PickKeeps ==
  ASSUME RevInv, NEW c \in Requests, NEW s \in Gens, Pick(c, s)
  PROVE  RevInv'
<1> DEFINE d == count.decisions
<1>1. ~Idle(c) /\ UNCHANGED <<root, Tasks0>>
  BY DEF Pick, Does
<1>2. {"kill", "mark", "needs", "reopen", "read", "resume", "publish"} \subseteq JobSteps /\ {"sources", "failure"} \subseteq Why
  BY DEF JobSteps, Why
<1>3. RequestOK(todo[c], d) /\ RootOK(root, d) /\ root \in Root
  BY OfRequest
<1>4. root.at \in Now(d) /\ root.history \subseteq Now(d) /\ {root.at} \subseteq Now(d) /\ {root.at} \cup root.history \subseteq Now(d)
  BY <1>3 DEF RootOK
<1>5. ASSUME NEW steps \in Seq(JobSteps), On(c, steps, todo[c]) PROVE RevInv'
  BY <1>1, <1>3, <1>5, QuietStep
<1>6. ASSUME NEW steps \in Seq(JobSteps), NEW targets, targets \subseteq Now(d), On(c, steps, [todo[c] EXCEPT !.targets = targets])
      PROVE  RevInv'
  <2>1. RequestOK([todo[c] EXCEPT !.targets = targets], d)
    BY <1>3, <1>6, SetsTargets
  <2> QED
    BY <1>1, <1>6, <2>1, QuietStep
<1>7. ASSUME NEW steps \in Seq(JobSteps), NEW why \in Why, On(c, steps, [todo[c] EXCEPT !.why = why])
      PROVE  RevInv'
  <2>1. RequestOK([todo[c] EXCEPT !.why = why], d)
    BY <1>3, SetsWhy
  <2> QED
    BY <1>1, <1>7, <2>1, QuietStep
<1>8. ASSUME NEW steps \in Seq(JobSteps), On(c, steps, [todo[c] EXCEPT !.gen = root.at]) PROVE RevInv'
  <2>1. RequestOK([todo[c] EXCEPT !.gen = root.at], d)
    BY <1>3, <1>4, SetsGen
  <2> QED
    BY <1>1, <1>8, <2>1, QuietStep
<1>9. /\ <<>> \in Seq(JobSteps) /\ <<"kill">> \in Seq(JobSteps) /\ <<"mark">> \in Seq(JobSteps) /\ <<"needs">> \in Seq(JobSteps)
      /\ <<"read">> \in Seq(JobSteps) /\ <<"publish">> \in Seq(JobSteps) /\ <<"reopen", "read">> \in Seq(JobSteps)
      /\ <<"resume", "publish">> \in Seq(JobSteps) /\ <<"mark", "needs">> \in Seq(JobSteps)
      /\ <<"kill", "mark", "needs">> \in Seq(JobSteps)
  BY <1>2, StepsAre
<1>10. ASSUME WhileNeeds(c) PROVE RevInv'
  <2>1. \/ On(c, <<"reopen", "read">>, todo[c]) \/ On(c, <<"needs">>, [todo[c] EXCEPT !.why = "sources"])
        \/ On(c, <<"resume", "publish">>, [todo[c] EXCEPT !.gen = root.at])
        \/ On(c, <<"kill">>, [todo[c] EXCEPT !.targets = {root.at} \cup root.history])
    BY <1>10 DEF WhileNeeds, Same
  <2> QED
    BY <1>2, <1>4, <1>5, <1>6, <1>7, <1>8, <1>9, <2>1
<1>11. ASSUME WhileLive(c) PROVE RevInv'
  <2>1. \/ On(c, <<"publish">>, [todo[c] EXCEPT !.gen = root.at])
        \/ On(c, <<"kill", "mark", "needs">>, [todo[c] EXCEPT !.targets = {root.at}, !.why = "sources"])
    BY <1>11 DEF WhileLive
  <2>2. CASE On(c, <<"publish">>, [todo[c] EXCEPT !.gen = root.at])
    BY <1>8, <1>9, <2>2
  <2>3. CASE On(c, <<"kill", "mark", "needs">>, [todo[c] EXCEPT !.targets = {root.at}, !.why = "sources"])
    <3>1. RequestOK([todo[c] EXCEPT !.targets = {root.at}, !.why = "sources"], d)
      BY <1>2, <1>3, <1>4, SetsTargetsWhy
    <3> QED
      BY <1>1, <1>9, <2>3, <3>1, QuietStep
  <2> QED
    BY <2>1, <2>2, <2>3
<1>12. ASSUME Afresh(c, s) PROVE RevInv'
  <2>1. \/ \E why \in {"sources", "failure"} : On(c, <<"mark", "needs">>, [todo[c] EXCEPT !.why = why])
        \/ On(c, <<"reopen", "read">>, todo[c]) \/ On(c, <<"read">>, todo[c])
    <3>1. Needed(s) \in {"sources", "failure"}
      BY DEF Needed
    <3>2. CASE attempt[s].verdict # "reverify"
      BY <1>12, <3>1, <3>2 DEF Afresh
    <3>3. CASE attempt[s].verdict = "reverify"
      BY <1>12, <3>3 DEF Afresh, Same
    <3> QED
      BY <3>2, <3>3
  <2> QED
    BY <1>2, <1>5, <1>7, <1>9, <2>1
<1>13. ASSUME On(c, <<"mark">>, [todo[c] EXCEPT !.repairs = Selected(root)]) PROVE RevInv'
  <2>1. Selected(root) \in SUBSET Fixes
    BY <1>3 DEF Selected, Root
  <2>2. RequestOK([todo[c] EXCEPT !.repairs = Selected(root)], d)
    BY <1>3, <2>1, SetsRepairs
  <2> QED
    BY <1>1, <1>9, <1>13, <2>2, QuietStep
<1>14. \/ On(c, <<"kill">>, [todo[c] EXCEPT !.targets = root.history]) \/ On(c, <<>>, todo[c])
       \/ On(c, <<"mark">>, [todo[c] EXCEPT !.repairs = Selected(root)])
       \/ WhileNeeds(c) \/ WhileLive(c) \/ Afresh(c, s)
  BY DEF Pick, Same
<1> QED
  BY <1>4, <1>5, <1>6, <1>9, <1>10, <1>11, <1>12, <1>13, <1>14

LEMMA PickNoneKeeps ==
  ASSUME RevInv, NEW c \in Requests, PickNone(c)
  PROVE  RevInv'
<1>1. ~Idle(c) /\ UNCHANGED <<root, Tasks0>> /\ On(c, <<>>, todo[c])
  BY DEF PickNone, Does, Same
<1>2. RequestOK(todo[c], count.decisions)
  BY OfRequest
<1> QED
  BY <1>1, <1>2, StepsAre, QuietStep

LEMMA ReopenRootKeeps ==
  ASSUME RevInv, NEW c \in Requests, ReopenRoot(c)
  PROVE  RevInv'
<1> DEFINE d == count.decisions
<1>1. ~Idle(c) /\ UNCHANGED Tasks0 /\ On(c, <<>>, [todo[c] EXCEPT !.repairs = {}])
  BY DEF ReopenRoot, Does
<1>2. RequestOK(todo[c], d) /\ RootOK(root, d) /\ root \in Root /\ "none" \in Why
  BY OfRequest DEF Why
<1>3. RequestOK([todo[c] EXCEPT !.repairs = {}], d)
  BY <1>2, SetsRepairs
<1>4. PICK at : at = IF Does(c, "resume") THEN root.at ELSE 0
  OBVIOUS
<1>5. at \in Now(d)
  BY <1>2, <1>4, NowIs DEF RootOK
<1>6. root' = [root EXCEPT !.state = "required", !.why = "none", !.at = at]
  BY <1>2, <1>4 DEF ReopenRoot, Root
<1>7. RootOK(root', d)
  BY <1>2, <1>5, <1>6, RootMoves
<1> QED
  BY <1>1, <1>3, <1>7, StepsAre, RootStep

LEMMA ReplayKeeps ==
  ASSUME RevInv, NEW c \in Requests, Replay(c)
  PROVE  RevInv'
<1> DEFINE d == count.decisions
<1>1. ~Idle(c) /\ UNCHANGED <<root, Tasks0>> /\ {"sweep", "resolve", "close"} \subseteq JobSteps
  BY DEF Replay, Does, JobSteps
<1>2. RequestOK(todo[c], d) /\ RootOK(root, d)
  BY OfRequest
<1>3. PICK won, shut : /\ won = {g \in root.history : attempt[g].verdict = "accepted"}
                       /\ shut = {r \in Fixes : fix[r].verdict = "accepted" /\ fix[r].open}
  OBVIOUS
<1>4. PICK one, two, g : /\ one = IF won # {} /\ root.state # "resolved" THEN <<"sweep", "resolve">> ELSE <<>>
                         /\ two = IF shut # {} THEN <<"close">> ELSE <<>>
                         /\ g = IF won = {} THEN 0 ELSE Max(won)
  OBVIOUS
<1>5. On(c, one \o two, [todo[c] EXCEPT !.gen = g, !.repairs = shut])
  BY <1>3, <1>4 DEF Replay
<1>6. one \in Seq(JobSteps) /\ two \in Seq(JobSteps)
  BY <1>1, <1>4, StepsAre
<1>7. one \o two \in Seq(JobSteps)
  BY <1>6, ConcatProperties
<1>8. won \subseteq Now(d) /\ won \subseteq Gens
  BY <1>2, <1>3, NowIs DEF RootOK
<1>9. g \in Now(d)
  <2>1. CASE won = {}
    BY <1>4, <2>1, NowIs
  <2>2. CASE won # {}
    <3>1. Max(won) \in won
      BY <1>8, <2>2, NewestIs
    <3> QED
      BY <1>4, <1>8, <2>2, <3>1
  <2> QED
    BY <2>1, <2>2
<1>10. shut \in SUBSET Fixes
  BY <1>3
<1>11. RequestOK([todo[c] EXCEPT !.gen = g], d)
  BY <1>2, <1>9, SetsGen
<1>12. RequestOK([todo[c] EXCEPT !.gen = g, !.repairs = shut], d)
  BY <1>10, <1>11, SetsRepairs
<1> QED
  BY <1>1, <1>7, <1>5, <1>12, QuietStep

LEMMA RevKeeps ==
  ASSUME RevInv, ReverifyNext
  PROVE  RevInv'
<1>1. CASE \E a \in Reverifiers : \/ \E g \in Gens : Look(a, g) \/ TakeAttempt(a, g)
                                  \/ \E r \in Fixes : TakeFix(a, r)
  BY <1>1, LookKeeps, TakeAttemptKeeps, TakeFixKeeps
<1>2. CASE \E r \in Fixes : DeliverFix(r)
  BY <1>2, DeliverFixKeeps
<1>3. CASE \E c \in Requests : \E g \in Gens : \/ Deliver(c, g) \/ FailAttempt(c, g) \/ Pick(c, g)
                                               \/ AcceptAttempt(c, g) \/ RejectRepair(c, g) \/ RejectReverify(c, g)
  BY <1>3, DeliverKeeps, FailAttemptKeeps, PickKeeps, AcceptAttemptKeeps, RejectRepairKeeps, RejectReverifyKeeps
<1>4. CASE \E c \in Requests : \E r \in Fixes : AcceptFix(c, r) \/ RejectFix(c, r) \/ PerformRepair(c, r)
  BY <1>4, AcceptFixKeeps, RejectFixKeeps, PerformRepairKeeps
<1>5. CASE \E c \in Requests : AskReads(c) \/ AskPm(c) \/ MarkReads(c) \/ MarkWrites(c) \/ KillReads(c) \/ KillWrites(c)
  BY <1>5, AskReadsKeeps, AskPmKeeps, MarkReadsKeeps, MarkWritesKeeps, KillReadsKeeps, KillWritesKeeps
<1>6. CASE \E c \in Requests : EnsureRead(c) \/ EnsureCurrent(c) \/ EnsureGate(c) \/ EnsureMake(c) \/ EnsureCreate(c)
  BY <1>6, EnsureReadKeeps, EnsureCurrentKeeps, EnsureGateKeeps, EnsureMakeKeeps, EnsureCreateKeeps
<1>7. CASE \E c \in Requests : Publish(c) \/ EnsureWrite(c) \/ SweepSiblings(c) \/ ResolveRoot(c) \/ Await(c)
  BY <1>7, PublishKeeps, EnsureWriteKeeps, SweepSiblingsKeeps, ResolveRootKeeps, AwaitKeeps
<1>8. CASE \E c \in Requests : CheckScheduled(c) \/ CloseSource(c) \/ Continue(c) \/ PerformReverify(c) \/ PerformFails(c)
  BY <1>8, CheckScheduledKeeps, CloseSourceKeeps, ContinueKeeps, PerformReverifyKeeps, PerformFailsKeeps
<1>9. CASE \E c \in Requests : \/ Audit(c) \/ Sweep(c) \/ Recover(c) \/ PickNone(c) \/ ReopenRoot(c) \/ Replay(c) \/ Die(c)
  BY <1>9, AuditKeeps, SweepKeeps, RecoverKeeps, PickNoneKeeps, ReopenRootKeeps, ReplayKeeps, DieKeeps
<1> QED
  BY <1>1, <1>2, <1>3, <1>4, <1>5, <1>6, <1>7, <1>8, <1>9 DEF ReverifyNext

LEMMA RevUnchanged ==
  ASSUME RevInv, UNCHANGED reverifyVars
  PROVE  RevInv'
<1>1. /\ root' = root /\ attempt' = attempt /\ fix' = fix /\ looked' = looked /\ todo' = todo
      /\ rootLock' = rootLock /\ count' = count
  BY DEF reverifyVars
<1>2. CountOK' /\ LockOK' /\ FixesOK' /\ LooksOK'
  BY <1>1 DEF RevInv, CountOK, LockOK, FixesOK, LooksOK
<1>3. RootOK(root, count.decisions)' /\ AttemptsOK(attempt, count.decisions, count.reviews)' /\ RequestsOK(count.decisions)'
  BY <1>1 DEF RevInv, RequestsOK
<1> QED
  BY <1>2, <1>3 DEF RevInv

LEMMA RevTyped ==
  ASSUME RevInv
  PROVE  ReverifyTypeOK
<1>1. root \in Root /\ attempt \in [Gens -> AttemptRecord] /\ FixesOK /\ LooksOK /\ LockOK /\ CountOK
  BY DEF RevInv, RootOK, AttemptsOK
<1>2. ASSUME NEW c \in Requests
      PROVE  /\ todo[c].root \in Root /\ todo[c].gen \in Gens /\ todo[c].why \in Why
             /\ todo[c].targets \subseteq Gens /\ todo[c].repairs \subseteq Fixes
             /\ todo[c].result \in {"none", "task", "pm"}
             /\ \A i \in DOMAIN todo[c].steps : todo[c].steps[i] \in JobSteps
  <2>1. todo[c] \in RequestRow
    BY OfRequest
  <2>2. todo[c].steps \in Seq(JobSteps)
    BY <2>1 DEF RequestRow
  <2>3. \A i \in DOMAIN todo[c].steps : todo[c].steps[i] \in JobSteps
    BY <2>2, ElementOfSeq
  <2> QED
    BY <2>1, <2>3 DEF RequestRow
<1> QED
  BY <1>1, <1>2 DEF ReverifyTypeOK, FixesOK, LooksOK, LockOK, CountOK

\* No attempt past the limit is there before a decision.
LEMMA RevLimited ==
  ASSUME RevInv
  PROVE  \A g \in Gens : g > Limit /\ count.decisions = 0 => attempt[g].state = "absent"
<1>1. AttemptsOK(attempt, count.decisions, count.reviews)
  BY DEF RevInv
<1>2. \A g \in Gens : g > Limit /\ count.decisions = 0 => ~(g <= Limit)
  BY LimitIs, ReverifyAssumption DEF Gens
<1> QED
  BY <1>1, <1>2 DEF AttemptsOK, Now

\* The variables of the chain of attempts keep their types, whatever requests, sweeps and
\* crashes do to the root in between (ensureAcceptanceReverifyTask, reconcileResolutionBacklog).
THEOREM ReverifyTypes == ReverifySpec => []ReverifyTypeOK
<1>1. ReverifyInit => RevInv
  BY RevInitially
<1>2. RevInv /\ [ReverifyNext]_reverifyVars => RevInv'
  BY RevKeeps, RevUnchanged
<1>3. RevInv => ReverifyTypeOK
  BY RevTyped
<1> QED
  BY <1>1, <1>2, <1>3, PTL DEF ReverifySpec

\* Past the retry limit no attempt is made before the PM has decided to go on, however many
\* requests, sweeps and crashes there are (the limit of ensureAcceptanceReverifyTask).
THEOREM LimitAsksThePm == ReverifySpec => LimitNeedsDecision
<1>1. ReverifyInit => RevInv
  BY RevInitially
<1>2. RevInv /\ [ReverifyNext]_reverifyVars => RevInv'
  BY RevKeeps, RevUnchanged
<1>3. RevInv => (\A g \in Gens : g > Max({1, MaxReverifies}) /\ count.decisions = 0 => attempt[g].state = "absent")
  BY RevLimited DEF Limit
<1> QED
  BY <1>1, <1>2, <1>3, PTL DEF ReverifySpec, LimitNeedsDecision

-----------------------------------------------------------------------------
(* The three together *)

\* Whichever of the components moves, all of them keep to their types.
THEOREM EdgesTypes == Spec => []EdgesTypesOK
<1> DEFINE Inv == CredInv /\ ExecInv /\ RevInv /\ part \in {"reverify", "execution", "people", "machines"}
<1>1. Init => Inv
  BY CredInit, ExecInitially, RevInitially DEF Init
<1>2. Inv /\ [Next]_allVars => Inv'
  <2> SUFFICES ASSUME Inv, [Next]_allVars PROVE Inv'
    OBVIOUS
  <2>1. /\ [ReverifyNext]_reverifyVars /\ [ExecutionNext]_executionVars
        /\ PeopleNext \/ MachinesNext \/ RingNext \/ UNCHANGED credentialVars
        /\ part' = part
    BY DEF Next, allVars
  <2>2. RevInv'
    BY <2>1, RevKeeps, RevUnchanged
  <2>3. ExecInv'
    BY <2>1, ExecKeeps, ExecUnchanged
  <2>4. CredInv'
    BY <2>1, PeopleKeep, MachinesKeep, RingKeeps, CredUnchanged
  <2> QED
    BY <2>1, <2>2, <2>3, <2>4
<1>3. Inv => EdgesTypesOK
  BY RevTyped, ExecTyped, CredTyped DEF EdgesTypesOK
<1> QED
  BY <1>1, <1>2, <1>3, PTL DEF Spec

=============================================================================
