------------------------- MODULE MCClaimReservation -------------------------
(***************************************************************************)
(* ClaimReservation with interchangeable tasks and, as it shares nothing   *)
(* with it, ProjectMapping with interchangeable operators.  The first      *)
(* state chooses the one that moves.                                       *)
(***************************************************************************)
EXTENDS ClaimReservation, ProjectMapping, TLC

CONSTANTS path, owner, url, otherUrl, main, next

\* Two paths of one repository, one of them possibly bound; no Project is registered, or
\* one for this repository and one for another.
Registration(r, b) == [url |-> r, print |-> r, branch |-> b]
MCMappingInit ==
  /\ repository = [q \in LegacyPaths |-> [remote |-> url, branch |-> main]]
  /\ \/ known = [p \in Projects |-> NoRow]
     \/ known = [p \in Projects |-> Registration(IF p = owner THEN url ELSE otherUrl, main)]
  /\ \E r \in {NoRow, [project |-> owner, url |-> url, print |-> url, branch |-> main],
               [project |-> owner, url |-> Unset, print |-> url, branch |-> Unset]} :
       bound = [q \in LegacyPaths |-> IF q = path THEN r ELSE NoRow]
  /\ MappingInit

VARIABLE part

allVars == <<part, vars, mappingVars>>

AllInit ==
  /\ part \in {"claims", "mapping"}
  /\ MCMappingInit
  \* One initial state is enough for a component that does not move.
  /\ part = "claims" => known = [p \in Projects |-> NoRow] /\ bound[path] = NoRow
  /\ Init
  /\ part = "mapping" => status = [t \in Tasks |-> "absent"]

AllNext ==
  \/ part = "claims"  /\ Next        /\ UNCHANGED <<part, mappingVars>>
  \/ part = "mapping" /\ MappingNext /\ UNCHANGED <<part, vars>>

AllSpec == AllInit /\ [][AllNext]_allVars

ClaimsAndMappingTypesOK == TypeOK /\ MappingTypeOK

Symmetry == Permutations(Tasks) \cup Permutations(Operators)
=============================================================================
