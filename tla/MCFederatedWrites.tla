------------------------- MODULE MCFederatedWrites -------------------------
(* Two callers, a local and a remote scope, one path, two idempotency keys. *)
EXTENDS FederatedWrites, TLC

CONSTANTS personal, team, c1, c2, k1, k2, p1

const_Clients == {c1, c2}
const_Scopes == {personal, team}
const_Remote == {team}
const_Promotions ==
  {in \in PromoteInput :
     \/ in.from = personal /\ in.to = team /\ in.key # k2
     \/ in.key = k2 /\ in.from # in.to /\ in.overwrite /\ in.keep
     \/ in.key = k1 /\ in.overwrite /\ ~in.keep}
const_Number ==
  CHOOSE f \in [Ref -> 1..Cardinality(Ref)] : \A a, b \in Ref : a # b => f[a] # f[b]
const_Symmetry == Permutations(const_Clients)
============================================================================
