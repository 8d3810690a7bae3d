------------------------- MODULE MCFederatedQuery -------------------------
(* Two scopes, one of them remote; two notes, one of which an update can   *)
(* move behind the other, so that a scope can span several pages and rows  *)
(* of the two scopes tie.                                                  *)
EXTENDS FederatedQuery, TLC

CONSTANTS personal, team, a, b

const_Scopes == {personal, team}
const_Remote == {team}
const_Ranks == 1..3
const_NameOf == <<a, b, a>>
const_Initial == {{2}, {1, 2}}
const_Filters == {{}, {team}}
const_Limits == -1..2
const_Starts == -1..2
===========================================================================
