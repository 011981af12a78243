-------------------------- MODULE MCSearchPipeline --------------------------
(***************************************************************************)
(* TLC instances of SearchPipeline: two searches, of sessions with a scope *)
(* each or of CLI processes in one scope, and attributes with and without  *)
(* a usable query.                                                         *)
(***************************************************************************)
EXTENDS SearchPipeline, TLC

CONSTANTS good, bad, query

MCQueryOf == (good :> query) @@ (bad :> NoQuery)

Symmetry == Permutations(Responses) \cup Permutations(Searches) \cup Permutations(Scopes)
=============================================================================
