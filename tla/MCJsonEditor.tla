---------------------------- MODULE MCJsonEditor ----------------------------
(***************************************************************************)
(* TLC instances of JsonEditor.                                            *)
(***************************************************************************)
EXTENDS JsonEditor, TLC

Symmetry ==
    Permutations(Writers) \cup Permutations(Readers) \cup Permutations(Documents)
=============================================================================
