-------------------------- MODULE MCAdministration --------------------------
(***************************************************************************)
(* Small instances of Administration.  The calls are alike, and so are the *)
(* people.                                                                 *)
(***************************************************************************)
EXTENDS Administration, TLC

Some == {{}, {"write"}}

Symmetry == Permutations(Calls) \union Permutations(People)
=============================================================================
