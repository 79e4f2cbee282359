--------------------------- MODULE MCCredentials ---------------------------
(***************************************************************************)
(* Small instances of Credentials.  The calls are alike, and so are the    *)
(* random values and the service accounts.                                 *)
(***************************************************************************)
EXTENDS Credentials, TLC

Symmetry == Permutations(Calls) \union Permutations(Tokens) \union Permutations(Services)
=============================================================================
