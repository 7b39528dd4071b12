----------------------------- MODULE MCUpdateHost -----------------------------
(***************************************************************************)
(* Finite instances of UpdateHost for TLC.                                 *)
(***************************************************************************)
EXTENDS UpdateHost, TLC

\* Clients are interchangeable.
ClientSymmetry == Permutations(Clients)

=============================================================================
