---------------------------- MODULE MCBlobStore ----------------------------
(***************************************************************************)
(* Finite instances of BlobStore for TLC.                                  *)
(***************************************************************************)
EXTENDS BlobStore, TLC

\* Writers are interchangeable, and so are cleaners; for runs without liveness.
RoleSymmetry == Permutations(Writers) \cup Permutations(Cleaners)

=============================================================================
