-------------------------- MODULE MCPublishAttempt --------------------------
(***************************************************************************)
(* Finite instances of PublishAttempt for TLC.                             *)
(***************************************************************************)
EXTENDS PublishAttempt, TLC

\* Execution identities are interchangeable; for runs without liveness.
ExecSymmetry == Permutations(Execs)

=============================================================================
