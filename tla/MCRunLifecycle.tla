---------------------------- MODULE MCRunLifecycle -----------------------------
(***************************************************************************)
(* Small instances of RunLifecycle.                                        *)
(***************************************************************************)
EXTENDS RunLifecycle, TLC

\* Runs are told apart only by when they were created.
Symmetry ==
  Permutations(Participants) \cup Permutations(Cells) \cup Permutations(Tokens)
    \cup Permutations(Purgers) \cup Permutations(RunIds)
=============================================================================
