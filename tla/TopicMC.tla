------------------------------ MODULE TopicMC ------------------------------
(***************************************************************************)
(* Instances of Topic for TLC.                                             *)
(***************************************************************************)
EXTENDS Topic, TLC

\* Writers are interchangeable, and so are subscriptions and buffers; only the
\* safety runs use it.
Symmetry ==
  Permutations(Writers) \cup Permutations(Subscriptions) \cup Permutations(Buffers)

=============================================================================
