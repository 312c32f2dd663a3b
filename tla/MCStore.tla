------------------------------ MODULE MCStore ------------------------------
(* Instances of Store for TLC.                                             *)
EXTENDS Store, TLC

\* Actors of one kind differ in nothing but their name.
ActorSymmetry ==
  Permutations(Writers) \cup Permutations(Collectors) \cup Permutations(Sequencers)

=============================================================================
