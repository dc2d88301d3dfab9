---------------------------- MODULE MC_ActorLoop ----------------------------
(***************************************************************************)
(* Small instances of ActorLoop.  Messages and holders are interchangeable *)
(* (no action and no property names one), roles are not: the preconditions *)
(* are evaluated in the order of the roles.                                *)
(***************************************************************************)
EXTENDS ActorLoopInv, TLC

Symmetry == Permutations(Msgs) \cup Permutations(Holders)
=============================================================================
