---------------------------- MODULE MC_Envelopes ----------------------------
(***************************************************************************)
(* Small instances of Envelopes: calls are interchangeable, and so are the *)
(* client tasks; a holder of one kind never takes the place of the other.  *)
(***************************************************************************)
EXTENDS Envelopes, TLC

EnvSymmetry == Permutations(Msgs) \cup Permutations(Clients)
=============================================================================
