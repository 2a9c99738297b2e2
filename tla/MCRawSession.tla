---------------------------- MODULE MCRawSession ----------------------------
(* Instances of RawSession for TLC. *)
EXTENDS RawSession, TLC

Symmetry == Permutations(Callers)
=============================================================================
