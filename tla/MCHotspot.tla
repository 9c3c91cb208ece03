------------------------------ MODULE MCHotspot ------------------------------
(***************************************************************************)
(* Instances of Hotspot for TLC.  Requests are interchangeable.            *)
(***************************************************************************)
EXTENDS Hotspot, TLC

Symmetry == Permutations(Requests)

=============================================================================
