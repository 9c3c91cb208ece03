--------------------------- MODULE MCSquidService ---------------------------
(***************************************************************************)
(* Instances of SquidService for TLC.                                      *)
(***************************************************************************)
EXTENDS SquidService, TLC

Symmetry == Permutations(Pids)

\* What the properties for one caller are about.
NoLookTooEarly == early = {}

=============================================================================
