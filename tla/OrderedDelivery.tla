-------------------------- MODULE OrderedDelivery --------------------------
(***************************************************************************)
(* What a block ack session promises the network stack: the frames it      *)
(* hands up carry growing numbers, none of them twice.  A new session      *)
(* starts over.                                                            *)
(***************************************************************************)
EXTENDS Naturals, Sequences

VARIABLE out  \* the numbers handed up since the session began

Init == out = <<>>

Deliver ==
  /\ Len(out') = Len(out) + 1
  /\ \A i \in 1 .. Len(out) : out'[i] = out[i] /\ out[i] < out'[Len(out) + 1]

Restart == out' = <<>>

Spec == Init /\ [][Deliver \/ Restart]_out

=============================================================================
