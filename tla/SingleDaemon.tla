---------------------------- MODULE SingleDaemon ----------------------------
(***************************************************************************)
(* What the init script promises about squid: there is at most one proxy   *)
(* process, a new one appears only when the old one is gone, and a stop is *)
(* not taken back.  The hold on it can be lost, for good.                  *)
(***************************************************************************)
VARIABLE state

Init == state = "down"

Launch == state = "down" /\ state' = "up"
Retire == state = "up" /\ state' = "stopping"
Vanish == state \in {"up", "stopping"} /\ state' = "down"
Lose   == state' = "lost"

Next == Launch \/ Retire \/ Vanish \/ Lose

Spec == Init /\ [][Next]_state

=============================================================================
