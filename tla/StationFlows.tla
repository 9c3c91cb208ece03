---------------------------- MODULE StationFlows ----------------------------
(***************************************************************************)
(* What the access point's transmit path promises each station: whether it *)
(* sleeps or not, the frames of one category reach the controller in the   *)
(* order in which the driver got them, one or several at a time, and none  *)
(* before the driver has it.  A station may be excused from the promise,   *)
(* for good; which of its frames is next is open from then on.             *)
(***************************************************************************)
EXTENDS Naturals

CONSTANTS Stas, ACs

VARIABLES
  given, sent,  \* per station and category: the last frame handed in, and handed on
  excused       \* the stations to which nothing is promised any more

flows == <<given, sent, excused>>

Init ==
  /\ given = [s \in Stas |-> [ac \in ACs |-> 0]]
  /\ sent = given
  /\ excused = {}

HandIn(s, ac) ==
  /\ given' = [given EXCEPT ![s][ac] = @ + 1]
  /\ UNCHANGED <<sent, excused>>

HandOn(s, ac) ==
  /\ \E last \in sent[s][ac] + 1 .. given[s][ac] : sent' = [sent EXCEPT ![s][ac] = last]
  /\ UNCHANGED <<given, excused>>

HandOnAny(s, ac) ==
  /\ s \in excused
  /\ sent' = [sent EXCEPT ![s][ac] = sent'[s][ac]]
  /\ UNCHANGED <<given, excused>>

Excuse ==
  /\ excused \subseteq excused'
  /\ UNCHANGED <<given, sent>>

Next ==
  \/ \E s \in Stas, ac \in ACs : HandIn(s, ac) \/ HandOn(s, ac) \/ HandOnAny(s, ac)
  \/ Excuse

Spec == Init /\ [][Next]_flows

=============================================================================
