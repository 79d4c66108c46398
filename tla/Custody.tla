------------------------------- MODULE Custody -------------------------------
(***************************************************************************)
(* What the delivery service promises about who has the goods of a         *)
(* delivery, whatever requests, retries and timers are under way.          *)
(*                                                                         *)
(*   waiting   nobody's: the store has the goods                           *)
(*   offered   one courier is asked; he may still be replaced              *)
(*   bound     he accepted: nobody but he can give it up                   *)
(*   carried   he has the goods                                            *)
(*   missed    he did not reach the customer and still has the goods       *)
(*   closed    handed over, given back or called off: for good             *)
(***************************************************************************)

CONSTANTS Deliveries, Couriers, NoCourier

VARIABLES
  phase,    \* phase[d]
  holder    \* holder[d]: the courier who answers for d, or NoCourier

custody == <<phase, holder>>

Phases == {"waiting", "offered", "bound", "carried", "missed", "closed"}

Init ==
  /\ phase = [d \in Deliveries |-> "waiting"]
  /\ holder = [d \in Deliveries |-> NoCourier]

\* d enters phase `to`, and c answers for it
Enter(d, to, c) ==
  /\ phase' = [phase EXCEPT ![d] = to]
  /\ holder' = [holder EXCEPT ![d] = c]

Offer(d, c) == phase[d] \in {"waiting", "offered"} /\ Enter(d, "offered", c)
Take(d, c) == phase[d] = "waiting" /\ Enter(d, "bound", c)
Agree(d) == phase[d] = "offered" /\ Enter(d, "bound", holder[d])
GiveUp(d) == phase[d] \in {"offered", "bound"} /\ Enter(d, "waiting", NoCourier)
Load(d) == phase[d] = "bound" /\ Enter(d, "carried", holder[d])
Miss(d) == phase[d] = "carried" /\ Enter(d, "missed", holder[d])
TakeBack(d) == phase[d] = "missed" /\ Enter(d, "waiting", NoCourier)
Close(d) == phase[d] # "closed" /\ Enter(d, "closed", NoCourier)

Next ==
  \E d \in Deliveries :
    \/ \E c \in Couriers : Offer(d, c) \/ Take(d, c)
    \/ Agree(d) \/ GiveUp(d) \/ Load(d) \/ Miss(d) \/ TakeBack(d) \/ Close(d)

Spec == Init /\ [][Next]_custody
=============================================================================
