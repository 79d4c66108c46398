---------------------------- MODULE DeliveryRules ----------------------------
(***************************************************************************)
(* The statuses of a delivery row and the table of allowed transitions     *)
(* (deliveries/constants.ts).  Every handler of DeliveriesService goes     *)
(* through this table, except the cancellation that follows a cancelled    *)
(* order (cancelDeliveriesForOrder), which writes the status directly.     *)
(***************************************************************************)

\* DELIVERY_STATUSES
Statuses == {"pending", "open", "assigned", "accepted", "picked_up",
             "on_the_way", "delivered", "failed", "returned", "cancelled"}

\* ACTIVE_STATUSES: the delivery is in a courier's hands
ActiveStatuses == {"assigned", "accepted", "picked_up", "on_the_way"}

\* TRACKING_LINK_STATUSES: the operator may ask for a tracking link
LinkStatuses == {"accepted", "picked_up", "on_the_way"}

\* DELIVERY_MODES: the store carries it, a marketplace courier, or the customer
Modes == {"self", "platform", "pickup"}

\* TRANSITIONS: for each action, the statuses it may leave and the one it enters
TRANSITIONS == [
  assign    |-> [from |-> {"pending", "open", "assigned"}, to |-> "assigned"],
  publish   |-> [from |-> {"pending"},              to |-> "open"],
  unpublish |-> [from |-> {"open"},                 to |-> "pending"],
  claim     |-> [from |-> {"open"},                 to |-> "assigned"],
  release   |-> [from |-> {"assigned", "accepted"}, to |-> "open"],
  handover  |-> [from |-> {"pending"},              to |-> "delivered"],
  reject    |-> [from |-> {"assigned"},             to |-> "pending"],
  accept    |-> [from |-> {"assigned"},             to |-> "accepted"],
  pickup    |-> [from |-> {"accepted"},             to |-> "picked_up"],
  start     |-> [from |-> {"picked_up"},            to |-> "on_the_way"],
  deliver   |-> [from |-> {"on_the_way"},           to |-> "delivered"],
  fail      |-> [from |-> {"on_the_way"},           to |-> "failed"],
  giveBack  |-> [from |-> {"failed"},               to |-> "returned"],
  retry     |-> [from |-> {"failed"},               to |-> "pending"],
  cancel    |-> [from |-> {"pending", "open", "assigned", "accepted",
                           "picked_up", "on_the_way", "failed"},
                 to |-> "cancelled"]]

(***************************************************************************)
(* The status changes the table allows.  claim is followed by accept in    *)
(* the same transaction, so that a committed claim goes from open straight *)
(* to accepted.                                                            *)
(***************************************************************************)
AllowedSteps ==
  {<<s, "assigned">>   : s \in TRANSITIONS.assign.from} \cup
  {<<s, "open">>       : s \in TRANSITIONS.publish.from
                                \cup TRANSITIONS.release.from} \cup
  {<<s, "pending">>    : s \in TRANSITIONS.unpublish.from
                                \cup TRANSITIONS.reject.from
                                \cup TRANSITIONS.retry.from} \cup
  {<<s, "accepted">>   : s \in TRANSITIONS.claim.from
                                \cup TRANSITIONS.accept.from} \cup
  {<<s, "picked_up">>  : s \in TRANSITIONS.pickup.from} \cup
  {<<s, "on_the_way">> : s \in TRANSITIONS.start.from} \cup
  {<<s, "delivered">>  : s \in TRANSITIONS.handover.from
                                \cup TRANSITIONS.deliver.from} \cup
  {<<s, "failed">>     : s \in TRANSITIONS.fail.from} \cup
  {<<s, "returned">>   : s \in TRANSITIONS.giveBack.from} \cup
  {<<s, "cancelled">>  : s \in TRANSITIONS.cancel.from}

=============================================================================
