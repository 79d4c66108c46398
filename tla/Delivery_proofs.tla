--------------------------- MODULE Delivery_proofs ---------------------------
(***************************************************************************)
(* Invariants of Delivery for every set of rows, couriers and requests.    *)
(* Each is a statement about one row, and every step changes one row, so   *)
(* the inductive invariant is a predicate RowOK on rows: it holds of a     *)
(* fresh row and each handler's update keeps it.                           *)
(***************************************************************************)
EXTENDS Delivery, TLAPS

\* The statuses in which a fee may still wait for the customer's answer: the
\* answer is asked for while pending, and the row may be closed meanwhile
MayBeAsked == {"pending", "delivered", "cancelled"}

(***************************************************************************)
(* The inductive strengthening.  FeeConsent is not inductive alone: a row  *)
(* comes into a courier's hands from pending, where the amount is either   *)
(* proposed (and assign refuses) or was accepted before a failed trip; and *)
(* an accepted amount stays the one for which the yes was recorded.        *)
(***************************************************************************)
RowOK(r) ==
  /\ r.status \in {"pending", "open"} => r.courier = NoCourier
  /\ r.status \in InHands => r.courier \in Couriers
  /\ r.cash # NoFee => r.mode = "platform" /\ r.payer = "customer"
  /\ r.fee = "proposed" => r.status \in MayBeAsked /\ r.cash # NoFee
  /\ r.fee \in {"rejected", "expired"} => r.mode = "self"
  /\ r.fee = "paid" => r.status \in {"delivered", "cancelled"}
  /\ r.fee = "accepted" => r.cash = r.agreed
  /\ r.status \notin {"delivered", "cancelled"} =>
       (r.cash # NoFee <=> r.fee \in {"proposed", "accepted"})
  /\ r.status = "open" => r.mode = "platform"
  /\ r.mode = "platform" /\ r.payer = "customer"
       => r.cash # NoFee \/ r.status \in {"delivered", "cancelled"}
  /\ r.status = "on_the_way" => r.code # 0 /\ r.track # NoCourier

RowsOK == \A d \in Deliveries : RowOK(row[d])

\* A request that is to write a tracking link has read a courier
LinkCalls == {call \in Call : call.step = "link_write" => call.by \in Couriers}

CallsOK == calls \in [Procs -> LinkCalls]

IInv == TypeOK /\ RowsOK /\ CallsOK

-----------------------------------------------------------------------------
\* The table, entry by entry, so that proofs need not expand it whole
LEMMA Table ==
  /\ TRANSITIONS.assign.from = {"pending", "open", "assigned"}
  /\ TRANSITIONS.assign.to = "assigned"
  /\ TRANSITIONS.publish.from = {"pending"} /\ TRANSITIONS.publish.to = "open"
  /\ TRANSITIONS.unpublish.from = {"open"} /\ TRANSITIONS.unpublish.to = "pending"
  /\ TRANSITIONS.claim.from = {"open"}
  /\ TRANSITIONS.release.from = {"assigned", "accepted"}
  /\ TRANSITIONS.release.to = "open"
  /\ TRANSITIONS.handover.from = {"pending"} /\ TRANSITIONS.handover.to = "delivered"
  /\ TRANSITIONS.reject.from = {"assigned"} /\ TRANSITIONS.reject.to = "pending"
  /\ TRANSITIONS.accept.from = {"assigned"} /\ TRANSITIONS.accept.to = "accepted"
  /\ TRANSITIONS.pickup.from = {"accepted"} /\ TRANSITIONS.pickup.to = "picked_up"
  /\ TRANSITIONS.start.from = {"picked_up"} /\ TRANSITIONS.start.to = "on_the_way"
  /\ TRANSITIONS.deliver.from = {"on_the_way"} /\ TRANSITIONS.deliver.to = "delivered"
  /\ TRANSITIONS.fail.from = {"on_the_way"} /\ TRANSITIONS.fail.to = "failed"
  /\ TRANSITIONS.giveBack.from = {"failed"} /\ TRANSITIONS.giveBack.to = "returned"
  /\ TRANSITIONS.retry.from = {"failed"} /\ TRANSITIONS.retry.to = "pending"
  /\ TRANSITIONS.cancel.from = {"pending", "open", "assigned", "accepted",
                                "picked_up", "on_the_way", "failed"}
  /\ TRANSITIONS.cancel.to = "cancelled"
  BY DEF TRANSITIONS

\* A step that makes row d another acceptable row leaves every row acceptable
LEMMA OneRow ==
  ASSUME IInv, NEW d \in Deliveries, row' = [row EXCEPT ![d] = row'[d]],
         row'[d] \in Row, RowOK(row'[d])
  PROVE  row' \in [Deliveries -> Row] /\ RowsOK'
  BY DEF IInv, TypeOK, RowsOK, CallsOK

\* A step that leaves the rows alone
LEMMA NoRow ==
  ASSUME IInv, UNCHANGED row
  PROVE  row' \in [Deliveries -> Row] /\ RowsOK'
  BY DEF IInv, TypeOK, RowsOK, CallsOK

\* Ending a call, and beginning one from the idle record, keep its type
LEMMA IdleCallType == IdleCall \in LinkCalls
<1>1. (CHOOSE d \in Deliveries : TRUE) \in Deliveries
  BY ConstantsAssumption
<1>2. 0 \in Codes
  BY ConstantsAssumption DEF Codes
<1>3. QED
  BY <1>1, <1>2 DEF IdleCall, LinkCalls, Call, CallSteps

LEMMA EndType ==
  ASSUME IInv, NEW p \in Procs, End(p)
  PROVE  CallsOK'
  BY IdleCallType DEF IInv, TypeOK, CallsOK, LinkCalls, End

LEMMA Join ==
  ASSUME row' \in [Deliveries -> Row], RowsOK', CallsOK'
  PROVE  IInv'
  BY DEF IInv, TypeOK, CallsOK, LinkCalls

(***************************************************************************)
(* The backoffice handlers and the expiry of a proposal.                   *)
(***************************************************************************)
LEMMA StoreStepOK ==
  ASSUME IInv, NEW d \in Deliveries, StoreStep(d)
  PROVE  IInv'
<1>0. row[d] \in Row /\ RowOK(row[d]) /\ row \in [Deliveries -> Row]
  BY DEF IInv, TypeOK, RowsOK, CallsOK
<1>r. row[d] \in Row
  BY <1>0
<1>1. row'[d] \in Row /\ RowOK(row'[d])
  <2>1. CASE PublishForStore(d)
    <3>1. row'[d] = [row[d] EXCEPT !.status = "open", !.mode = "platform",
        !.payer = "store", !.fee = "none", !.cash = NoFee]
      BY <1>0, <2>1, Table DEF PublishForStore, Update
    <3>2. row'[d] \in Row
      <4>1. [row[d] EXCEPT !.status = "open", !.mode = "platform",
                           !.payer = "store", !.fee = "none",
                           !.cash = NoFee] \in Row
        BY <1>r DEF Row, Statuses, Modes, FeeStatuses
      <4>2. QED
        BY <3>1, <4>1
    <3>3. RowOK(row'[d])
      BY <1>0, <2>1, <3>1, Table
      DEF PublishForStore, RowOK, Row, InHands, ActiveStatuses, MayBeAsked
    <3>4. QED
      BY <3>2, <3>3
  <2>2. ASSUME NEW amount \in Fees,
             ProposeToCustomer(d, amount)
      PROVE  row'[d] \in Row /\ RowOK(row'[d])
    <3>1. row'[d] = [row[d] EXCEPT !.mode = "platform", !.payer = "customer",
        !.fee = "proposed", !.cash = amount]
      BY <1>0, <2>2, Table DEF ProposeToCustomer, Update
    <3>2. row'[d] \in Row
      <4>1. [row[d] EXCEPT !.mode = "platform", !.payer = "customer",
                           !.fee = "proposed", !.cash = amount] \in Row
        BY <1>r DEF Row, Modes, FeeStatuses
      <4>2. QED
        BY <3>1, <4>1
    <3>3. RowOK(row'[d])
      <4>1. row[d].status = "pending" /\ row[d].courier = NoCourier /\ amount # NoFee
        BY <2>2, ConstantsAssumption DEF ProposeToCustomer
      <4>2. QED
        BY <1>0, <3>1, <4>1 DEF RowOK, Row, InHands, ActiveStatuses, MayBeAsked
    <3>4. QED
      BY <3>2, <3>3
  <2>3. CASE Unpublish(d)
    <3>1. row'[d] = [row[d] EXCEPT !.status = "pending", !.mode = "self",
        !.payer = "store", !.fee = "none", !.cash = NoFee]
      BY <1>0, <2>3, Table DEF Unpublish, Update
    <3>2. row'[d] \in Row
      <4>1. [row[d] EXCEPT !.status = "pending", !.mode = "self",
                           !.payer = "store", !.fee = "none",
                           !.cash = NoFee] \in Row
        BY <1>r DEF Row, Statuses, Modes, FeeStatuses
      <4>2. QED
        BY <3>1, <4>1
    <3>3. RowOK(row'[d])
      BY <1>0, <2>3, <3>1, Table
      DEF Unpublish, RowOK, Row, InHands, ActiveStatuses, MayBeAsked
    <3>4. QED
      BY <3>2, <3>3
  <2>4. ASSUME NEW c \in Couriers, NEW superadmin \in BOOLEAN,
             Assign(d, c, superadmin)
      PROVE  row'[d] \in Row /\ RowOK(row'[d])
    <3>1. row'[d] = [row[d] EXCEPT !.status = "assigned", !.courier = c]
      BY <1>0, <2>4, Table DEF Assign, Update
    <3>2. row'[d] \in Row
      <4>1. [row[d] EXCEPT !.status = "assigned", !.courier = c] \in Row
        BY <1>r DEF Row, Statuses, Modes, FeeStatuses
      <4>2. QED
        BY <3>1, <4>1
    <3>3. RowOK(row'[d])
      BY <1>0, <2>4, <3>1, Table
      DEF Assign, RowOK, Row, InHands, ActiveStatuses, MayBeAsked
    <3>4. QED
      BY <3>2, <3>3
  <2>5. CASE Cancel(d)
    <3>1. row'[d] = [row[d] EXCEPT !.status = "cancelled"]
      BY <1>0, <2>5, Table DEF Cancel, Update
    <3>2. row'[d] \in Row
      <4>1. [row[d] EXCEPT !.status = "cancelled"] \in Row
        BY <1>r DEF Row, Statuses, Modes, FeeStatuses
      <4>2. QED
        BY <3>1, <4>1
    <3>3. RowOK(row'[d])
      BY <1>0, <2>5, <3>1, Table
      DEF Cancel, RowOK, Row, InHands, ActiveStatuses, MayBeAsked
    <3>4. QED
      BY <3>2, <3>3
  <2>6. CASE Returned(d)
    <3>1. row'[d] = [row[d] EXCEPT !.status = "returned"]
      BY <1>0, <2>6, Table DEF Returned, Update
    <3>2. row'[d] \in Row
      <4>1. [row[d] EXCEPT !.status = "returned"] \in Row
        BY <1>r DEF Row, Statuses, Modes, FeeStatuses
      <4>2. QED
        BY <3>1, <4>1
    <3>3. RowOK(row'[d])
      BY <1>0, <2>6, <3>1, Table
      DEF Returned, RowOK, Row, InHands, ActiveStatuses, MayBeAsked
    <3>4. QED
      BY <3>2, <3>3
  <2>7. CASE Retry(d)
    <3>0. 0 \in Tries /\ 0 \in Codes /\ "pending" \in Statuses
      BY ConstantsAssumption DEF Tries, Codes, Statuses
    <3>1. row'[d] = [row[d] EXCEPT !.status = "pending", !.courier =
        NoCourier, !.code = 0, !.tries = 0, !.track = NoCourier]
      BY <1>0, <2>7, Table DEF Retry, Update
    <3>2. row'[d] \in Row
      <4>1. [row[d] EXCEPT !.status = "pending", !.courier = NoCourier,
                           !.code = 0, !.tries = 0,
                           !.track = NoCourier] \in Row
        BY <1>r, <3>0 DEF Row
      <4>2. QED
        BY <3>1, <4>1
    <3>3. RowOK(row'[d])
      BY <1>0, <2>7, <3>1, Table
      DEF Retry, RowOK, Row, InHands, ActiveStatuses, MayBeAsked
    <3>4. QED
      BY <3>2, <3>3
  <2>8. CASE ExpireFee(d)
    <3>1. row'[d] = [row[d] EXCEPT !.fee = "expired", !.mode = "self", !.cash
        = NoFee]
      BY <1>0, <2>8, Table DEF ExpireFee, Update
    <3>2. row'[d] \in Row
      <4>1. [row[d] EXCEPT !.fee = "expired", !.mode = "self",
                           !.cash = NoFee] \in Row
        BY <1>r DEF Row, Statuses, Modes, FeeStatuses
      <4>2. QED
        BY <3>1, <4>1
    <3>3. RowOK(row'[d])
      BY <1>0, <2>8, <3>1, Table
      DEF ExpireFee, RowOK, Row, InHands, ActiveStatuses, MayBeAsked
    <3>4. QED
      BY <3>2, <3>3
  <2>9. QED
    BY <2>1, <2>2, <2>3, <2>4, <2>5, <2>6, <2>7, <2>8 DEF StoreStep
<1>2. row' = [row EXCEPT ![d] = row'[d]] /\ calls' = calls
  BY <1>0
  DEF StoreStep, PublishForStore, ProposeToCustomer, Unpublish, Assign,
      Cancel, Returned, Retry, ExpireFee, Update
<1>3. QED
  BY <1>1, <1>2, OneRow DEF IInv, TypeOK, CallsOK, LinkCalls

(***************************************************************************)
(* The courier's handlers that hold the lock throughout.                   *)
(***************************************************************************)
LEMMA CourierStepOK ==
  ASSUME IInv, NEW d \in Deliveries, NEW c \in Couriers, CourierStep(d, c)
  PROVE  IInv'
<1>0. row[d] \in Row /\ RowOK(row[d]) /\ row \in [Deliveries -> Row]
  BY DEF IInv, TypeOK, RowsOK, CallsOK
<1>r. row[d] \in Row
  BY <1>0
<1>1. row'[d] \in Row /\ RowOK(row'[d])
  <2>1. CASE Claim(d, c)
    <3>1. row'[d] = [row[d] EXCEPT !.status = "accepted", !.courier = c]
      BY <1>0, <2>1, Table DEF Claim, Update
    <3>2. row'[d] \in Row
      <4>1. [row[d] EXCEPT !.status = "accepted", !.courier = c] \in Row
        BY <1>r DEF Row, Statuses, Modes, FeeStatuses
      <4>2. QED
        BY <3>1, <4>1
    <3>3. RowOK(row'[d])
      BY <1>0, <2>1, <3>1, Table
      DEF Claim, RowOK, Row, InHands, ActiveStatuses, MayBeAsked
    <3>4. QED
      BY <3>2, <3>3
  <2>2. CASE Accept(d, c)
    <3>1. row'[d] = [row[d] EXCEPT !.status = "accepted"]
      BY <1>0, <2>2, Table DEF Accept, Owns, Update
    <3>2. row'[d] \in Row
      <4>1. [row[d] EXCEPT !.status = "accepted"] \in Row
        BY <1>r DEF Row, Statuses, Modes, FeeStatuses
      <4>2. QED
        BY <3>1, <4>1
    <3>3. RowOK(row'[d])
      BY <1>0, <2>2, <3>1, Table
      DEF Accept, Owns, RowOK, Row, InHands, ActiveStatuses, MayBeAsked
    <3>4. QED
      BY <3>2, <3>3
  <2>3. CASE Reject(d, c)
    <3>1. row'[d] = [row[d] EXCEPT !.status = "pending", !.courier =
        NoCourier, !.track = NoCourier]
      BY <1>0, <2>3, Table DEF Reject, Owns, Update
    <3>2. row'[d] \in Row
      <4>1. [row[d] EXCEPT !.status = "pending", !.courier = NoCourier,
                           !.track = NoCourier] \in Row
        BY <1>r DEF Row, Statuses, Modes, FeeStatuses
      <4>2. QED
        BY <3>1, <4>1
    <3>3. RowOK(row'[d])
      BY <1>0, <2>3, <3>1, Table
      DEF Reject, Owns, RowOK, Row, InHands, ActiveStatuses, MayBeAsked
    <3>4. QED
      BY <3>2, <3>3
  <2>4. CASE Release(d, c)
    <3>1. row'[d] = [row[d] EXCEPT !.status = "open", !.courier = NoCourier,
        !.track = NoCourier]
      BY <1>0, <2>4, Table DEF Release, Owns, Update
    <3>2. row'[d] \in Row
      <4>1. [row[d] EXCEPT !.status = "open", !.courier = NoCourier,
                           !.track = NoCourier] \in Row
        BY <1>r DEF Row, Statuses, Modes, FeeStatuses
      <4>2. QED
        BY <3>1, <4>1
    <3>3. RowOK(row'[d])
      BY <1>0, <2>4, <3>1, Table
      DEF Release, Owns, RowOK, Row, InHands, ActiveStatuses, MayBeAsked
    <3>4. QED
      BY <3>2, <3>3
  <2>5. CASE Start(d, c)
    <3> DEFINE n == row[d].issued + 1
    <3>0. n \in Codes \ {0} /\ n \in Codes /\ 0 \in Tries
      BY <1>0, <2>5, ConstantsAssumption DEF Start, Row, Codes, Tries
    <3>1. row'[d] = [row[d] EXCEPT !.status = "on_the_way", !.code =
        n, !.issued = n, !.tries = 0, !.track
        = c]
      BY <1>0, <2>5, Table DEF Start, Owns, Update
    <3> HIDE DEF n
    <3>2. /\ row'[d].status \in Statuses /\ row'[d].tries \in Tries
          /\ row'[d].code \in Codes /\ row'[d].issued \in Codes \ {0}
          /\ row'[d].track \in Couriers
      BY <1>0, <3>0, <3>1 DEF Row, Statuses
    <3>3. row'[d] \in Row
      BY <1>0, <3>0, <3>1, <3>2 DEF Row
    <3>4. n # 0 /\ row[d].status = "picked_up" /\ c # NoCourier
      BY <2>5, <3>0, Table, ConstantsAssumption DEF Start
    <3>5. RowOK(row'[d])
      BY <1>0, <3>1, <3>4
      DEF RowOK, Row, InHands, ActiveStatuses, MayBeAsked
    <3>6. QED
      BY <3>3, <3>5
  <2>6. CASE Arrived(d, c)
    <3>1. row'[d] = [row[d] EXCEPT !.arrived = row[d].code]
      BY <1>0, <2>6, Table DEF Arrived, Owns, Update
    <3>2. row'[d] \in Row
      <4>1. [row[d] EXCEPT !.arrived = row[d].code] \in Row
        BY <1>r DEF Row, Statuses, Modes, FeeStatuses
      <4>2. QED
        BY <3>1, <4>1
    <3>3. RowOK(row'[d])
      BY <1>0, <2>6, <3>1, Table
      DEF Arrived, Owns, RowOK, Row, InHands, ActiveStatuses, MayBeAsked
    <3>4. QED
      BY <3>2, <3>3
  <2>7. QED
    BY <2>1, <2>2, <2>3, <2>4, <2>5, <2>6 DEF CourierStep
<1>2. row' = [row EXCEPT ![d] = row'[d]] /\ calls' = calls
  BY <1>0
  DEF CourierStep, Claim, Accept, Reject, Release, Start, Arrived, Update
<1>3. QED
  BY <1>1, <1>2, OneRow DEF IInv, TypeOK, CallsOK, LinkCalls

(***************************************************************************)
(* Beginning a call reads the row and changes none.                        *)
(***************************************************************************)
LEMMA BeginCallOK ==
  ASSUME IInv, NEW p \in Procs, NEW d \in Deliveries, BeginCall(p, d)
  PROVE  IInv'
<1>0. row[d] \in Row /\ RowOK(row[d]) /\ row \in [Deliveries -> Row]
  BY DEF IInv, TypeOK, RowsOK, CallsOK
<1>1. UNCHANGED row
  BY DEF BeginCall, HandoverBegin, DeliverBegin, PickupBegin, FailBegin,
         LinkBegin, DecideBegin
<1>2. PICK call : calls' = [calls EXCEPT ![p] = call] /\ call \in LinkCalls
  <2> DEFINE Began(call) == calls' = [calls EXCEPT ![p] = call] /\ call \in LinkCalls
  <2>0. /\ IdleCall \in LinkCalls
        /\ \A g \in 0 .. row[d].issued : g \in Codes
    BY <1>0, IdleCallType, ConstantsAssumption DEF Row, Codes
  <2>1. ASSUME NEW g \in 0 .. row[d].issued,
             HandoverBegin(p, d, g)
      PROVE  \E call : Began(call)
    <3> DEFINE k == [IdleCall EXCEPT !.step = "handover_code", !.d = d, !.code = g]
    <3>1. k \in LinkCalls
      BY <1>0, <2>0, <2>1 DEF LinkCalls, Call, CallSteps, Row
    <3>2. calls' = [calls EXCEPT ![p] = k]
      BY <2>1 DEF HandoverBegin
    <3>3. QED
      BY <3>1, <3>2
  <2>2. ASSUME NEW c \in Couriers, NEW g \in 0 .. row[d].issued,
             NEW withCode \in BOOLEAN,
             DeliverBegin(p, d, c, g, withCode)
      PROVE  \E call : Began(call)
    <3> DEFINE k == [IdleCall EXCEPT !.step = IF withCode THEN "deliver_code" ELSE
                  "deliver_apply", !.d = d, !.by = c, !.code = g, !.cash =
                  row[d].cash]
    <3>1. k \in LinkCalls
      BY <1>0, <2>0, <2>2 DEF LinkCalls, Call, CallSteps, Row
    <3>2. calls' = [calls EXCEPT ![p] = k]
      BY <2>2 DEF DeliverBegin
    <3>3. QED
      BY <3>1, <3>2
  <2>3. ASSUME NEW c \in Couriers,
             PickupBegin(p, d, c)
      PROVE  \E call : Began(call)
    <3> DEFINE k == [IdleCall EXCEPT !.step = "pickup_apply", !.d = d, !.by = c]
    <3>1. k \in LinkCalls
      BY <1>0, <2>0, <2>3 DEF LinkCalls, Call, CallSteps, Row
    <3>2. calls' = [calls EXCEPT ![p] = k]
      BY <2>3 DEF PickupBegin
    <3>3. QED
      BY <3>1, <3>2
  <2>4. ASSUME NEW c \in Couriers,
             FailBegin(p, d, c)
      PROVE  \E call : Began(call)
    <3> DEFINE k == [IdleCall EXCEPT !.step = "fail_apply", !.d = d, !.by = c]
    <3>1. k \in LinkCalls
      BY <1>0, <2>0, <2>4 DEF LinkCalls, Call, CallSteps, Row
    <3>2. calls' = [calls EXCEPT ![p] = k]
      BY <2>4 DEF FailBegin
    <3>3. QED
      BY <3>1, <3>2
  <2>5. ASSUME LinkBegin(p, d)
      PROVE  \E call : Began(call)
    <3> DEFINE k == [IdleCall EXCEPT !.step = "link_write", !.d = d, !.by =
                  row[d].courier]
    <3>1. k \in LinkCalls
      BY <1>0, <2>0, <2>5
      DEF LinkBegin, LinkStatuses, LinkCalls, Call, CallSteps, RowOK, InHands,
          ActiveStatuses
    <3>2. calls' = [calls EXCEPT ![p] = k]
      BY <2>5 DEF LinkBegin
    <3>3. QED
      BY <3>1, <3>2
  <2>6. ASSUME DecideBegin(p, d)
      PROVE  \E call : Began(call)
    <3> DEFINE k == [IdleCall EXCEPT !.step = "decide", !.d = d, !.cash =
                  row[d].cash]
    <3>1. k \in LinkCalls
      BY <1>0, <2>0 DEF LinkCalls, Call, CallSteps, Row
    <3>2. calls' = [calls EXCEPT ![p] = k]
      BY <2>6 DEF DecideBegin
    <3>3. QED
      BY <3>1, <3>2
  <2>7. QED
    BY <2>1, <2>2, <2>3, <2>4, <2>5, <2>6 DEF BeginCall
<1>3. QED
  BY <1>1, <1>2, NoRow DEF IInv, TypeOK, CallsOK, LinkCalls

(***************************************************************************)
(* The transaction that checks the code counts the wrong tries, never past *)
(* MaxTries, and changes nothing else in the row.                          *)
(***************************************************************************)
LEMMA CodeCheckOK ==
  ASSUME IInv, NEW p \in Procs, HandoverCode(p) \/ DeliverCode(p)
  PROVE  IInv'
<1> DEFINE d == calls[p].d
<1>0. /\ calls[p] \in LinkCalls /\ d \in Deliveries
      /\ row[d] \in Row /\ RowOK(row[d])
      /\ row \in [Deliveries -> Row] /\ calls \in [Procs -> LinkCalls]
  BY DEF IInv, TypeOK, RowsOK, CallsOK, LinkCalls, Call
<1>1. CASE CodeRefused(p) /\ UNCHANGED row
  BY <1>1, NoRow, EndType, Join DEF CodeRefused
<1>2. CASE CodeRefused(p) /\ ~UNCHANGED row
  <2> DEFINE n == row[d].tries + 1
  <2>1. ~Blocked(d) /\ Update(d, [row[d] EXCEPT !.tries = n]) /\ End(p)
    BY <1>2 DEF CodeRefused
  <2>2. n \in Tries
    BY <1>0, <2>1, ConstantsAssumption DEF Blocked, Row, Tries
  <2>3. row'[d] = [row[d] EXCEPT !.tries = n] /\ row' = [row EXCEPT ![d] = row'[d]]
    BY <1>0, <2>1 DEF Update
  <2> HIDE DEF n, d
  <2>4. row'[d] \in Row
    BY <1>0, <2>2, <2>3 DEF Row
  <2>5. RowOK(row'[d])
    BY <1>0, <2>3 DEF RowOK, Row
  <2>6. QED
    BY <1>0, <2>1, <2>3, <2>4, <2>5, OneRow, EndType DEF IInv, TypeOK, CallsOK, LinkCalls
<1>3. ASSUME NEW next \in {"handover_apply", "deliver_apply"},
             CodeAccepted(p, next)
      PROVE  IInv'
  <2>1. UNCHANGED row /\ calls' = [calls EXCEPT ![p] = [calls[p] EXCEPT !.step = next]]
    BY <1>0, <1>3 DEF CodeAccepted
  <2>2. [calls[p] EXCEPT !.step = next] \in LinkCalls
    BY <1>0 DEF LinkCalls, Call, CallSteps
  <2>3. QED
    BY <1>0, <2>1, <2>2, NoRow DEF IInv, TypeOK, CallsOK, LinkCalls
<1>4. QED
  BY <1>1, <1>2, <1>3 DEF HandoverCode, DeliverCode

(***************************************************************************)
(* The last transaction of a call, the row as others have left it.         *)
(***************************************************************************)
LEMMA ApplyOK ==
  ASSUME IInv, NEW p \in Procs,
         \/ HandoverApply(p)
         \/ \E collected \in BOOLEAN : DeliverApply(p, collected)
         \/ PickupApply(p) \/ FailApply(p) \/ LinkWrite(p)
         \/ DecideAccept(p) \/ DecideReject(p)
  PROVE  IInv'
<1> DEFINE d == calls[p].d
<1>0. /\ calls[p] \in LinkCalls /\ d \in Deliveries
      /\ row[d] \in Row /\ RowOK(row[d])
      /\ row \in [Deliveries -> Row] /\ calls \in [Procs -> LinkCalls]
  BY DEF IInv, TypeOK, RowsOK, CallsOK, LinkCalls, Call
<1>r. row[d] \in Row
  BY <1>0
<1>1. row'[d] \in Row /\ RowOK(row'[d])
  <2>1. CASE HandoverApply(p)
    <3>1. row'[d] = [row[d] EXCEPT !.status = "delivered"]
      BY <1>0, <2>1, Table DEF HandoverApply, Update
    <3>2. row'[d] \in Row
      <4>1. [row[d] EXCEPT !.status = "delivered"] \in Row
        BY <1>r DEF Row, Statuses, Modes, FeeStatuses
      <4>2. QED
        BY <3>1, <4>1
    <3>3. RowOK(row'[d])
      BY <1>0, <2>1, <3>1, Table
      DEF HandoverApply, RowOK, Row, InHands, ActiveStatuses, MayBeAsked
    <3>4. QED
      BY <3>2, <3>3
  <2>2. ASSUME NEW collected \in BOOLEAN,
             DeliverApply(p, collected)
      PROVE  row'[d] \in Row /\ RowOK(row'[d])
    <3> DEFINE paid == IF calls[p].cash # NoFee /\ collected THEN "paid"
                       ELSE row[d].fee
    <3>0. paid \in FeeStatuses /\ paid \in {"paid", row[d].fee}
      BY <1>0 DEF Row, FeeStatuses
    <3>1. row'[d] = [row[d] EXCEPT !.status = "delivered", !.fee = paid]
      BY <1>0, <2>2, Table DEF DeliverApply, Owns, Update
    <3> HIDE DEF paid
    <3>2. row'[d] \in Row
      <4>1. [row[d] EXCEPT !.status = "delivered", !.fee = paid] \in Row
        BY <1>r, <3>0 DEF Row, Statuses
      <4>2. QED
        BY <3>1, <4>1
    <3>3. RowOK(row'[d])
      <4>1. row[d].status = "on_the_way"
        BY <2>2, Table DEF DeliverApply
      <4>2. QED
        BY <1>0, <3>0, <3>1, <4>1
        DEF RowOK, Row, InHands, ActiveStatuses, MayBeAsked
    <3>4. QED
      BY <3>2, <3>3
  <2>3. CASE PickupApply(p)
    <3>1. row'[d] = [row[d] EXCEPT !.status = "picked_up"]
      BY <1>0, <2>3, Table DEF PickupApply, Owns, Update
    <3>2. row'[d] \in Row
      <4>1. [row[d] EXCEPT !.status = "picked_up"] \in Row
        BY <1>r DEF Row, Statuses, Modes, FeeStatuses
      <4>2. QED
        BY <3>1, <4>1
    <3>3. RowOK(row'[d])
      <4>1. row[d].status = "accepted"
        BY <2>3, Table DEF PickupApply
      <4>2. QED
        BY <1>0, <3>1, <4>1
        DEF RowOK, Row, InHands, ActiveStatuses, MayBeAsked
    <3>4. QED
      BY <3>2, <3>3
  <2>4. CASE FailApply(p)
    <3>1. row'[d] = [row[d] EXCEPT !.status = "failed"]
      BY <1>0, <2>4, Table DEF FailApply, Owns, Update
    <3>2. row'[d] \in Row
      <4>1. [row[d] EXCEPT !.status = "failed"] \in Row
        BY <1>r DEF Row, Statuses, Modes, FeeStatuses
      <4>2. QED
        BY <3>1, <4>1
    <3>3. RowOK(row'[d])
      <4>1. row[d].status = "on_the_way"
        BY <2>4, Table DEF FailApply
      <4>2. QED
        BY <1>0, <3>1, <4>1
        DEF RowOK, Row, InHands, ActiveStatuses, MayBeAsked
    <3>4. QED
      BY <3>2, <3>3
  <2>5. CASE LinkWrite(p)
    <3>1. row'[d] = [row[d] EXCEPT !.track = calls[p].by]
      BY <1>0, <2>5, Table DEF LinkWrite, Update
    <3>2. row'[d] \in Row
      <4>0. calls[p].by \in Couriers \cup {NoCourier}
        BY <1>0 DEF LinkCalls, Call
      <4>1. [row[d] EXCEPT !.track = calls[p].by] \in Row
        BY <1>r, <4>0 DEF Row
      <4>2. QED
        BY <3>1, <4>1
    <3>3. RowOK(row'[d])
      <4>1. calls[p].by \in Couriers /\ calls[p].by # NoCourier
        BY <1>0, <2>5, ConstantsAssumption DEF LinkWrite, At, LinkCalls
      <4>2. QED
        BY <1>0, <3>1, <4>1 DEF RowOK, Row
    <3>4. QED
      BY <3>2, <3>3
  <2>6. CASE DecideAccept(p)
    <3>1. row'[d] = [row[d] EXCEPT !.status = "open", !.fee = "accepted",
                                   !.agreed = row[d].cash]
      BY <1>0, <2>6, Table DEF DecideAccept, StillProposed, Update
    <3>2. row'[d] \in Row
      <4>1. [row[d] EXCEPT !.status = "open", !.fee = "accepted",
                           !.agreed = row[d].cash] \in Row
        BY <1>r DEF Row, Statuses, Modes, FeeStatuses
      <4>2. QED
        BY <3>1, <4>1
    <3>3. RowOK(row'[d])
      BY <1>0, <2>6, <3>1, Table
      DEF DecideAccept, StillProposed, RowOK, Row, InHands, ActiveStatuses, MayBeAsked
    <3>4. QED
      BY <3>2, <3>3
  <2>7. CASE DecideReject(p)
    <3>1. row'[d] = [row[d] EXCEPT !.fee = "rejected", !.mode = "self", !.cash
        = NoFee]
      BY <1>0, <2>7, Table DEF DecideReject, StillProposed, Update
    <3>2. row'[d] \in Row
      <4>1. [row[d] EXCEPT !.fee = "rejected", !.mode = "self",
                           !.cash = NoFee] \in Row
        BY <1>r DEF Row, Statuses, Modes, FeeStatuses
      <4>2. QED
        BY <3>1, <4>1
    <3>3. RowOK(row'[d])
      BY <1>0, <2>7, <3>1, Table
      DEF DecideReject, StillProposed, RowOK, Row, InHands, ActiveStatuses, MayBeAsked
    <3>4. QED
      BY <3>2, <3>3
  <2>8. QED
    BY <2>1, <2>2, <2>3, <2>4, <2>5, <2>6, <2>7
<1>2. row' = [row EXCEPT ![d] = row'[d]] /\ End(p)
  BY <1>0
  DEF HandoverApply, DeliverApply, PickupApply, FailApply, LinkWrite,
      DecideAccept, DecideReject, Update
<1>3. QED
  BY <1>0, <1>1, <1>2, OneRow, EndType DEF IInv, TypeOK, CallsOK, LinkCalls

(***************************************************************************)
(* The cancellation that follows a cancelled order keeps RowOK whatever it *)
(* overwrites: nothing RowOK asks of a cancelled row can be missing.       *)
(***************************************************************************)
LEMMA CancelOrderOK ==
  ASSUME IInv, NEW p \in Procs,
         CancelOrderBegin(p) \/ \E d \in Deliveries : CancelOrderRow(p, d)
  PROVE  IInv'
<1>1. CASE CancelOrderBegin(p)
  <2> DEFINE live == {d \in Deliveries : row[d].status \in TRANSITIONS.cancel.from}
             call == [IdleCall EXCEPT !.step = "cancel_rows", !.todo = live]
  <2>1. call \in LinkCalls
    BY IdleCallType DEF LinkCalls, Call, CallSteps
  <2>2. UNCHANGED row /\ calls' = [calls EXCEPT ![p] = call]
    BY <1>1 DEF CancelOrderBegin
  <2>3. QED
    BY <2>1, <2>2, NoRow DEF IInv, TypeOK, CallsOK, LinkCalls
<1>2. ASSUME NEW d \in Deliveries, CancelOrderRow(p, d)
      PROVE  IInv'
  <2>0. /\ row[d] \in Row /\ RowOK(row[d]) /\ row \in [Deliveries -> Row]
        /\ calls[p] \in LinkCalls /\ calls \in [Procs -> LinkCalls]
    BY DEF IInv, TypeOK, RowsOK, CallsOK
  <2>1. row'[d] = [row[d] EXCEPT !.status = "cancelled"]
    BY <1>2, <2>0 DEF CancelOrderRow, Update
  <2>2. row'[d] \in Row
    BY <2>0, <2>1 DEF Row, Statuses
  <2>3. RowOK(row'[d])
    BY <2>0, <2>1 DEF RowOK, Row, InHands, ActiveStatuses, MayBeAsked
  <2>4. row' = [row EXCEPT ![d] = row'[d]]
    BY <2>0, <1>2 DEF CancelOrderRow, Update
  <2>5. [calls[p] EXCEPT !.todo = calls[p].todo \ {d}] \in LinkCalls
    BY <2>0 DEF LinkCalls, Call
  <2>6. calls' = [calls EXCEPT ![p] = [calls[p] EXCEPT !.todo = calls[p].todo \ {d}]]
    BY <1>2, <2>0 DEF CancelOrderRow
  <2>7. QED
    BY <2>0, <2>2, <2>3, <2>4, <2>5, <2>6, OneRow DEF IInv, TypeOK, CallsOK, LinkCalls
<1>3. QED
  BY <1>1, <1>2

-----------------------------------------------------------------------------
\* The initial rows are fresh, the calls idle
LEMMA InitOK == Init => IInv
<1> SUFFICES ASSUME Init PROVE IInv
  OBVIOUS
<1>1. ASSUME NEW m \in Modes
      PROVE  NewRow(m) \in Row /\ RowOK(NewRow(m))
  <2>1. 0 \in Codes /\ 1 \in Codes \ {0} /\ 1 \in Codes /\ 0 \in Tries
    BY ConstantsAssumption DEF Codes, Tries
  <2>2. QED
    BY <1>1, <2>1 DEF NewRow, Row, Statuses, FeeStatuses, RowOK, InHands,
                      ActiveStatuses, MayBeAsked
<1>2. row \in [Deliveries -> Row] /\ RowsOK
  BY <1>1 DEF Init, RowsOK
<1>3. calls \in [Procs -> LinkCalls]
  BY IdleCallType DEF Init
<1>4. QED
  BY <1>2, <1>3 DEF IInv, TypeOK, CallsOK, LinkCalls

LEMMA StepOK == IInv /\ [Next]_vars => IInv'
<1> SUFFICES ASSUME IInv, [Next]_vars PROVE IInv'
  OBVIOUS
<1>1. ASSUME NEW d \in Deliveries, StoreStep(d) PROVE IInv'
  BY <1>1, StoreStepOK
<1>2. ASSUME NEW d \in Deliveries, NEW c \in Couriers, CourierStep(d, c)
      PROVE  IInv'
  BY <1>2, CourierStepOK
<1>3. ASSUME NEW p \in Procs, NEW d \in Deliveries, BeginCall(p, d)
      PROVE  IInv'
  BY <1>3, BeginCallOK
<1>4. ASSUME NEW p \in Procs, CancelOrderBegin(p) PROVE IInv'
  BY <1>4, CancelOrderOK
<1>5. ASSUME NEW p \in Procs, ContinueCall(p) PROVE IInv'
  <2>1. CASE HandoverCode(p) \/ DeliverCode(p)
    BY <2>1, CodeCheckOK
  <2>2. CASE \/ HandoverApply(p)
             \/ \E collected \in BOOLEAN : DeliverApply(p, collected)
             \/ PickupApply(p) \/ FailApply(p) \/ LinkWrite(p)
             \/ DecideAccept(p) \/ DecideReject(p)
    BY <2>2, ApplyOK
  <2>3. CASE \E d \in Deliveries : CancelOrderRow(p, d)
    BY <2>3, CancelOrderOK
  <2>4. CASE Drop(p)
    BY <2>4, NoRow, EndType, Join DEF Drop
  <2>5. QED
    BY <1>5, <2>1, <2>2, <2>3, <2>4 DEF ContinueCall
<1>6. CASE UNCHANGED vars
  BY <1>6 DEF vars, IInv, TypeOK, RowsOK, CallsOK
<1>7. QED
  BY <1>1, <1>2, <1>3, <1>4, <1>5, <1>6 DEF Next

THEOREM Inductive == Spec => []IInv
<1>1. Init => IInv
  BY InitOK
<1>2. IInv /\ [Next]_vars => IInv'
  BY StepOK
<1>3. QED
  BY <1>1, <1>2, PTL DEF Spec

\* Rows and calls keep their types, whichever requests interleave
THEOREM TypeCorrect == Spec => []TypeOK
<1>1. IInv => TypeOK
  BY DEF IInv
<1>2. QED
  BY <1>1, Inductive, PTL

\* courier_id is in step with the status under every interleaving of handlers
THEOREM CourierCorrect == Spec => []CourierMatchesStatus
<1>1. IInv => CourierMatchesStatus
  BY DEF IInv, RowsOK, RowOK, CourierMatchesStatus
<1>2. QED
  BY <1>1, Inductive, PTL

\* What a courier is to collect is the amount for which a yes was recorded:
\* nothing re-prices a delivery between the yes and its end
THEOREM ConsentCorrect == Spec => []FeeConsent
<1>1. IInv => FeeConsent
  BY DEF IInv, RowsOK, RowOK, FeeConsent, InHands, ActiveStatuses, MayBeAsked
<1>2. QED
  BY <1>1, Inductive, PTL

\* A fee for the customer exists only on a platform delivery he pays for
THEOREM FeePlaceCorrect == Spec => []FeeOnlyOnPlatform
<1>1. IInv => FeeOnlyOnPlatform
  BY DEF IInv, RowsOK, RowOK, FeeOnlyOnPlatform
<1>2. QED
  BY <1>1, Inductive, PTL

\* Nothing on the board waits for an answer about its fee
THEOREM BoardCorrect == Spec => []BoardIsSettled
<1>1. ASSUME IInv, NEW d \in Deliveries, row[d].status = "open"
      PROVE  /\ row[d].mode = "platform"
             /\ \/ row[d].payer = "store" /\ row[d].fee = "none"
                \/ row[d].payer = "customer" /\ row[d].fee = "accepted"
  BY <1>1 DEF IInv, TypeOK, RowsOK, RowOK, Row, FeeStatuses, MayBeAsked
<1>2. IInv => BoardIsSettled
  BY <1>1 DEF BoardIsSettled
<1>3. QED
  BY <1>2, Inductive, PTL

\* A courier on the way has a code to hand over against, the customer a link
THEOREM TripCorrect == Spec => []TripHasCodeAndLink
<1>1. IInv => TripHasCodeAndLink
  BY DEF IInv, RowsOK, RowOK, TripHasCodeAndLink
<1>2. QED
  BY <1>1, Inductive, PTL

-----------------------------------------------------------------------------
(* What a step may do to a row                                             *)

LEMMA Allowed ==
  /\ \A s \in {"pending", "open", "assigned"} : <<s, "assigned">> \in AllowedSteps
  /\ \A s \in {"pending", "assigned", "accepted"} : <<s, "open">> \in AllowedSteps
  /\ \A s \in {"open", "assigned", "failed"} : <<s, "pending">> \in AllowedSteps
  /\ \A s \in {"open", "assigned"} : <<s, "accepted">> \in AllowedSteps
  /\ <<"accepted", "picked_up">> \in AllowedSteps
  /\ <<"picked_up", "on_the_way">> \in AllowedSteps
  /\ \A s \in {"pending", "on_the_way"} : <<s, "delivered">> \in AllowedSteps
  /\ <<"on_the_way", "failed">> \in AllowedSteps
  /\ <<"failed", "returned">> \in AllowedSteps
  BY Table DEF AllowedSteps

\* From row value r to row value q: along the table or closed by the order,
\* passed on between couriers only while assigned, and with another courier
\* only where the row leaves the board or is assigned or given up
MoveOK(r, q) ==
  /\ q.status # r.status =>
       <<r.status, q.status>> \in AllowedSteps \/ q.status = "cancelled"
  /\ r.courier # NoCourier /\ q.courier \notin {NoCourier, r.courier}
       => r.status = "assigned"
  /\ q.courier # r.courier =>
       \/ r.status \in {"pending", "open"}
       \/ q.status \in {"pending", "open", "assigned"}

\* A step changes one row at most, and that row by a move
OneRowMoves ==
  \E d \in Deliveries :
    MoveOK(row[d], row'[d]) /\ row' = [row EXCEPT ![d] = row'[d]]

LEMMA UpdateMove ==
  ASSUME TypeOK, NEW d \in Deliveries, NEW q, Update(d, q), MoveOK(row[d], q)
  PROVE  MoveOK(row[d], row'[d]) /\ row' = [row EXCEPT ![d] = row'[d]]
<1>1. row'[d] = q
  BY DEF TypeOK, Update
<1>2. QED
  BY <1>1 DEF Update

LEMMA StoreMove ==
  ASSUME IInv, NEW d \in Deliveries, StoreStep(d)
  PROVE  MoveOK(row[d], row'[d]) /\ row' = [row EXCEPT ![d] = row'[d]]
<1> DEFINE Moved == MoveOK(row[d], row'[d]) /\ row' = [row EXCEPT ![d] = row'[d]]
<1>0. TypeOK /\ row[d] \in Row /\ RowOK(row[d])
  BY DEF IInv, TypeOK, RowsOK
<1>1. CASE PublishForStore(d)
  <2> DEFINE q == [row[d] EXCEPT !.status = "open", !.mode = "platform",
                                 !.payer = "store", !.fee = "none",
                                 !.cash = NoFee]
  <2>1. row[d].status = "pending" /\ Update(d, q)
    BY <1>1, Table DEF PublishForStore
  <2>2. q.status = "open" /\ q.courier = row[d].courier
    BY <1>0 DEF Row
  <2>3. MoveOK(row[d], q)
    <3> HIDE DEF q
    <3> QED  BY <2>1, <2>2, Allowed DEF MoveOK
  <2> HIDE DEF q
  <2>4. QED
    BY <1>0, <2>1, <2>3, UpdateMove
<1>2. ASSUME NEW amount \in Fees, ProposeToCustomer(d, amount)
      PROVE  Moved
  <2> DEFINE q == [row[d] EXCEPT !.mode = "platform", !.payer = "customer",
                                 !.fee = "proposed", !.cash = amount]
  <2>1. Update(d, q)
    BY <1>2 DEF ProposeToCustomer
  <2>2. q.status = row[d].status /\ q.courier = row[d].courier
    BY <1>0 DEF Row
  <2>3. MoveOK(row[d], q)
    <3> HIDE DEF q
    <3> QED  BY <2>2 DEF MoveOK
  <2> HIDE DEF q
  <2>4. QED
    BY <1>0, <2>1, <2>3, UpdateMove
<1>3. CASE Unpublish(d)
  <2> DEFINE q == [row[d] EXCEPT !.status = "pending", !.mode = "self",
                                 !.payer = "store", !.fee = "none",
                                 !.cash = NoFee]
  <2>1. row[d].status \in {"pending", "open"} /\ Update(d, q)
    BY <1>3, Table DEF Unpublish
  <2>2. q.status = "pending" /\ q.courier = row[d].courier
    BY <1>0 DEF Row
  <2>3. MoveOK(row[d], q)
    <3> HIDE DEF q
    <3> QED  BY <2>1, <2>2, Allowed DEF MoveOK
  <2> HIDE DEF q
  <2>4. QED
    BY <1>0, <2>1, <2>3, UpdateMove
<1>4. ASSUME NEW c \in Couriers, NEW superadmin \in BOOLEAN,
             Assign(d, c, superadmin)
      PROVE  Moved
  <2> DEFINE q == [row[d] EXCEPT !.status = "assigned", !.courier = c]
  <2>1. row[d].status \in {"pending", "open", "assigned"} /\ Update(d, q)
    BY <1>4, Table DEF Assign
  <2>2. q.status = "assigned"
    BY <1>0 DEF Row
  <2>3. row[d].courier # NoCourier => row[d].status = "assigned"
    BY <1>0, <2>1 DEF RowOK
  <2>4. MoveOK(row[d], q)
    <3> HIDE DEF q
    <3> QED  BY <2>1, <2>2, <2>3, Allowed DEF MoveOK
  <2> HIDE DEF q
  <2>5. QED
    BY <1>0, <2>1, <2>4, UpdateMove
<1>5. ASSUME NEW s, Update(d, [row[d] EXCEPT !.status = s]),
             <<row[d].status, s>> \in AllowedSteps \/ s = "cancelled"
      PROVE  Moved
  <2> DEFINE q == [row[d] EXCEPT !.status = s]
  <2>1. q.status = s /\ q.courier = row[d].courier
    BY <1>0 DEF Row
  <2>2. MoveOK(row[d], q)
    <3> HIDE DEF q
    <3> QED  BY <1>5, <2>1 DEF MoveOK
  <2>3. Update(d, q)
    BY <1>5
  <2> HIDE DEF q
  <2>4. QED
    BY <1>0, <2>2, <2>3, UpdateMove
<1>6. CASE Cancel(d)
  <2>1. Update(d, [row[d] EXCEPT !.status = "cancelled"])
    BY <1>6, Table DEF Cancel
  <2>2. QED
    BY <1>5, <2>1
<1>7. CASE Returned(d)
  <2>1. /\ row[d].status = "failed"
        /\ Update(d, [row[d] EXCEPT !.status = "returned"])
    BY <1>7, Table DEF Returned
  <2>2. QED
    BY <1>5, <2>1, Allowed
<1>8. CASE Retry(d)
  <2> DEFINE q == [row[d] EXCEPT !.status = "pending", !.courier = NoCourier,
                                 !.code = 0, !.tries = 0, !.track = NoCourier]
  <2>1. row[d].status = "failed" /\ Update(d, q)
    BY <1>8, Table DEF Retry
  <2>2. q.status = "pending" /\ q.courier = NoCourier
    BY <1>0 DEF Row
  <2>3. MoveOK(row[d], q)
    <3> HIDE DEF q
    <3> QED  BY <2>1, <2>2, Allowed DEF MoveOK
  <2> HIDE DEF q
  <2>4. QED
    BY <1>0, <2>1, <2>3, UpdateMove
<1>9. CASE ExpireFee(d)
  <2> DEFINE q == [row[d] EXCEPT !.fee = "expired", !.mode = "self",
                                 !.cash = NoFee]
  <2>1. Update(d, q)
    BY <1>9 DEF ExpireFee
  <2>2. q.status = row[d].status /\ q.courier = row[d].courier
    BY <1>0 DEF Row
  <2>3. MoveOK(row[d], q)
    <3> HIDE DEF q
    <3> QED  BY <2>2 DEF MoveOK
  <2> HIDE DEF q
  <2>4. QED
    BY <1>0, <2>1, <2>3, UpdateMove
<1>10. QED
  BY <1>1, <1>2, <1>3, <1>4, <1>6, <1>7, <1>8, <1>9 DEF StoreStep

LEMMA CourierMove ==
  ASSUME IInv, NEW d \in Deliveries, NEW c \in Couriers, CourierStep(d, c)
  PROVE  MoveOK(row[d], row'[d]) /\ row' = [row EXCEPT ![d] = row'[d]]
<1>0. TypeOK /\ row[d] \in Row /\ RowOK(row[d])
  BY DEF IInv, TypeOK, RowsOK
<1>1. CASE Claim(d, c)
  <2> DEFINE q == [row[d] EXCEPT !.status = "accepted", !.courier = c]
  <2>1. row[d].status = "open" /\ Update(d, q)
    BY <1>1, Table DEF Claim
  <2>2. q.status = "accepted"
    BY <1>0 DEF Row
  <2>3. row[d].courier = NoCourier
    BY <1>0, <2>1 DEF RowOK
  <2>4. MoveOK(row[d], q)
    <3> HIDE DEF q
    <3> QED  BY <2>1, <2>2, <2>3, Allowed DEF MoveOK
  <2> HIDE DEF q
  <2>5. QED
    BY <1>0, <2>1, <2>4, UpdateMove
<1>2. CASE Accept(d, c)
  <2> DEFINE q == [row[d] EXCEPT !.status = "accepted"]
  <2>1. row[d].status = "assigned" /\ Update(d, q)
    BY <1>2, Table DEF Accept
  <2>2. q.status = "accepted" /\ q.courier = row[d].courier
    BY <1>0 DEF Row
  <2>3. MoveOK(row[d], q)
    <3> HIDE DEF q
    <3> QED  BY <2>1, <2>2, Allowed DEF MoveOK
  <2> HIDE DEF q
  <2>4. QED
    BY <1>0, <2>1, <2>3, UpdateMove
<1>3. ASSUME NEW s \in {"pending", "open"},
             <<row[d].status, s>> \in AllowedSteps,
             Update(d, [row[d] EXCEPT !.status = s, !.courier = NoCourier,
                                      !.track = NoCourier])
      PROVE  MoveOK(row[d], row'[d]) /\ row' = [row EXCEPT ![d] = row'[d]]
  <2> DEFINE q == [row[d] EXCEPT !.status = s, !.courier = NoCourier,
                                 !.track = NoCourier]
  <2>1. Update(d, q)
    BY <1>3
  <2>2. q.status = s /\ q.courier = NoCourier
    BY <1>0 DEF Row
  <2>3. MoveOK(row[d], q)
    <3> HIDE DEF q
    <3> QED  BY <1>3, <2>2 DEF MoveOK
  <2> HIDE DEF q
  <2>4. QED
    BY <1>0, <2>1, <2>3, UpdateMove
<1>4. CASE Reject(d, c)
  <2>1. /\ row[d].status = "assigned"
        /\ Update(d, [row[d] EXCEPT !.status = "pending", !.courier = NoCourier,
                                    !.track = NoCourier])
    BY <1>4, Table DEF Reject
  <2>2. QED
    BY <1>3, <2>1, Allowed
<1>5. CASE Release(d, c)
  <2>1. /\ row[d].status \in {"assigned", "accepted"}
        /\ Update(d, [row[d] EXCEPT !.status = "open", !.courier = NoCourier,
                                    !.track = NoCourier])
    BY <1>5, Table DEF Release
  <2>2. <<row[d].status, "open">> \in AllowedSteps
    BY <2>1, Table DEF AllowedSteps
  <2>3. QED
    BY <1>3, <2>1, <2>2
<1>6. CASE Start(d, c)
  <2> DEFINE n == row[d].issued + 1
             q == [row[d] EXCEPT !.status = "on_the_way", !.code = n,
                                 !.issued = n, !.tries = 0, !.track = c]
  <2>1. row[d].status = "picked_up" /\ Update(d, q)
    BY <1>6, Table DEF Start
  <2>2. q.status = "on_the_way" /\ q.courier = row[d].courier
    <3> HIDE DEF n
    <3> QED  BY <1>0 DEF Row
  <2>3. MoveOK(row[d], q)
    <3> HIDE DEF q
    <3> QED  BY <2>1, <2>2, Allowed DEF MoveOK
  <2> HIDE DEF q
  <2>4. QED
    BY <1>0, <2>1, <2>3, UpdateMove
<1>7. CASE Arrived(d, c)
  <2> DEFINE q == [row[d] EXCEPT !.arrived = row[d].code]
  <2>1. Update(d, q)
    BY <1>7 DEF Arrived
  <2>2. q.status = row[d].status /\ q.courier = row[d].courier
    BY <1>0 DEF Row
  <2>3. MoveOK(row[d], q)
    <3> HIDE DEF q
    <3> QED  BY <2>2 DEF MoveOK
  <2> HIDE DEF q
  <2>4. QED
    BY <1>0, <2>1, <2>3, UpdateMove
<1>8. QED
  BY <1>1, <1>2, <1>4, <1>5, <1>6, <1>7 DEF CourierStep

LEMMA NoMove ==
  ASSUME TypeOK, UNCHANGED row
  PROVE  OneRowMoves
<1>1. PICK d : d \in Deliveries
  BY ConstantsAssumption
<1>2. row' = [row EXCEPT ![d] = row'[d]]
  BY <1>1 DEF TypeOK
<1>3. QED
  BY <1>1, <1>2 DEF OneRowMoves, MoveOK

LEMMA CallMove ==
  ASSUME IInv, NEW p \in Procs, ContinueCall(p)
  PROVE  OneRowMoves
<1> DEFINE d == calls[p].d
<1>0. /\ d \in Deliveries /\ row[d] \in Row /\ RowOK(row[d])
      /\ row \in [Deliveries -> Row] /\ TypeOK
  BY DEF IInv, TypeOK, RowsOK, CallsOK, LinkCalls, Call
<1>1. ASSUME NEW f \in Deliveries, MoveOK(row[f], row'[f]),
             row' = [row EXCEPT ![f] = row'[f]]
      PROVE  OneRowMoves
  BY <1>1 DEF OneRowMoves
<1>2. CASE UNCHANGED row
  BY <1>2, NoMove DEF IInv
<1>3. ASSUME NEW s, <<row[d].status, s>> \in AllowedSteps,
              Update(d, [row[d] EXCEPT !.status = s])
       PROVE  OneRowMoves
  <2> DEFINE q == [row[d] EXCEPT !.status = s]
  <2>1. Update(d, q)
    BY <1>3
  <2> HIDE DEF d
  <2>2. q.status = s /\ q.courier = row[d].courier
    BY <1>0 DEF Row
  <2>3. MoveOK(row[d], q)
    <3> HIDE DEF q
    <3> QED  BY <1>3, <2>2 DEF MoveOK
  <2> HIDE DEF q
  <2>4. QED
    BY <1>0, <1>1, <2>1, <2>3, UpdateMove
<1>4. CASE CodeRefused(p) /\ ~UNCHANGED row
  <2> DEFINE n == row[d].tries + 1
  <2>1. Update(d, [row[d] EXCEPT !.tries = n])
    BY <1>4 DEF CodeRefused
  <2> HIDE DEF n, d
  <2>2. row' = [row EXCEPT ![d] = row'[d]] /\ row'[d] = [row[d] EXCEPT !.tries = n]
    BY <1>0, <2>1 DEF Update
  <2>3. MoveOK(row[d], row'[d])
    BY <1>0, <2>2 DEF MoveOK, Row
  <2>4. QED
    BY <1>0, <1>1, <2>2, <2>3
<1>5. CASE HandoverApply(p)
  <2>1. /\ row[d].status = "pending"
        /\ Update(d, [row[d] EXCEPT !.status = "delivered"])
    BY <1>5, Table DEF HandoverApply
  <2> HIDE DEF d
  <2>2. /\ row' = [row EXCEPT ![d] = row'[d]]
        /\ row'[d] = [row[d] EXCEPT !.status = "delivered"]
    BY <1>0, <2>1 DEF Update
  <2>3. MoveOK(row[d], row'[d])
    BY <1>0, <2>1, <2>2, Allowed DEF MoveOK, Row
  <2>4. QED
    BY <1>0, <1>1, <2>2, <2>3
<1>6. ASSUME NEW collected \in BOOLEAN, DeliverApply(p, collected)
      PROVE  OneRowMoves
  <2> DEFINE paid == IF calls[p].cash # NoFee /\ collected
                       THEN "paid" ELSE row[d].fee
  <2>1. /\ row[d].status = "on_the_way"
        /\ Update(d, [row[d] EXCEPT !.status = "delivered", !.fee = paid])
    BY <1>6, Table DEF DeliverApply
  <2> HIDE DEF paid, d
  <2>2. /\ row' = [row EXCEPT ![d] = row'[d]]
        /\ row'[d] = [row[d] EXCEPT !.status = "delivered", !.fee = paid]
    BY <1>0, <2>1 DEF Update
  <2>3. MoveOK(row[d], row'[d])
    BY <1>0, <2>1, <2>2, Allowed DEF MoveOK, Row
  <2>4. QED
    BY <1>0, <1>1, <2>2, <2>3
<1>7. CASE PickupApply(p)
  <2>1. /\ row[d].status = "accepted"
        /\ Update(d, [row[d] EXCEPT !.status = "picked_up"])
    BY <1>7, Table DEF PickupApply
  <2>2. QED
    BY <2>1, <1>3, Allowed
<1>8. CASE FailApply(p)
  <2>1. /\ row[d].status = "on_the_way"
        /\ Update(d, [row[d] EXCEPT !.status = "failed"])
    BY <1>8, Table DEF FailApply
  <2>2. QED
    BY <2>1, <1>3, Allowed
<1>9. CASE LinkWrite(p)
  BY <1>0, <1>1, <1>9 DEF LinkWrite, Update, MoveOK, Row
<1>10. CASE DecideAccept(p)
  <2> DEFINE q == [row[d] EXCEPT !.status = "open", !.fee = "accepted",
                                 !.agreed = row[d].cash]
  <2>1. row[d].status = "pending" /\ Update(d, q)
    BY <1>10, Table DEF DecideAccept, StillProposed
  <2> HIDE DEF d
  <2>2. q.status = "open" /\ q.courier = row[d].courier
    BY <1>0 DEF Row
  <2>3. MoveOK(row[d], q)
    <3> HIDE DEF q
    <3> QED  BY <2>1, <2>2, Allowed DEF MoveOK
  <2> HIDE DEF q
  <2>4. QED
    BY <1>0, <1>1, <2>1, <2>3, UpdateMove
<1>11. CASE DecideReject(p)
  BY <1>0, <1>1, <1>11 DEF DecideReject, Update, MoveOK, Row
<1>12. ASSUME NEW f \in Deliveries, CancelOrderRow(p, f)
       PROVE  OneRowMoves
  <2>1. row[f] \in Row
    BY <1>0
  <2>2. QED
    BY <1>0, <1>1, <1>12, <2>1 DEF CancelOrderRow, Update, MoveOK, Row
<1>13. QED
  BY <1>2, <1>4, <1>5, <1>6, <1>7, <1>8, <1>9, <1>10, <1>11, <1>12
  DEF ContinueCall, HandoverCode, DeliverCode, CodeAccepted, Drop

LEMMA EveryMove ==
  ASSUME IInv, [Next]_vars
  PROVE  OneRowMoves
<1>1. ASSUME NEW d \in Deliveries, StoreStep(d)
      PROVE  OneRowMoves
  BY <1>1, StoreMove DEF OneRowMoves
<1>2. ASSUME NEW d \in Deliveries, NEW c \in Couriers, CourierStep(d, c)
      PROVE  OneRowMoves
  BY <1>2, CourierMove DEF OneRowMoves
<1>3. ASSUME NEW p \in Procs, NEW d \in Deliveries,
             BeginCall(p, d) \/ CancelOrderBegin(p)
      PROVE  UNCHANGED row
  BY <1>3
  DEF BeginCall, HandoverBegin, DeliverBegin, PickupBegin, FailBegin, LinkBegin,
      DecideBegin, CancelOrderBegin
<1>4. CASE UNCHANGED row
  BY <1>4, NoMove DEF IInv
<1>5. QED
  BY <1>1, <1>2, <1>3, <1>4, CallMove, ConstantsAssumption DEF Next, vars

\* The same of every row
LEMMA AllMoves ==
  ASSUME IInv, [Next]_vars
  PROVE  \A e \in Deliveries : MoveOK(row[e], row'[e])
  BY EveryMove DEF OneRowMoves, IInv, TypeOK, MoveOK

\* No stale request moves a delivery outside the table; a cancelled order may
THEOREM TableCorrect == Spec => TableOrOrderCancelled
<1>1. IInv /\ [Next]_vars => [\A d \in Deliveries :
          row'[d].status # row[d].status =>
            \/ <<row[d].status, row'[d].status>> \in AllowedSteps
            \/ row'[d].status = "cancelled"]_vars
  BY AllMoves DEF MoveOK
<1>2. QED
  BY <1>1, Inductive, PTL DEF Spec, TableOrOrderCancelled

\* An accepted delivery is never passed directly to another courier
THEOREM SwapCorrect == Spec => NoSwapAfterAccept
<1>1. IInv /\ [Next]_vars => [\A d \in Deliveries :
          /\ row[d].courier # NoCourier
          /\ row'[d].courier \notin {NoCourier, row[d].courier}
          => row[d].status = "assigned"]_vars
  BY AllMoves DEF MoveOK
<1>2. QED
  BY <1>1, Inductive, PTL DEF Spec, NoSwapAfterAccept

-----------------------------------------------------------------------------
(* The refinement of Custody                                               *)

HolderOf(r) ==
  IF PhaseOf(r.status) \in {"waiting", "closed"} THEN NoCourier ELSE r.courier

\* The table, read from the statuses: Allowed, the other way round
LEMMA AllowedOnly ==
  ASSUME NEW s, NEW t, <<s, t>> \in AllowedSteps
  PROVE  \/ t = "assigned" /\ s \in {"pending", "open", "assigned"}
         \/ t = "open" /\ s \in {"pending", "assigned", "accepted"}
         \/ t = "pending" /\ s \in {"open", "assigned", "failed"}
         \/ t = "accepted" /\ s \in {"open", "assigned"}
         \/ t = "picked_up" /\ s = "accepted"
         \/ t = "on_the_way" /\ s = "picked_up"
         \/ t = "delivered" /\ s \in {"pending", "on_the_way"}
         \/ t = "failed" /\ s = "on_the_way"
         \/ t = "returned" /\ s = "failed"
         \/ t = "cancelled" /\ s \in {"pending", "open", "assigned", "accepted",
                                      "picked_up", "on_the_way", "failed"}
  BY Table DEF AllowedSteps

LEMMA Phases ==
  /\ PhaseOf("pending") = "waiting" /\ PhaseOf("open") = "waiting"
  /\ PhaseOf("assigned") = "offered" /\ PhaseOf("accepted") = "bound"
  /\ PhaseOf("picked_up") = "carried" /\ PhaseOf("on_the_way") = "carried"
  /\ PhaseOf("failed") = "missed" /\ PhaseOf("delivered") = "closed"
  /\ PhaseOf("returned") = "closed" /\ PhaseOf("cancelled") = "closed"
  BY DEF PhaseOf

\* What a move is in Custody, from phase P and holder h to phase Q and holder k
CustodyMove(P, h, Q, k) ==
  \/ Q = P /\ k = h
  \/ P \in {"waiting", "offered"} /\ Q = "offered" /\ k \in Couriers
  \/ P = "waiting" /\ Q = "bound" /\ k \in Couriers
  \/ P = "offered" /\ Q = "bound" /\ k = h
  \/ P \in {"offered", "bound"} /\ Q = "waiting" /\ k = NoCourier
  \/ P = "bound" /\ Q = "carried" /\ k = h
  \/ P = "carried" /\ Q = "missed" /\ k = h
  \/ P = "missed" /\ Q = "waiting" /\ k = NoCourier
  \/ P # "closed" /\ Q = "closed" /\ k = NoCourier

LEMMA MoveIsCustodyMove ==
  ASSUME NEW r \in Row, NEW q \in Row, RowOK(r), RowOK(q), MoveOK(r, q)
  PROVE  CustodyMove(PhaseOf(r.status), HolderOf(r), PhaseOf(q.status), HolderOf(q))
<1>1. /\ r.status \in Statuses
      /\ q.status \in {"assigned", "accepted", "picked_up", "on_the_way", "failed"}
           => q.courier \in Couriers
  BY DEF Row, RowOK, InHands, ActiveStatuses
<1>2. CASE q.status = r.status
  <2>1. CASE r.status = "assigned"
    BY <1>1, <1>2, <2>1, Phases DEF CustodyMove, HolderOf
  <2>2. CASE r.status \in {"accepted", "picked_up", "on_the_way", "failed"}
    <3>1. q.courier = r.courier
      BY <1>2, <2>2 DEF MoveOK
    <3>2. QED
      BY <1>2, <3>1 DEF CustodyMove, HolderOf
  <2>3. CASE r.status \in {"pending", "open", "delivered", "returned", "cancelled"}
    BY <1>2, <2>3, Phases DEF CustodyMove, HolderOf
  <2>4. QED
    BY <1>1, <2>1, <2>2, <2>3 DEF Statuses
<1>3. CASE q.status # r.status /\ q.status = "cancelled"
  BY <1>1, <1>3, Phases DEF CustodyMove, HolderOf, Statuses
<1>4. CASE q.status # r.status /\ q.status # "cancelled"
  <2>1. <<r.status, q.status>> \in AllowedSteps
    BY <1>4 DEF MoveOK
  <2>2. q.status \in {"accepted", "picked_up", "on_the_way", "failed"}
          /\ r.status \notin {"pending", "open"} => q.courier = r.courier
    BY DEF MoveOK
  <2>3. QED
    BY <1>1, <1>4, <2>1, <2>2, AllowedOnly, Phases DEF CustodyMove, HolderOf
<1>5. QED
  BY <1>2, <1>3, <1>4

\* One handler's step is one step of Custody, or changes nothing it can see
LEMMA CustodyStep == IInv /\ IInv' /\ [Next]_vars => [C!Next]_<<phases, holders>>
<1> SUFFICES ASSUME IInv, IInv', [Next]_vars
             PROVE  [C!Next]_<<phases, holders>>
  OBVIOUS
<1>1. PICK d \in Deliveries :
        MoveOK(row[d], row'[d]) /\ row' = [row EXCEPT ![d] = row'[d]]
  BY EveryMove DEF OneRowMoves
<1> DEFINE P == PhaseOf(row[d].status)
           h == HolderOf(row[d])
           Q == PhaseOf(row'[d].status)
           k == HolderOf(row'[d])
<1>2. CustodyMove(P, h, Q, k)
  BY <1>1, MoveIsCustodyMove DEF IInv, TypeOK, RowsOK
<1>3. /\ phases \in [Deliveries -> {PhaseOf(row[e].status) : e \in Deliveries}]
      /\ phases[d] = P
      /\ holders[d] = h
  BY DEF phases, holders, HolderOf
<1>4. phases' = [phases EXCEPT ![d] = Q]
  BY <1>1 DEF phases, IInv, TypeOK
<1>5. holders' = [holders EXCEPT ![d] = k]
  BY <1>1 DEF phases, holders, HolderOf, IInv, TypeOK
<1>6. phases = [phases EXCEPT ![d] = phases[d]]
      /\ holders = [holders EXCEPT ![d] = holders[d]]
  BY DEF phases, holders
<1> HIDE DEF P, h, Q, k
<1>7. CASE Q = P /\ k = h
  BY <1>3, <1>4, <1>5, <1>6, <1>7
<1>8. CASE ~(Q = P /\ k = h)
  <2>1. C!Enter(d, Q, k)
    BY <1>4, <1>5 DEF C!Enter
  <2>2. C!Next
    BY <1>2, <1>3, <1>8, <2>1
    DEF CustodyMove, C!Next, C!Offer, C!Take, C!Agree, C!GiveUp, C!Load, C!Miss,
        C!TakeBack, C!Close
  <2>3. QED
    BY <2>2
<1>9. QED
  BY <1>7, <1>8

\* The rows under all handlers and stale calls keep the promise of Custody: who
\* accepted answers for the goods until he gives them up, or the row is closed
THEOREM CustodyKept == Spec => ImplementsCustody
<1>1. Init => C!Init
  <2> SUFFICES ASSUME Init PROVE C!Init
    OBVIOUS
  <2>1. \A d \in Deliveries : row[d].status = "pending"
    BY DEF Init, NewRow
  <2>2. \A d \in Deliveries : phases[d] = "waiting" /\ holders[d] = NoCourier
    BY <2>1, Phases DEF phases, holders
  <2>3. QED
    BY <2>2 DEF C!Init, phases, holders
<1>2. IInv /\ IInv' /\ [Next]_vars => [C!Next]_C!custody
  BY CustodyStep DEF C!custody
<1>3. QED
  BY <1>1, <1>2, Inductive, PTL DEF Spec, ImplementsCustody, C!Spec

=============================================================================
