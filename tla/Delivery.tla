------------------------------- MODULE Delivery -------------------------------
(***************************************************************************)
(* The delivery rows of one order under the concurrent request handlers of *)
(* deliveries/deliveries.service.ts.                                       *)
(*                                                                         *)
(* A handler that does all its work in one transaction on the locked row   *)
(* (SELECT ... FOR UPDATE) is one action.  A handler that reads the row    *)
(* without the lock and comes back to it later - after a code check in a   *)
(* transaction of its own, after an upload, or with a stale instance - is  *)
(* a call held by a process p: one action per database access, any other   *)
(* handler running in between, and Drop when the request dies (an upload   *)
(* that fails, a closed pool, a restart).                                  *)
(***************************************************************************)
EXTENDS Naturals, DeliveryRules

CONSTANTS
  Deliveries,   \* the delivery rows of the order
  Couriers,     \* couriers, of the store and of the platform
  Procs,        \* requests that may be between two database accesses
  Fees,         \* amounts platformFee may quote
  MaxTries,     \* PROOF_CODE_MAX_ATTEMPTS
  MaxCodes,     \* bound: hand-over codes generated for one row
  NoCourier,    \* courier_id IS NULL
  NoFee         \* fee_cash IS NULL

ASSUME ConstantsAssumption ==
  /\ Deliveries # {}
  /\ MaxTries \in Nat \ {0}
  /\ MaxCodes \in Nat \ {0}
  /\ NoCourier \notin Couriers
  /\ NoFee \notin Fees

VARIABLES
  row,     \* row[d]: the columns of deliveries that the handlers decide on
  calls    \* calls[p]: the handler p is in the middle of, and what it has read

vars == <<row, calls>>

FeeStatuses == {"none", "proposed", "accepted", "rejected", "expired", "paid"}

(***************************************************************************)
(* A hand-over code is its number in the row's history of codes: `code` is *)
(* the one whose hash is stored (0: null), `issued` the last generated.    *)
(* `track` is the courier for whose trip the stored tracking token was     *)
(* made (NoCourier: null), `arrived` the code of the trip on which         *)
(* arrived_at was set (0: null).                                           *)
(*                                                                         *)
(* `agreed` is history, not a column: the amount that stood as the         *)
(* proposal when the customer's last yes was recorded.                     *)
(***************************************************************************)
Codes == 0 .. MaxCodes
Tries == 0 .. MaxTries

Row == [status  : Statuses,
        mode    : Modes,
        courier : Couriers \cup {NoCourier},
        payer   : {"store", "customer"},
        fee     : FeeStatuses,
        cash    : Fees \cup {NoFee},
        agreed  : Fees \cup {NoFee},
        code    : Codes,
        issued  : Codes \ {0},
        tries   : Tries,
        track   : Couriers \cup {NoCourier},
        arrived : Codes]

CallSteps == {"idle", "handover_code", "handover_apply", "deliver_code",
              "deliver_apply", "pickup_apply", "fail_apply", "link_write",
              "decide", "cancel_rows"}

\* by: the courier of the request, or the one read; cash: fee_cash as read
Call == [step : CallSteps,
         d    : Deliveries,
         by   : Couriers \cup {NoCourier},
         code : Codes,
         cash : Fees \cup {NoFee},
         todo : SUBSET Deliveries]

TypeOK ==
  /\ row \in [Deliveries -> Row]
  /\ calls \in [Procs -> Call]

IdleCall == [step |-> "idle", d |-> CHOOSE d \in Deliveries : TRUE,
             by |-> NoCourier, code |-> 0, cash |-> NoFee, todo |-> {}]

\* The row `create` commits: pending, no courier, a first hand-over code
NewRow(m) == [status |-> "pending", mode |-> m, courier |-> NoCourier,
              payer |-> "store", fee |-> "none", cash |-> NoFee,
              agreed |-> NoFee, code |-> 1, issued |-> 1, tries |-> 0,
              track |-> NoCourier, arrived |-> 0]

Init ==
  /\ row \in [Deliveries -> {NewRow(m) : m \in Modes}]
  /\ calls = [p \in Procs |-> IdleCall]

Idle(p) == calls[p].step = "idle"
At(p, s) == calls[p].step = s
\* d.update(...): the columns of row d become r
Update(d, r) == row' = [row EXCEPT ![d] = r]
End(p) == calls' = [calls EXCEPT ![p] = IdleCall]

-----------------------------------------------------------------------------
(* Backoffice: handlers that hold the row's lock from start to end         *)

(***************************************************************************)
(* publish with fee_payer = store: the row goes on the board at once.      *)
(***************************************************************************)
PublishForStore(d) ==
  /\ row[d].mode # "pickup"
  /\ row[d].courier = NoCourier
  /\ row[d].status \in TRANSITIONS.publish.from
  /\ Update(d, [row[d] EXCEPT !.status = TRANSITIONS.publish.to,
                              !.mode = "platform",
                              !.payer = "store",
                              !.fee = "none",
                              !.cash = NoFee])
  /\ UNCHANGED calls

(***************************************************************************)
(* publish with fee_payer = customer: the row stays pending, the amount is *)
(* proposed to the customer.  A proposal may replace another.              *)
(***************************************************************************)
ProposeToCustomer(d, amount) ==
  /\ row[d].mode # "pickup"
  /\ row[d].courier = NoCourier
  /\ row[d].status = "pending"
  /\ Update(d, [row[d] EXCEPT !.mode = "platform",
                              !.payer = "customer",
                              !.fee = "proposed",
                              !.cash = amount])
  /\ UNCHANGED calls

\* unpublish: an unanswered proposal is withdrawn, or an open row taken back
Unpublish(d) ==
  /\ \/ row[d].status = "pending" /\ row[d].fee = "proposed"
     \/ row[d].status \in TRANSITIONS.unpublish.from
  /\ Update(d, [row[d] EXCEPT !.status = TRANSITIONS.unpublish.to,
                              !.mode = "self",
                              !.payer = "store",
                              !.fee = "none",
                              !.cash = NoFee])
  /\ UNCHANGED calls

\* Mutant (FeeConsent): assign without looking at an unanswered proposal
AssignWhileAsked(d, c, superadmin) ==
  /\ row[d].status = "open" => superadmin
  /\ row[d].status \in TRANSITIONS.assign.from
  /\ Update(d, [row[d] EXCEPT !.status = TRANSITIONS.assign.to,
                              !.courier = c])
  /\ UNCHANGED calls

\* assign: an open row only by a superadmin, none while the customer is asked
Assign(d, c, superadmin) ==
  /\ row[d].status = "open" => superadmin
  /\ row[d].fee # "proposed"
  /\ row[d].status \in TRANSITIONS.assign.from
  /\ Update(d, [row[d] EXCEPT !.status = TRANSITIONS.assign.to,
                              !.courier = c])
  /\ UNCHANGED calls

Cancel(d) ==
  /\ row[d].status \in TRANSITIONS.cancel.from
  /\ Update(d, [row[d] EXCEPT !.status = TRANSITIONS.cancel.to])
  /\ UNCHANGED calls

Returned(d) ==
  /\ row[d].status \in TRANSITIONS.giveBack.from
  /\ Update(d, [row[d] EXCEPT !.status = TRANSITIONS.giveBack.to])
  /\ UNCHANGED calls

\* retry: no courier, no code, no link; mode, fee and arrived_at stay
Retry(d) ==
  /\ row[d].status \in TRANSITIONS.retry.from
  /\ Update(d, [row[d] EXCEPT !.status = TRANSITIONS.retry.to,
                              !.courier = NoCourier,
                              !.code = 0,
                              !.tries = 0,
                              !.track = NoCourier])
  /\ UNCHANGED calls

\* tickFeeOffers: the expiry, re-checked under the lock
ExpireFee(d) ==
  /\ row[d].status = "pending"
  /\ row[d].fee = "proposed"
  /\ Update(d, [row[d] EXCEPT !.fee = "expired",
                              !.mode = "self",
                              !.cash = NoFee])
  /\ UNCHANGED calls

-----------------------------------------------------------------------------
(* The courier's application: handlers that hold the lock throughout       *)

\* courierGet: the courier sees only the deliveries that are his
Owns(d, c) == row[d].courier = c

\* Mutant (ImplementsCustody): claim without the re-check under the lock
ClaimWithoutRecheck(d, c) ==
  /\ row[d].mode = "platform"
  /\ row[d].status \in {"open", "accepted"}
  /\ Update(d, [row[d] EXCEPT !.status = TRANSITIONS.accept.to,
                              !.courier = c])
  /\ UNCHANGED calls

\* claim: the first courier wins; open -> assigned -> accepted in one commit
Claim(d, c) ==
  /\ row[d].mode = "platform"
  /\ row[d].status \in TRANSITIONS.claim.from
  /\ Update(d, [row[d] EXCEPT !.status = TRANSITIONS.accept.to,
                              !.courier = c])
  /\ UNCHANGED calls

Accept(d, c) ==
  /\ Owns(d, c)
  /\ row[d].status \in TRANSITIONS.accept.from
  /\ Update(d, [row[d] EXCEPT !.status = TRANSITIONS.accept.to])
  /\ UNCHANGED calls

\* reject of a store's delivery: back to pending
Reject(d, c) ==
  /\ Owns(d, c)
  /\ row[d].mode # "platform"
  /\ row[d].status \in TRANSITIONS.reject.from
  /\ Update(d, [row[d] EXCEPT !.status = TRANSITIONS.reject.to,
                              !.courier = NoCourier,
                              !.track = NoCourier])
  /\ UNCHANGED calls

\* Mutant (ImplementsCustody): a platform courier may give up picked-up goods
ReleaseAfterPickup(d, c) ==
  /\ Owns(d, c)
  /\ row[d].mode = "platform"
  /\ row[d].status \in TRANSITIONS.release.from \cup {"picked_up"}
  /\ Update(d, [row[d] EXCEPT !.status = TRANSITIONS.release.to,
                              !.courier = NoCourier,
                              !.track = NoCourier])
  /\ UNCHANGED calls

\* reject of a platform delivery, even after it was accepted: back on the board
Release(d, c) ==
  /\ Owns(d, c)
  /\ row[d].mode = "platform"
  /\ row[d].status \in TRANSITIONS.release.from
  /\ Update(d, [row[d] EXCEPT !.status = TRANSITIONS.release.to,
                              !.courier = NoCourier,
                              !.track = NoCourier])
  /\ UNCHANGED calls

\* Mutant (TripHasCodeAndLink): start keeps the code the row has
StartWithOldCode(d, c) ==
  /\ Owns(d, c)
  /\ row[d].status \in TRANSITIONS.start.from
  /\ Update(d, [row[d] EXCEPT !.status = TRANSITIONS.start.to, !.track = c])
  /\ UNCHANGED calls

\* start: a new hand-over code and a new tracking link for this trip
Start(d, c) ==
  /\ Owns(d, c)
  /\ row[d].status \in TRANSITIONS.start.from
  /\ row[d].issued < MaxCodes        \* bound on the model, not in the code
  /\ Update(d, [row[d] EXCEPT !.status = TRANSITIONS.start.to,
                              !.code = row[d].issued + 1,
                              !.issued = row[d].issued + 1,
                              !.tries = 0,
                              !.track = c])
  /\ UNCHANGED calls

\* courierArrived: recorded once, if arrived_at is still null
Arrived(d, c) ==
  /\ Owns(d, c)
  /\ row[d].status = "on_the_way"
  /\ row[d].arrived = 0
  /\ Update(d, [row[d] EXCEPT !.arrived = row[d].code])
  /\ UNCHANGED calls

-----------------------------------------------------------------------------
(* Handing over against the customer's code                                *)

\* The transaction that compares the code typed in with the stored hash
Blocked(d) == row[d].tries >= MaxTries
CodeMatches(d, g) == row[d].code # 0 /\ g = row[d].code

\* blocked: nothing is written; wrong: one try more.  Either way the call ends
CodeRefused(p) ==
  LET d == calls[p].d IN
  /\ \/ Blocked(d) /\ UNCHANGED row
     \/ /\ ~Blocked(d)
        /\ ~CodeMatches(d, calls[p].code)
        /\ Update(d, [row[d] EXCEPT !.tries = row[d].tries + 1])
  /\ End(p)

CodeAccepted(p, next) ==
  /\ ~Blocked(calls[p].d)
  /\ CodeMatches(calls[p].d, calls[p].code)
  /\ calls' = [calls EXCEPT ![p].step = next]
  /\ UNCHANGED row

\* handover: the store's own hand-over (no courier), checked without the lock.
\* g is any code the customer was ever shown, or 0 for wrong digits.
HandoverBegin(p, d, g) ==
  /\ Idle(p)
  /\ row[d].courier = NoCourier
  /\ row[d].mode # "platform"
  /\ row[d].status \in TRANSITIONS.handover.from
  /\ calls' = [calls EXCEPT ![p] = [IdleCall EXCEPT !.step = "handover_code",
                                                    !.d = d, !.code = g]]
  /\ UNCHANGED row

HandoverCode(p) ==
  /\ At(p, "handover_code")
  /\ CodeRefused(p) \/ CodeAccepted(p, "handover_apply")

\* The second transaction re-checks the status only, through the table
HandoverApply(p) ==
  LET d == calls[p].d IN
  /\ At(p, "handover_apply")
  /\ row[d].status \in TRANSITIONS.handover.from
  /\ Update(d, [row[d] EXCEPT !.status = TRANSITIONS.handover.to])
  /\ End(p)

(***************************************************************************)
(* courierDeliver: checks without the lock (the fee the customer owes is   *)
(* read here), the code in a transaction of its own - or photo and         *)
(* signature instead of a code -, uploads, then the locked transition.     *)
(***************************************************************************)
DeliverBegin(p, d, c, g, withCode) ==
  /\ Idle(p)
  /\ Owns(d, c)
  /\ row[d].status \in TRANSITIONS.deliver.from
  /\ ~withCode => g = 0
  /\ calls' = [calls EXCEPT ![p] =
       [IdleCall EXCEPT
          !.step = IF withCode THEN "deliver_code" ELSE "deliver_apply",
          !.d = d, !.by = c, !.code = g, !.cash = row[d].cash]]
  /\ UNCHANGED row

DeliverCode(p) ==
  /\ At(p, "deliver_code")
  /\ Owns(calls[p].d, calls[p].by)
  /\ CodeRefused(p) \/ CodeAccepted(p, "deliver_apply")

\* Mutant (TableOrOrderCancelled): delivered without the re-check of the status
DeliverWithoutRecheck(p, collected) ==
  LET d == calls[p].d IN
  /\ At(p, "deliver_apply")
  /\ Owns(d, calls[p].by)
  /\ Update(d, [row[d] EXCEPT !.status = TRANSITIONS.deliver.to])
  /\ End(p)

\* collected: the courier reports that some of the fee was paid in cash
DeliverApply(p, collected) ==
  LET d == calls[p].d IN
  /\ At(p, "deliver_apply")
  /\ Owns(d, calls[p].by)
  /\ row[d].status \in TRANSITIONS.deliver.from
  /\ Update(d, [row[d] EXCEPT
                    !.status = TRANSITIONS.deliver.to,
                    !.fee = IF calls[p].cash # NoFee /\ collected
                              THEN "paid" ELSE row[d].fee])
  /\ End(p)

-----------------------------------------------------------------------------
(* Other handlers that leave the row between two accesses                  *)

\* courierPickup: checks, then the photo is uploaded, then the transition
PickupBegin(p, d, c) ==
  /\ Idle(p)
  /\ Owns(d, c)
  /\ row[d].status \in TRANSITIONS.pickup.from
  /\ calls' = [calls EXCEPT ![p] = [IdleCall EXCEPT !.step = "pickup_apply",
                                                    !.d = d, !.by = c]]
  /\ UNCHANGED row

PickupApply(p) ==
  LET d == calls[p].d IN
  /\ At(p, "pickup_apply")
  /\ Owns(d, calls[p].by)
  /\ row[d].status \in TRANSITIONS.pickup.from
  /\ Update(d, [row[d] EXCEPT !.status = TRANSITIONS.pickup.to])
  /\ End(p)

\* courierFail: checks, the photo is uploaded, then the transition
FailBegin(p, d, c) ==
  /\ Idle(p)
  /\ Owns(d, c)
  /\ row[d].status \in TRANSITIONS.fail.from
  /\ calls' = [calls EXCEPT ![p] = [IdleCall EXCEPT !.step = "fail_apply",
                                                    !.d = d, !.by = c]]
  /\ UNCHANGED row

FailApply(p) ==
  LET d == calls[p].d IN
  /\ At(p, "fail_apply")
  /\ Owns(d, calls[p].by)
  /\ row[d].status \in TRANSITIONS.fail.from
  /\ Update(d, [row[d] EXCEPT !.status = TRANSITIONS.fail.to])
  /\ End(p)

\* trackingLink: the status is checked without the lock ...
LinkBegin(p, d) ==
  /\ Idle(p)
  /\ row[d].status \in LinkStatuses
  /\ calls' = [calls EXCEPT ![p] = [IdleCall EXCEPT !.step = "link_write",
                                         !.d = d, !.by = row[d].courier]]
  /\ UNCHANGED row

\* ... and the token written through the stale instance, whatever happened since
LinkWrite(p) ==
  /\ At(p, "link_write")
  /\ Update(calls[p].d, [row[calls[p].d] EXCEPT !.track = calls[p].by])
  /\ End(p)

\* decideFee: the proposal is found without the lock ...
DecideBegin(p, d) ==
  /\ Idle(p)
  /\ row[d].fee = "proposed"
  /\ row[d].status = "pending"
  /\ calls' = [calls EXCEPT ![p] = [IdleCall EXCEPT !.step = "decide",
                                         !.d = d, !.cash = row[d].cash]]
  /\ UNCHANGED row

\* Mutant (BoardIsSettled): only the status is re-checked, not the proposal
StillPending(d) == row[d].status = "pending"

\* ... and re-checked under it: still pending, still proposed, at any amount
StillProposed(d) == row[d].status = "pending" /\ row[d].fee = "proposed"

DecideAccept(p) ==
  LET d == calls[p].d IN
  /\ At(p, "decide")
  /\ StillProposed(d)
  /\ Update(d, [row[d] EXCEPT !.status = TRANSITIONS.publish.to,
                              !.fee = "accepted",
                              !.agreed = row[d].cash])
  /\ End(p)

DecideReject(p) ==
  LET d == calls[p].d IN
  /\ At(p, "decide")
  /\ StillProposed(d)
  /\ Update(d, [row[d] EXCEPT !.fee = "rejected",
                              !.mode = "self",
                              !.cash = NoFee])
  /\ End(p)

(***************************************************************************)
(* cancelDeliveriesForOrder: the live rows are read without locks, then    *)
(* each is set to cancelled by its id, without looking at it again.        *)
(***************************************************************************)
CancelOrderBegin(p) ==
  /\ Idle(p)
  /\ calls' = [calls EXCEPT ![p] = [IdleCall EXCEPT !.step = "cancel_rows",
       !.todo = {d \in Deliveries : row[d].status \in TRANSITIONS.cancel.from}]]
  /\ UNCHANGED row

CancelOrderRow(p, d) ==
  /\ At(p, "cancel_rows")
  /\ d \in calls[p].todo
  /\ Update(d, [row[d] EXCEPT !.status = "cancelled"])
  /\ calls' = [calls EXCEPT ![p].todo = @ \ {d}]

\* The request ends: refused by a re-check, a failed upload, a restart, done
Drop(p) ==
  /\ ~Idle(p)
  /\ End(p)
  /\ UNCHANGED row

-----------------------------------------------------------------------------
StoreStep(d) ==
  \/ PublishForStore(d)
  \/ \E amount \in Fees : ProposeToCustomer(d, amount)
  \/ Unpublish(d)
  \/ \E c \in Couriers, superadmin \in BOOLEAN : Assign(d, c, superadmin)
  \/ Cancel(d)
  \/ Returned(d)
  \/ Retry(d)
  \/ ExpireFee(d)

CourierStep(d, c) ==
  \/ Claim(d, c)
  \/ Accept(d, c)
  \/ Reject(d, c)
  \/ Release(d, c)
  \/ Start(d, c)
  \/ Arrived(d, c)

BeginCall(p, d) ==
  \/ \E g \in 0 .. row[d].issued : HandoverBegin(p, d, g)
  \/ \E c \in Couriers, g \in 0 .. row[d].issued, withCode \in BOOLEAN :
        DeliverBegin(p, d, c, g, withCode)
  \/ \E c \in Couriers : PickupBegin(p, d, c)
  \/ \E c \in Couriers : FailBegin(p, d, c)
  \/ LinkBegin(p, d)
  \/ DecideBegin(p, d)

ContinueCall(p) ==
  \/ HandoverCode(p)
  \/ HandoverApply(p)
  \/ DeliverCode(p)
  \/ \E collected \in BOOLEAN : DeliverApply(p, collected)
  \/ PickupApply(p)
  \/ FailApply(p)
  \/ LinkWrite(p)
  \/ DecideAccept(p)
  \/ DecideReject(p)
  \/ \E d \in Deliveries : CancelOrderRow(p, d)
  \/ Drop(p)

Next ==
  \/ \E d \in Deliveries : StoreStep(d)
  \/ \E d \in Deliveries, c \in Couriers : CourierStep(d, c)
  \/ \E p \in Procs, d \in Deliveries : BeginCall(p, d)
  \/ \E p \in Procs : CancelOrderBegin(p)
  \/ \E p \in Procs : ContinueCall(p)

Spec == Init /\ [][Next]_vars

-----------------------------------------------------------------------------
(* Properties                                                              *)

\* The delivery is on a courier: given to one and not handed over or closed
InHands == ActiveStatuses \cup {"failed", "returned"}

(***************************************************************************)
(* A delivery that waits (pending) or is offered to everybody (open) is    *)
(* nobody's; from assign or claim until it is closed it has a courier.     *)
(* Reject, release, retry and the hand-over by the store each have to keep *)
(* courier_id in step with the status, whoever else acts in between.       *)
(***************************************************************************)
CourierMatchesStatus ==
  \A d \in Deliveries :
    /\ row[d].status \in {"pending", "open"} => row[d].courier = NoCourier
    /\ row[d].status \in InHands => row[d].courier \in Couriers

(***************************************************************************)
(* No courier is sent to collect a fee nobody said yes to: once the        *)
(* delivery is on the board or in a courier's hands, fee_cash is the very  *)
(* amount for which a yes of the customer was recorded, and nothing that   *)
(* happened since has re-priced it - re-publishing, withdrawal, expiry, a  *)
(* late answer, a failed trip and its retry.  Whether it is the amount the *)
(* customer was looking at is the question of AnswerMeetsItsProposal.      *)
(***************************************************************************)
FeeConsent ==
  \A d \in Deliveries :
    row[d].status \in {"open"} \cup InHands /\ row[d].cash # NoFee
      => row[d].fee = "accepted" /\ row[d].cash = row[d].agreed

(***************************************************************************)
(* fee_cash is only ever set on a platform delivery whose fee the customer *)
(* pays: taking the delivery back, rejecting or letting the proposal lapse *)
(* must not leave an amount that the store's own courier would then demand.*)
(***************************************************************************)
FeeOnlyOnPlatform ==
  \A d \in Deliveries :
    row[d].cash # NoFee => row[d].mode = "platform" /\ row[d].payer = "customer"

(***************************************************************************)
(* What stands on the board of open deliveries is a platform delivery that *)
(* nobody is being asked about any more: either the store pays, or the     *)
(* customer has accepted.                                                  *)
(***************************************************************************)
BoardIsSettled ==
  \A d \in Deliveries :
    row[d].status = "open" =>
      /\ row[d].mode = "platform"
      /\ \/ row[d].payer = "store" /\ row[d].fee = "none"
         \/ row[d].payer = "customer" /\ row[d].fee = "accepted"

(***************************************************************************)
(* While a courier is on the way there is a code to hand over against and  *)
(* a link on which the customer can follow him.                            *)
(***************************************************************************)
TripHasCodeAndLink ==
  \A d \in Deliveries :
    row[d].status = "on_the_way" => row[d].code # 0 /\ row[d].track # NoCourier

(***************************************************************************)
(* Nobody takes an accepted delivery from its courier: it passes from one  *)
(* courier directly to another only while it is merely assigned.           *)
(***************************************************************************)
NoSwapAfterAccept ==
  [][\A d \in Deliveries :
       /\ row[d].courier # NoCourier
       /\ row'[d].courier \notin {NoCourier, row[d].courier}
       => row[d].status = "assigned"]_vars

(***************************************************************************)
(* The status moves along TRANSITIONS, except where a cancelled order      *)
(* overwrites it: no stale call completes, fails or re-opens a delivery    *)
(* that another request has moved on in the meantime.                      *)
(***************************************************************************)
TableOrOrderCancelled ==
  [][\A d \in Deliveries :
       row'[d].status # row[d].status =>
         \/ <<row[d].status, row'[d].status>> \in AllowedSteps
         \/ row'[d].status = "cancelled"]_vars

(***************************************************************************)
(* Who answers for the goods: the rows implement Custody.  A courier who   *)
(* accepted keeps the delivery until he gives it up, it is closed, or the  *)
(* store takes a failed one back; what is closed is not opened again.      *)
(***************************************************************************)
PhaseOf(status) ==
  CASE status \in {"pending", "open"}         -> "waiting"
    [] status = "assigned"                    -> "offered"
    [] status = "accepted"                    -> "bound"
    [] status \in {"picked_up", "on_the_way"} -> "carried"
    [] status = "failed"                      -> "missed"
    [] OTHER                                  -> "closed"

phases == [d \in Deliveries |-> PhaseOf(row[d].status)]
holders == [d \in Deliveries |->
  IF phases[d] \in {"waiting", "closed"} THEN NoCourier ELSE row[d].courier]

C == INSTANCE Custody WITH phase <- phases, holder <- holders

ImplementsCustody == C!Spec

-----------------------------------------------------------------------------
(* What the code says and the handlers do not keep                         *)

(***************************************************************************)
(* deliveries.service.ts:648: an answer to a proposal that has changed is  *)
(* refused ("the proposal has changed, refresh the page").  So a yes is    *)
(* recorded only while the amount is the one the request found proposed.   *)
(***************************************************************************)
AnswerMeetsItsProposal ==
  [][\A p \in Procs :
       DecideAccept(p) => row[calls[p].d].cash = calls[p].cash]_vars

=============================================================================
