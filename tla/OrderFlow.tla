------------------------------ MODULE OrderFlow ------------------------------
(***************************************************************************)
(* The status of one order (orders/order-progress.ts, orders.service.ts)   *)
(* against its packing stages, its deliveries and its service jobs.        *)
(*                                                                         *)
(* A delivery or a job moves in a transaction of its own; only after the   *)
(* commit does its handler call syncOrderStatus, which locks the order and *)
(* computes the status anew.  The syncs that are still to come are counted *)
(* in `owed`.  Requests that leave the database between two accesses are   *)
(* held in `calls`.                                                        *)
(*                                                                         *)
(* Of a delivery and of a job only what the order looks at is kept:        *)
(*   "pending"     pending, open, assigned, accepted                       *)
(*   "on_the_way"  of a job also arrived                                   *)
(***************************************************************************)
EXTENDS Naturals

CONSTANTS
  Stores,       \* stores with goods in the order
  Deliveries,   \* delivery rows that may come to exist
  StoreOf,      \* the store of each delivery row and each job
  Jobs,         \* service jobs of the order, created after it
  Procs,        \* requests that may be between two database accesses
  MaxOwed,      \* bound: handlers between their commit and their sync
  Chosen,       \* bound: values that requests give for orders.status
  WantsPickup,  \* orders.delivery_preference = pickup
  None          \* service_jobs.delivery_id IS NULL

ASSUME ConstantsAssumption ==
  /\ \A d \in Deliveries : StoreOf[d] \in Stores
  /\ MaxOwed \in Nat \ {0}
  /\ WantsPickup \in BOOLEAN
  /\ None \notin Deliveries

VARIABLES
  order,      \* orders.status
  stage,      \* order_store_progress.stage of each store
  delivery,   \* deliveries.status, "none" before the row exists
  job,        \* service_jobs.status, "none" before the rows exist
  link,       \* service_jobs.delivery_id
  owed,       \* committed handlers that have not yet called syncOrderStatus
  calls,      \* requests in progress
  disturbed   \* history: a sync or a cancellation lost, a status set by hand,
              \* or jobs created in an order that was cancelled meanwhile

vars == <<order, stage, delivery, job, link, owed, calls, disturbed>>
parts == <<delivery, job, link>>

OrderStatuses == {"new", "paid", "packing", "ready", "shipping",
                  "in_progress", "done", "cancelled"}
AutoStatuses == {"packing", "ready", "in_progress"}   \* AUTO_ORDER_STATUSES
Stages == {"waiting", "packing", "ready"}
DeliveryPhases == {"none", "pending", "picked_up", "on_the_way", "delivered",
                   "failed", "returned", "cancelled"}
JobPhases == {"none", "pending", "on_the_way", "in_progress", "completed", "failed",
              "cancelled"}

\* ESKI_NOMLAR: the names that older clients still send
OldNames == [Tolanmagan    |-> "new",
             Yetkazilyapti |-> "shipping",
             Done          |-> "done"]

ASSUME ChosenAssumption == Chosen \subseteq OrderStatuses \cup DOMAIN OldNames

normalizeOrderStatus(value) ==
  IF value \in OrderStatuses THEN value ELSE OldNames[value]

\* what the cancellation of an order sweeps (TRANSITIONS.cancel.from of both)
LiveDelivery == {"pending", "picked_up", "on_the_way", "failed"}
LiveJob == {"pending", "on_the_way", "in_progress", "failed"}

\* a cancelled order's parts are being cancelled
SweepSteps == {"list_deliveries", "delivery_rows", "list_jobs", "job_rows"}
CallSteps == SweepSteps \cup
             {"idle", "stage", "auto_pickup", "create", "update"}

\* status: the one to write, or the stage; sweep: it is a cancellation
Call == [step   : CallSteps,
         store  : Stores \cup {None},
         row    : Deliveries \cup {None},
         status : OrderStatuses \cup Stages,
         sweep  : BOOLEAN,
         todo   : SUBSET (Deliveries \cup Jobs)]

TypeOK ==
  /\ order \in OrderStatuses
  /\ stage \in [Stores -> Stages]
  /\ delivery \in [Deliveries -> DeliveryPhases]
  /\ job \in [Jobs -> JobPhases]
  /\ link \in [Jobs -> Deliveries \cup {None}]
  /\ owed \in 0 .. MaxOwed
  /\ calls \in [Procs -> Call]
  /\ disturbed \in BOOLEAN

IdleCall == [step |-> "idle", store |-> None, row |-> None,
             status |-> "new", sweep |-> FALSE, todo |-> {}]

\* createOrder takes any status that the rule does not own; the order is there
\* before its jobs
Init ==
  /\ order \in OrderStatuses \ AutoStatuses
  /\ stage = [s \in Stores |-> "waiting"]
  /\ delivery = [d \in Deliveries |-> "none"]
  /\ job = [j \in Jobs |-> "none"]
  /\ link = [j \in Jobs |-> None]
  /\ owed = 0
  /\ calls = [p \in Procs |-> IdleCall]
  /\ disturbed = (order \notin {"new", "paid"})

Idle(p) == calls[p].step = "idle"
At(p, s) == calls[p].step = s
End(p) == calls' = [calls EXCEPT ![p] = IdleCall]

\* setStoreStage holds the order's row lock from its first read to its commit
OrderLocked == \E p \in Procs : At(p, "stage")

-----------------------------------------------------------------------------
(* syncOrderStatus                                                         *)

RANK == [new |-> 0, paid |-> 0, packing |-> 1, ready |-> 1,
         shipping |-> 2, in_progress |-> 2, done |-> 3]

DeliverySet == {delivery[d] : d \in Deliveries} \ {"none", "cancelled", "returned"}
JobSet == {job[j] : j \in Jobs} \ {"none", "cancelled"}
Working == {"on_the_way", "in_progress", "completed", "failed"}

Finished ==
  /\ DeliverySet \cup JobSet # {}
  /\ DeliverySet \subseteq {"delivered"}
  /\ JobSet \subseteq {"completed"}
  /\ Stores = {} \/ DeliverySet # {}

\* The status that the parts imply, given the stages; the order's own if none
Target(stages) ==
  IF Finished THEN "done"
  ELSE IF "on_the_way" \in DeliverySet THEN "shipping"
  ELSE IF JobSet \cap Working # {} THEN "in_progress"
  ELSE IF DeliverySet \cap {"delivered", "failed"} # {} THEN "shipping"
  ELSE IF Stores # {} /\ \A s \in Stores : stages[s] = "ready" THEN "ready"
  ELSE IF \E s \in Stores : stages[s] # "waiting" THEN "packing"
  ELSE order

Lateral(from, to) ==
  \/ {from, to} \subseteq {"packing", "ready"}
  \/ {from, to} \subseteq {"shipping", "in_progress"}

\* Mutant (StatusFollowsStages): nothing but forward
ForwardOnly(stages) ==
  LET to == Target(stages) IN
  IF order \in DOMAIN RANK \ {"done"} /\ RANK[to] > RANK[order]
  THEN to ELSE order

\* Mutant (FinishedStays): the status is not looked at again under the lock
AnyStatus(stages) == Target(stages)

\* Forward or sideways, and never from cancelled or done
Synced(stages) ==
  LET to == Target(stages) IN
  IF /\ order \in DOMAIN RANK \ {"done"}
     /\ RANK[to] > RANK[order] \/ Lateral(order, to)
  THEN to ELSE order

Sync ==
  /\ owed > 0
  /\ ~OrderLocked
  /\ owed' = owed - 1
  /\ order' = Synced(stage)
  /\ UNCHANGED <<stage, delivery, job, link, calls, disturbed>>

\* The process stops, or the database refuses: the sync is not made up for
LoseSync ==
  /\ owed > 0
  /\ owed' = owed - 1
  /\ disturbed' = TRUE
  /\ UNCHANGED <<order, stage, delivery, job, link, calls>>

OweSync == owed < MaxOwed /\ owed' = owed + 1

-----------------------------------------------------------------------------
(* Deliveries                                                              *)

MoveDelivery(d, from, to) ==
  /\ delivery[d] \in from
  /\ delivery' = [delivery EXCEPT ![d] = to]
  /\ UNCHANGED <<order, stage, job, link, calls, disturbed>>

\* courierPickup, courierFail, retry: the order is not recomputed
PickupDelivery(d) == MoveDelivery(d, {"pending"}, "picked_up") /\ UNCHANGED owed
FailDelivery(d) == MoveDelivery(d, {"on_the_way"}, "failed") /\ UNCHANGED owed
RetryDelivery(d) == MoveDelivery(d, {"failed"}, "pending") /\ UNCHANGED owed

\* cancel and returned: neither is the order recomputed here
CancelDelivery(d) == MoveDelivery(d, LiveDelivery, "cancelled") /\ UNCHANGED owed
ReturnDelivery(d) == MoveDelivery(d, {"failed"}, "returned") /\ UNCHANGED owed

\* Mutant (OnTheWayIsShown): start does not recompute the order
StartUnnoticed(d) == MoveDelivery(d, {"picked_up"}, "on_the_way") /\ UNCHANGED owed
\* Mutant (DoneWhenAllDelivered): neither does the hand-over
DeliverUnnoticed(d) ==
  MoveDelivery(d, {"pending", "on_the_way"}, "delivered") /\ UNCHANGED owed

StartDelivery(d) == MoveDelivery(d, {"picked_up"}, "on_the_way") /\ OweSync
\* courierDeliver, and handover from pending
Deliver(d) == MoveDelivery(d, {"pending", "on_the_way"}, "delivered") /\ OweSync

\* create: the order's status is read before the transaction ...
CreateBegin(p, d) ==
  /\ Idle(p)
  /\ order # "cancelled"
  /\ calls' = [calls EXCEPT ![p] = [IdleCall EXCEPT !.step = "create", !.row = d]]
  /\ UNCHANGED <<order, stage, parts, owed, disturbed>>

\* ... which inserts the row unless the store has a live one (a unique index; a
\* foreign key makes it wait for the order's lock), and ties to it those of the
\* store's jobs that are for its goods and not yet begun
CreateCommit(p) ==
  LET d == calls[p].row IN
  /\ At(p, "create")
  /\ ~OrderLocked
  /\ delivery[d] = "none"
  /\ \A e \in Deliveries : StoreOf[e] = StoreOf[d] => delivery[e] \notin LiveDelivery
  /\ delivery' = [delivery EXCEPT ![d] = "pending"]
  /\ \E tied \in SUBSET {j \in Jobs : /\ StoreOf[j] = StoreOf[d]
                                     /\ job[j] = "pending"
                                     /\ link[j] = None} :
       link' = [j \in Jobs |-> IF j \in tied THEN d ELSE link[j]]
  /\ End(p)
  /\ UNCHANGED <<order, stage, job, owed, disturbed>>

-----------------------------------------------------------------------------
(* Service jobs                                                            *)

MoveJob(j, from, to) ==
  /\ job[j] \in from
  /\ job' = [job EXCEPT ![j] = to]
  /\ UNCHANGED <<order, stage, delivery, link, calls, disturbed>>

\* createServiceLinesAndJobs, after createOrder has committed the order: all the
\* jobs in one transaction, whatever has become of the order by then
CreateJobs ==
  /\ Jobs # {} /\ \A j \in Jobs : job[j] = "none"
  /\ ~OrderLocked
  /\ job' = [j \in Jobs |-> "pending"]
  /\ disturbed' = (disturbed \/ order = "cancelled")
  /\ UNCHANGED <<order, stage, delivery, link, owed, calls>>

StartJob(j) == MoveJob(j, {"pending"}, "on_the_way") /\ OweSync

\* Mutant (InstallAfterDelivery): begin does not look at the delivery
BeginAnyhow(j) == MoveJob(j, {"on_the_way"}, "in_progress") /\ OweSync

\* workerBegin: the goods, if a delivery brings them, must have been handed over
BeginJob(j) ==
  /\ link[j] # None => delivery[link[j]] = "delivered"
  /\ MoveJob(j, {"on_the_way"}, "in_progress")
  /\ OweSync

CompleteJob(j) == MoveJob(j, {"in_progress"}, "completed") /\ OweSync
FailJob(j) == MoveJob(j, {"on_the_way", "in_progress"}, "failed") /\ OweSync
RetryJob(j) == MoveJob(j, {"failed"}, "pending") /\ UNCHANGED owed
\* cancel and customerCancel
CancelJob(j) == MoveJob(j, LiveJob, "cancelled") /\ OweSync

\* update: the partner ties a job not yet begun to another delivery, or to none
LinkJob(j, d) ==
  /\ job[j] = "pending"
  /\ d # None => /\ StoreOf[d] = StoreOf[j]
                 /\ delivery[d] \notin {"none", "cancelled", "returned"}
  /\ link' = [link EXCEPT ![j] = d]
  /\ UNCHANGED <<order, stage, delivery, job, owed, calls, disturbed>>

-----------------------------------------------------------------------------
(* Packing stages                                                          *)

STAGE_TRANSITIONS == [waiting |-> {"packing", "ready"},
                      packing |-> {"ready"},
                      ready   |-> {"packing"}]

\* setStoreStage: under the order's lock, but without locks on deliveries
StageBegin(p, s, to) ==
  /\ Idle(p)
  /\ ~OrderLocked
  /\ order \notin {"cancelled", "done"}
  /\ \A d \in Deliveries : StoreOf[d] = s =>
       delivery[d] \notin {"picked_up", "on_the_way", "delivered", "failed"}
  /\ to \in STAGE_TRANSITIONS[stage[s]]
  /\ calls' = [calls EXCEPT ![p] = [IdleCall EXCEPT !.step = "stage",
                                            !.store = s, !.status = to]]
  /\ UNCHANGED <<order, stage, parts, owed, disturbed>>

\* the stage, and with it in one transaction the order's status
StageWrite(p) ==
  LET s  == calls[p].store
      to == calls[p].status IN
  /\ At(p, "stage")
  /\ stage' = [stage EXCEPT ![s] = to]
  /\ order' = Synced([stage EXCEPT ![s] = to])
  /\ calls' = [calls EXCEPT ![p] =
       IF to = "ready" THEN [@ EXCEPT !.step = "auto_pickup"] ELSE IdleCall]
  /\ UNCHANGED <<parts, owed, disturbed>>

\* autoPickupOnReady: a pickup for a customer who comes for the goods himself
AutoPickup(p) ==
  LET s    == calls[p].store
      mine == {d \in Deliveries : StoreOf[d] = s}
      free == {d \in mine : delivery[d] = "none"} IN
  /\ At(p, "auto_pickup")
  /\ IF /\ WantsPickup
        /\ order # "cancelled"
        /\ \A d \in mine : delivery[d] \in {"none", "cancelled"}
        /\ free # {}
     THEN \E d \in free :
            calls' = [calls EXCEPT ![p] = [IdleCall EXCEPT !.step = "create", !.row = d]]
     ELSE End(p)
  /\ UNCHANGED <<order, stage, parts, owed, disturbed>>

-----------------------------------------------------------------------------
(* updateOrderById                                                         *)

\* The order is read without a lock; a status the rule owns may only be echoed
UpdateBegin(p, value) ==
  LET to == normalizeOrderStatus(value) IN
  /\ Idle(p)
  /\ to \notin AutoStatuses \/ to = order
  /\ calls' = [calls EXCEPT ![p] =
       [IdleCall EXCEPT !.step = "update", !.status = to,
                        !.sweep = (to = "cancelled" /\ order # "cancelled")]]
  /\ UNCHANGED <<order, stage, parts, owed, disturbed>>

\* The write is unconditional; a cancellation goes on to the order's parts
UpdateWrite(p) ==
  LET to == calls[p].status IN
  /\ At(p, "update")
  /\ ~OrderLocked
  /\ order' = to
  /\ disturbed' = (disturbed \/ to # "cancelled")
  /\ IF calls[p].sweep
     THEN calls' = [calls EXCEPT ![p] = [IdleCall EXCEPT !.step = "list_deliveries"]]
     ELSE End(p)
  /\ UNCHANGED <<stage, parts, owed>>

\* cancelDeliveriesForOrder: the live rows, then each by its id
ListDeliveries(p) ==
  /\ At(p, "list_deliveries")
  /\ calls' = [calls EXCEPT
       ![p].step = "delivery_rows",
       ![p].todo = {d \in Deliveries : delivery[d] \in LiveDelivery}]
  /\ UNCHANGED <<order, stage, parts, owed, disturbed>>

SweepDelivery(p, d) ==
  /\ At(p, "delivery_rows")
  /\ d \in calls[p].todo
  /\ delivery' = [delivery EXCEPT ![d] = "cancelled"]
  /\ calls' = [calls EXCEPT ![p].todo = @ \ {d}]
  /\ UNCHANGED <<order, stage, job, link, owed, disturbed>>

DeliveriesSwept(p) ==
  /\ At(p, "delivery_rows")
  /\ calls[p].todo = {}
  /\ calls' = [calls EXCEPT ![p].step = "list_jobs"]
  /\ UNCHANGED <<order, stage, parts, owed, disturbed>>

\* Mutant (JobsFollowCancellation): only what the customer could still cancel
ListEarlyJobs(p) ==
  /\ At(p, "list_jobs")
  /\ calls' = [calls EXCEPT
       ![p].step = "job_rows",
       ![p].todo = {j \in Jobs : job[j] = "pending"}]
  /\ UNCHANGED <<order, stage, parts, owed, disturbed>>

\* cancelJobsForOrder: likewise
ListJobs(p) ==
  /\ At(p, "list_jobs")
  /\ calls' = [calls EXCEPT
       ![p].step = "job_rows",
       ![p].todo = {j \in Jobs : job[j] \in LiveJob}]
  /\ UNCHANGED <<order, stage, parts, owed, disturbed>>

SweepJob(p, j) ==
  /\ At(p, "job_rows")
  /\ j \in calls[p].todo
  /\ job' = [job EXCEPT ![j] = "cancelled"]
  /\ calls' = [calls EXCEPT ![p].todo = @ \ {j}]
  /\ UNCHANGED <<order, stage, delivery, link, owed, disturbed>>

JobsSwept(p) ==
  /\ At(p, "job_rows")
  /\ calls[p].todo = {}
  /\ End(p)
  /\ UNCHANGED <<order, stage, parts, owed, disturbed>>

\* cancelDeliveriesForOrder swallows an error half way; the jobs come next
SweepFails(p) ==
  /\ calls[p].step \in {"list_deliveries", "delivery_rows"}
  /\ calls' = [calls EXCEPT ![p].step = "list_jobs", ![p].todo = {}]
  /\ disturbed' = TRUE
  /\ UNCHANGED <<order, stage, parts, owed>>

\* A request that ends early: an error, or a restart.  What it had committed
\* stays; a cancellation that had begun is not taken up again.
Drop(p) ==
  /\ ~Idle(p)
  /\ End(p)
  /\ disturbed' = (disturbed \/ calls[p].step \in SweepSteps)
  /\ UNCHANGED <<order, stage, parts, owed>>

\* A create that the database or the index refuses changes nothing
Refuse(p) ==
  LET d == calls[p].row IN
  /\ At(p, "create")
  /\ \/ delivery[d] # "none"
     \/ \E e \in Deliveries : StoreOf[e] = StoreOf[d] /\ delivery[e] \in LiveDelivery
  /\ End(p)
  /\ UNCHANGED <<order, stage, parts, owed, disturbed>>

-----------------------------------------------------------------------------
DeliveryStep(d) ==
  \/ PickupDelivery(d) \/ StartDelivery(d) \/ Deliver(d) \/ FailDelivery(d)
  \/ RetryDelivery(d) \/ CancelDelivery(d) \/ ReturnDelivery(d)

JobStep(j) ==
  \/ StartJob(j) \/ BeginJob(j) \/ CompleteJob(j) \/ FailJob(j)
  \/ RetryJob(j) \/ CancelJob(j)
  \/ \E d \in Deliveries \cup {None} : LinkJob(j, d)

BeginCall(p) ==
  \/ \E d \in Deliveries : CreateBegin(p, d)
  \/ \E s \in Stores, to \in Stages : StageBegin(p, s, to)
  \/ \E value \in Chosen : UpdateBegin(p, value)

ContinueCall(p) ==
  \/ CreateCommit(p) \/ Refuse(p)
  \/ StageWrite(p) \/ AutoPickup(p)
  \/ UpdateWrite(p)
  \/ ListDeliveries(p) \/ DeliveriesSwept(p) \/ ListJobs(p) \/ JobsSwept(p)
  \/ \E d \in Deliveries : SweepDelivery(p, d)
  \/ \E j \in Jobs : SweepJob(p, j)

Next ==
  \/ \E d \in Deliveries : DeliveryStep(d)
  \/ CreateJobs
  \/ \E j \in Jobs : JobStep(j)
  \/ \E p \in Procs : \/ BeginCall(p) \/ ContinueCall(p)
                       \/ SweepFails(p) \/ Drop(p)
  \/ Sync
  \/ LoseSync

(***************************************************************************)
(* A request in progress goes on to its end, and a handler that committed  *)
(* calls the sync: what the event loop does while the process lives.       *)
(* Nobody has to begin anything.                                           *)
(***************************************************************************)
Fairness ==
  /\ WF_vars(Sync)
  /\ \A p \in Procs : WF_vars(ContinueCall(p))

Spec == Init /\ [][Next]_vars /\ Fairness

-----------------------------------------------------------------------------
(* Properties                                                              *)

\* Nothing a handler has committed is still to be told to the order
Settled == owed = 0 /\ ~disturbed

(***************************************************************************)
(* An installer does not begin before the goods of his job were handed     *)
(* over: the delivery a job is tied to - by its creation, by the partner   *)
(* or after a failed attempt - has reached the customer by then.           *)
(***************************************************************************)
InstallAfterDelivery ==
  \A j \in Jobs :
    job[j] \in {"in_progress", "completed"} /\ link[j] # None
      => delivery[link[j]] \in {"delivered", "cancelled"}

(***************************************************************************)
(* Once its handlers have reported, an order with goods on the way says    *)
(* so, whatever packing, jobs and other deliveries of it do meanwhile.     *)
(***************************************************************************)
OnTheWayIsShown ==
  /\ Settled
  /\ \E d \in Deliveries : delivery[d] = "on_the_way"
  => order \in {"shipping", "done", "cancelled"}

(***************************************************************************)
(* A packing status agrees with the stages of the stores, also when a      *)
(* store takes its "ready" back while deliveries and jobs are moving.      *)
(***************************************************************************)
StatusFollowsStages ==
  ~disturbed =>
    /\ order = "ready" => \A s \in Stores : stage[s] = "ready"
    /\ order = "packing" => /\ \E s \in Stores : stage[s] # "waiting"
                            /\ \E s \in Stores : stage[s] # "ready"

(***************************************************************************)
(* No late sync re-opens an order: done and cancelled are left only by a   *)
(* backoffice update, or for cancelled.                                    *)
(***************************************************************************)
FinishedStays ==
  [][/\ order \in {"done", "cancelled"}
     /\ order' # order
     => order' = "cancelled" \/ disturbed']_vars

(***************************************************************************)
(* The jobs of a cancelled order are closed in the end, whatever workers   *)
(* did to them between the listing and the writes.  Jobs that createOrder  *)
(* adds to an order already cancelled are excused (disturbed).             *)
(***************************************************************************)
JobsFollowCancellation ==
  \A j \in Jobs :
    (order = "cancelled" /\ job[j] \in LiveJob)
      ~> (job[j] \notin LiveJob \/ order # "cancelled" \/ disturbed)

AllHandedOver ==
  /\ order # "cancelled"
  /\ \A d \in Deliveries : delivery[d] \in {"none", "delivered"}
  /\ \E d \in Deliveries : delivery[d] = "delivered"
  /\ \A j \in Jobs : job[j] \in {"none", "completed", "cancelled"}

(***************************************************************************)
(* An order whose goods are all handed over and whose jobs are closed      *)
(* becomes done, in whatever order these ended.                            *)
(***************************************************************************)
DoneWhenAllDelivered ==
  AllHandedOver ~> (order = "done" \/ ~AllHandedOver \/ disturbed)

-----------------------------------------------------------------------------
(* What comments of the code say and the handlers do not keep              *)

(***************************************************************************)
(* deliveries.service.ts:2439: when the order is cancelled its active      *)
(* deliveries are cancelled too; so once the requests that cancel it are   *)
(* through, none is left.                                                  *)
(***************************************************************************)
CancelledHasNoLiveDelivery ==
  /\ order = "cancelled"
  /\ ~disturbed
  /\ \A p \in Procs : Idle(p)
  => \A d \in Deliveries : delivery[d] \notin LiveDelivery

=============================================================================
