--------------------------- MODULE OrderFlow_proofs ---------------------------
(***************************************************************************)
(* Proofs about OrderFlow, for any stores, deliveries, jobs and requests.  *)
(***************************************************************************)
EXTENDS OrderFlow, TLAPS

-----------------------------------------------------------------------------
(* The computed status                                                     *)

\* What is computed is a status of the order
LEMMA SyncedType ==
  ASSUME order \in OrderStatuses, NEW stages
  PROVE  Synced(stages) \in OrderStatuses
<1>1. Target(stages) \in OrderStatuses
  BY DEF Target, OrderStatuses
<1>2. QED
  BY <1>1 DEF Synced

\* done and cancelled are final for it
LEMMA SyncedFinal ==
  ASSUME order \in {"done", "cancelled"}, NEW stages
  PROVE  Synced(stages) = order
  BY DEF Synced, RANK

\* The table of ranks, so that it need not be expanded
LEMMA Ranks ==
  /\ DOMAIN RANK = {"new", "paid", "packing", "ready", "shipping",
                    "in_progress", "done"}
  /\ RANK["new"] = 0 /\ RANK["paid"] = 0
  /\ RANK["packing"] = 1 /\ RANK["ready"] = 1
  /\ RANK["shipping"] = 2 /\ RANK["in_progress"] = 2
  /\ RANK["done"] = 3
  BY DEF RANK

\* With goods on the way, every status still open becomes shipping
LEMMA SyncedOnTheWay ==
  ASSUME order \in OrderStatuses, NEW stages,
         NEW d \in Deliveries, delivery[d] = "on_the_way"
  PROVE  Synced(stages) \in {"shipping", "done", "cancelled"}
<1>1. "on_the_way" \in DeliverySet
  BY DEF DeliverySet
<1>2. Target(stages) = "shipping"
  BY <1>1 DEF Target, Finished
<1>3. CASE order \in {"done", "cancelled"}
  BY <1>3, SyncedFinal
<1>4. CASE order = "shipping"
  BY <1>2, <1>4 DEF Synced
<1>5. CASE order \in {"new", "paid", "packing", "ready"}
  BY <1>2, <1>5, Ranks DEF Synced
<1>6. CASE order = "in_progress"
  BY <1>2, <1>6, Ranks DEF Synced, Lateral
<1>7. QED
  BY <1>3, <1>4, <1>5, <1>6 DEF OrderStatuses

\* What a packing status says of the stages
Supports(stages, status) ==
  /\ status = "ready" => \A s \in Stores : stages[s] = "ready"
  /\ status = "packing" => /\ \E s \in Stores : stages[s] # "waiting"
                           /\ \E s \in Stores : stages[s] # "ready"

\* The status aimed at is a later one, a supported one, or the order's own
LEMMA Aim ==
  ASSUME NEW stages
  PROVE  \/ Target(stages) \in {"done", "shipping", "in_progress"}
         \/ Target(stages) \in {"ready", "packing"}
            /\ Supports(stages, Target(stages))
         \/ Target(stages) = order /\ \A s \in Stores : stages[s] = "waiting"
  BY DEF Target, Supports

\* A packing status that is computed is supported, and one that was there
\* before is kept only if it still is
LEMMA SyncedPacking ==
  ASSUME NEW stages,
         order \in {"packing", "ready"}
           => Supports(stages, order) \/ \E s \in Stores : stages[s] # "waiting"
  PROVE  Supports(stages, Synced(stages))
<1>1. CASE order \in {"packing", "ready"} /\ \E s \in Stores : stages[s] # "waiting"
  <2>1. Target(stages) \in {"done", "shipping", "in_progress", "ready", "packing"}
    BY <1>1, Aim
  <2>2. Synced(stages) = Target(stages)
    BY <1>1, <2>1, Ranks DEF Synced, Lateral
  <2>3. QED
    BY <1>1, <2>2, Aim DEF Supports
<1>2. CASE /\ order \in {"packing", "ready"}
           /\ \A s \in Stores : stages[s] = "waiting"
  <2>1. Supports(stages, order)
    BY <1>2
  <2>2. Synced(stages) = order \/ Synced(stages) = Target(stages)
    BY DEF Synced
  <2>3. QED
    BY <2>1, <2>2, Aim DEF Supports
<1>3. CASE order \notin {"packing", "ready"}
  <2>1. Synced(stages) = order \/ Synced(stages) = Target(stages)
    BY DEF Synced
  <2>2. QED
    BY <1>3, <2>1, Aim DEF Supports
<1>4. QED
  BY <1>1, <1>2, <1>3

-----------------------------------------------------------------------------
(* Types                                                                   *)

\* What a request in progress has in hand
RecOK(r) ==
  /\ r \in Call
  /\ r.step = "stage" => r.store \in Stores /\ r.status \in {"packing", "ready"}
  /\ r.step = "update" => r.status \in OrderStatuses
  /\ r.step = "create" => r.row \in Deliveries

CallsOK == \A p \in Procs : RecOK(calls[p])

Types == TypeOK /\ CallsOK

LEMMA Idles == RecOK(IdleCall)
  BY DEF RecOK, IdleCall, Call, CallSteps, SweepSteps, OrderStatuses

\* One record replaced by a proper one
LEMMA CallSet ==
  ASSUME Types, NEW p \in Procs, NEW r, RecOK(r), calls' = [calls EXCEPT ![p] = r]
  PROVE  calls' \in [Procs -> Call] /\ CallsOK'
<1>1. \A q \in Procs : calls'[q] = IF q = p THEN r ELSE calls[q]
  BY DEF Types, TypeOK
<1>2. \A q \in Procs : RecOK(calls'[q])
  BY <1>1 DEF Types, CallsOK
<1>3. calls' \in [Procs -> Call]
  BY DEF Types, TypeOK, RecOK
<1>4. QED
  BY <1>2, <1>3 DEF CallsOK, RecOK

LEMMA Ended ==
  ASSUME Types, NEW p \in Procs, End(p)
  PROVE  calls' \in [Procs -> Call] /\ CallsOK'
  BY Idles, CallSet DEF End

LEMMA NormalType ==
  ASSUME NEW value \in Chosen
  PROVE  normalizeOrderStatus(value) \in OrderStatuses
  BY ChosenAssumption DEF normalizeOrderStatus, OldNames, OrderStatuses

LEMMA PartsType ==
  ASSUME Types,
         \/ \E d \in Deliveries : DeliveryStep(d)
         \/ \E j \in Jobs : JobStep(j)
  PROVE  Types'
<1>1. /\ calls' = calls /\ order' = order /\ stage' = stage
      /\ disturbed' = disturbed
  BY DEF DeliveryStep, JobStep, MoveDelivery, MoveJob, PickupDelivery,
         StartDelivery, Deliver, FailDelivery, RetryDelivery, CancelDelivery,
         ReturnDelivery, StartJob, BeginJob, CompleteJob, FailJob, RetryJob,
         CancelJob, LinkJob
<1>2. owed' \in 0 .. MaxOwed
  <2>1. owed' = owed \/ OweSync
    BY DEF DeliveryStep, JobStep, PickupDelivery, StartDelivery, Deliver,
           FailDelivery, RetryDelivery, CancelDelivery, ReturnDelivery,
           StartJob, BeginJob, CompleteJob, FailJob, RetryJob, CancelJob, LinkJob
  <2>2. QED
    BY <2>1, ConstantsAssumption DEF OweSync, Types, TypeOK
<1>3. delivery' \in [Deliveries -> DeliveryPhases]
  <2>1. ASSUME NEW d \in Deliveries, DeliveryStep(d)
        PROVE  \E to \in DeliveryPhases : delivery' = [delivery EXCEPT ![d] = to]
    BY <2>1 DEF DeliveryStep, MoveDelivery, PickupDelivery, StartDelivery,
                Deliver, FailDelivery, RetryDelivery, CancelDelivery,
                ReturnDelivery, DeliveryPhases
  <2>2. ASSUME NEW j \in Jobs, JobStep(j)
        PROVE  delivery' = delivery
    BY <2>2 DEF JobStep, MoveJob, StartJob, BeginJob, CompleteJob, FailJob,
                RetryJob, CancelJob, LinkJob
  <2>3. QED
    BY <2>1, <2>2 DEF Types, TypeOK
<1>4. job' \in [Jobs -> JobPhases] /\ link' \in [Jobs -> Deliveries \cup {None}]
  <2>1. ASSUME NEW d \in Deliveries, DeliveryStep(d)
        PROVE  job' = job /\ link' = link
    BY <2>1 DEF DeliveryStep, MoveDelivery, PickupDelivery, StartDelivery,
                Deliver, FailDelivery, RetryDelivery, CancelDelivery,
                ReturnDelivery
  <2>2. ASSUME NEW j \in Jobs, JobStep(j)
        PROVE  \/ link' = link /\ \E to \in JobPhases : job' = [job EXCEPT ![j] = to]
               \/ /\ job' = job
                  /\ \E d \in Deliveries \cup {None} : link' = [link EXCEPT ![j] = d]
    BY <2>2 DEF JobStep, MoveJob, StartJob, BeginJob, CompleteJob, FailJob,
                RetryJob, CancelJob, LinkJob, JobPhases
  <2>3. QED
    BY <2>1, <2>2 DEF Types, TypeOK
<1>5. QED
  BY <1>1, <1>2, <1>3, <1>4 DEF Types, TypeOK, CallsOK, RecOK

LEMMA CreateJobsType ==
  ASSUME Types, CreateJobs
  PROVE  Types'
<1>1. job' \in [Jobs -> JobPhases] /\ disturbed' \in BOOLEAN
  BY DEF CreateJobs, JobPhases
<1>2. QED
  BY <1>1 DEF CreateJobs, Types, TypeOK, CallsOK

LEMMA BeginType ==
  ASSUME Types, NEW p \in Procs, BeginCall(p)
  PROVE  Types'
<1>1. /\ order' = order /\ stage' = stage /\ delivery' = delivery /\ job' = job
      /\ link' = link /\ owed' = owed /\ disturbed' = disturbed
  BY DEF BeginCall, CreateBegin, StageBegin, UpdateBegin, parts
<1>2. ASSUME NEW d \in Deliveries, CreateBegin(p, d)
      PROVE  calls' \in [Procs -> Call] /\ CallsOK'
  <2> DEFINE r == [IdleCall EXCEPT !.step = "create", !.row = d]
  <2>1. RecOK(r)
    BY Idles DEF RecOK, IdleCall, Call, CallSteps
  <2>2. calls' = [calls EXCEPT ![p] = r]
    BY <1>2 DEF CreateBegin
  <2> HIDE DEF r
  <2>3. QED
    BY <2>1, <2>2, CallSet
<1>3. ASSUME NEW s \in Stores, NEW to \in Stages, StageBegin(p, s, to)
      PROVE  calls' \in [Procs -> Call] /\ CallsOK'
  <2> DEFINE r == [IdleCall EXCEPT !.step = "stage", !.store = s, !.status = to]
  <2>1. to \in {"packing", "ready"}
    <3>1. stage[s] \in {"waiting", "packing", "ready"}
      BY DEF Types, TypeOK, Stages
    <3>2. QED
      BY <1>3, <3>1 DEF StageBegin, STAGE_TRANSITIONS
  <2>2. RecOK(r)
    BY <2>1, Idles DEF RecOK, IdleCall, Call, CallSteps, Stages
  <2>3. calls' = [calls EXCEPT ![p] = r]
    BY <1>3 DEF StageBegin
  <2> HIDE DEF r
  <2>4. QED
    BY <2>2, <2>3, CallSet
<1>4. ASSUME NEW value \in Chosen, UpdateBegin(p, value)
      PROVE  calls' \in [Procs -> Call] /\ CallsOK'
  <2> DEFINE to == normalizeOrderStatus(value)
             cancels == (to = "cancelled" /\ order # "cancelled")
             r == [IdleCall EXCEPT !.step = "update", !.status = to,
                                   !.sweep = cancels]
  <2>1. calls' = [calls EXCEPT ![p] = r]
    BY <1>4 DEF UpdateBegin
  <2>2. to \in OrderStatuses /\ cancels \in BOOLEAN
    BY NormalType
  <2> HIDE DEF to, cancels
  <2>3. RecOK(r)
    BY <2>2, Idles DEF RecOK, IdleCall, Call, CallSteps
  <2> HIDE DEF r
  <2>4. QED
    BY <2>1, <2>3, CallSet
<1>5. calls' \in [Procs -> Call] /\ CallsOK'
  BY <1>2, <1>3, <1>4 DEF BeginCall
<1>6. QED
  BY <1>1, <1>5 DEF Types, TypeOK

\* A request that only moves on to another step of the cancellation
LEMMA SweepCall ==
  ASSUME Types, NEW p \in Procs, NEW s \in SweepSteps \cup {"auto_pickup"},
         NEW rest \in SUBSET (Deliveries \cup Jobs),
         \/ calls' = [calls EXCEPT ![p].step = s, ![p].todo = rest]
         \/ calls' = [calls EXCEPT ![p].step = s]
         \/ calls' = [calls EXCEPT ![p].todo = rest] /\ calls[p].step = s
         \/ calls' = [calls EXCEPT ![p] = [IdleCall EXCEPT !.step = s]]
  PROVE  calls' \in [Procs -> Call] /\ CallsOK'
<1>0. calls[p] \in Call /\ calls \in [Procs -> Call] /\ s \in CallSteps
  BY DEF Types, TypeOK, CallSteps, SweepSteps
<1>1. s \notin {"stage", "update", "create"}
  BY DEF SweepSteps
<1>2. PICK r : /\ r \in {[calls[p] EXCEPT !.step = s, !.todo = rest],
                         [calls[p] EXCEPT !.step = s],
                         [calls[p] EXCEPT !.step = s, !.todo = rest],
                         [IdleCall EXCEPT !.step = s]}
               /\ calls' = [calls EXCEPT ![p] = r]
  <2>1. calls[p].step = s => [calls[p] EXCEPT !.todo = rest] =
                             [calls[p] EXCEPT !.step = s, !.todo = rest]
    BY <1>0 DEF Call
  <2>2. CASE calls' = [calls EXCEPT ![p].step = s, ![p].todo = rest]
    <3>1. calls' = [calls EXCEPT ![p] = [calls[p] EXCEPT !.step = s, !.todo = rest]]
      BY <2>2, <1>0
    <3>2. QED
      BY <3>1
  <2>3. CASE calls' = [calls EXCEPT ![p].step = s]
    BY <2>3
  <2>4. CASE calls' = [calls EXCEPT ![p].todo = rest] /\ calls[p].step = s
    BY <2>1, <2>4
  <2>5. CASE calls' = [calls EXCEPT ![p] = [IdleCall EXCEPT !.step = s]]
    BY <2>5
  <2>6. QED
    BY <2>2, <2>3, <2>4, <2>5
<1>3. RecOK(r)
  <2>1. r \in Call /\ r.step = s
    BY <1>0, <1>2, Idles DEF Call, RecOK
  <2>2. QED
    BY <1>1, <2>1 DEF RecOK
<1>4. QED
  BY <1>2, <1>3, CallSet

LEMMA ContinueType ==
  ASSUME Types, NEW p \in Procs, ContinueCall(p) \/ SweepFails(p) \/ Drop(p)
  PROVE  Types'
<1>0. RecOK(calls[p]) /\ calls[p] \in Call
  BY DEF Types, TypeOK, CallsOK
<1> DEFINE CallsType == calls' \in [Procs -> Call] /\ CallsOK'
           Same == /\ order' = order /\ stage' = stage /\ delivery' = delivery
                   /\ job' = job /\ link' = link /\ owed' = owed
<1>1. CASE CreateCommit(p)
  <2> DEFINE d == calls[p].row
  <2>1. d \in Deliveries
    BY <1>0, <1>1 DEF RecOK, CreateCommit, At
  <2>2. delivery' \in [Deliveries -> DeliveryPhases]
    BY <1>1 DEF CreateCommit, Types, TypeOK, DeliveryPhases
  <2>3. link' \in [Jobs -> Deliveries \cup {None}]
    BY <1>1, <2>1 DEF CreateCommit, Types, TypeOK
  <2>4. CallsType
    BY <1>1, Ended DEF CreateCommit
  <2>5. QED
    BY <1>1, <2>2, <2>3, <2>4 DEF CreateCommit, Types, TypeOK
<1>2. CASE Refuse(p) \/ JobsSwept(p)
  <2>1. CallsType
    BY <1>2, Ended DEF Refuse, JobsSwept
  <2>2. Same /\ disturbed' = disturbed
    BY <1>2 DEF Refuse, JobsSwept, parts
  <2>3. QED
    BY <2>1, <2>2 DEF Types, TypeOK
<1>3. CASE StageWrite(p)
  <2> DEFINE s == calls[p].store
             to == calls[p].status
  <2>1. s \in Stores /\ to \in Stages
    BY <1>0, <1>3 DEF RecOK, StageWrite, At, Stages
  <2>2. stage' \in [Stores -> Stages]
    BY <1>3, <2>1 DEF StageWrite, Types, TypeOK
  <2>3. order' \in OrderStatuses
    BY <1>3, SyncedType DEF StageWrite, Types, TypeOK
  <2>4. CASE to = "ready"
    <3>1. calls' = [calls EXCEPT ![p].step = "auto_pickup"]
      BY <1>3, <2>4 DEF StageWrite, Types, TypeOK
    <3>2. CallsType
      BY <3>1, SweepCall
    <3>3. QED
      BY <1>3, <2>2, <2>3, <3>2 DEF StageWrite, Types, TypeOK, parts
  <2>5. CASE to # "ready"
    <3>1. calls' = [calls EXCEPT ![p] = IdleCall]
      BY <1>3, <2>5 DEF StageWrite
    <3>2. CallsType
      BY <3>1, Ended DEF End
    <3>3. QED
      BY <1>3, <2>2, <2>3, <3>2 DEF StageWrite, Types, TypeOK, parts
  <2>6. QED
    BY <2>4, <2>5
<1>4. CASE AutoPickup(p)
  <2>1. ASSUME NEW d \in Deliveries,
               calls' = [calls EXCEPT ![p] =
                           [IdleCall EXCEPT !.step = "create", !.row = d]]
        PROVE  CallsType
    <3> DEFINE r == [IdleCall EXCEPT !.step = "create", !.row = d]
    <3>1. RecOK(r)
      BY Idles DEF RecOK, IdleCall, Call, CallSteps
    <3>2. calls' = [calls EXCEPT ![p] = r]
      BY <2>1
    <3> HIDE DEF r
    <3>3. QED
      BY <3>1, <3>2, CallSet
  <2>2. CallsType
    BY <1>4, <2>1, Ended DEF AutoPickup
  <2>3. QED
    BY <1>4, <2>2 DEF AutoPickup, Types, TypeOK, parts
<1>5. CASE UpdateWrite(p)
  <2>1. order' \in OrderStatuses /\ disturbed' \in BOOLEAN
    BY <1>0, <1>5 DEF UpdateWrite, RecOK, At
  <2>2. CallsType
    BY <1>5, Ended, SweepCall DEF UpdateWrite, SweepSteps
  <2>3. QED
    BY <1>5, <2>1, <2>2 DEF UpdateWrite, Types, TypeOK, parts
<1>6. CASE ListDeliveries(p) \/ DeliveriesSwept(p) \/ ListJobs(p)
  <2>0. {"list_jobs", "delivery_rows", "job_rows"} \subseteq SweepSteps
    BY DEF SweepSteps
  <2>1. CallsType
    <3>1. CASE ListDeliveries(p)
      <4> DEFINE rest == {d \in Deliveries : delivery[d] \in LiveDelivery}
      <4>1. calls' = [calls EXCEPT ![p].step = "delivery_rows", ![p].todo = rest]
        BY <3>1 DEF ListDeliveries
      <4>2. rest \in SUBSET (Deliveries \cup Jobs)
        OBVIOUS
      <4> HIDE DEF rest
      <4>3. QED
        BY <2>0, <4>1, <4>2, SweepCall
    <3>2. CASE DeliveriesSwept(p)
      BY <2>0, <3>2, SweepCall DEF DeliveriesSwept
    <3>3. CASE ListJobs(p)
      <4> DEFINE rest == {j \in Jobs : job[j] \in LiveJob}
      <4>1. calls' = [calls EXCEPT ![p].step = "job_rows", ![p].todo = rest]
        BY <3>3 DEF ListJobs
      <4>2. rest \in SUBSET (Deliveries \cup Jobs)
        OBVIOUS
      <4> HIDE DEF rest
      <4>3. QED
        BY <2>0, <4>1, <4>2, SweepCall
    <3>4. QED
      BY <1>6, <3>1, <3>2, <3>3
  <2>2. Same /\ disturbed' = disturbed
    BY <1>6 DEF ListDeliveries, DeliveriesSwept, ListJobs, parts
  <2>3. QED
    BY <2>1, <2>2 DEF Types, TypeOK
<1>7. ASSUME NEW d \in Deliveries, SweepDelivery(p, d)
      PROVE  Types'
  <2>1. CallsType
    <3>1. calls[p].step \in SweepSteps /\ calls[p].todo \ {d} \in SUBSET (Deliveries \cup Jobs)
      BY <1>0, <1>7 DEF SweepDelivery, SweepSteps, At, Call
    <3>2. calls' = [calls EXCEPT ![p].todo = calls[p].todo \ {d}]
      BY <1>7 DEF SweepDelivery
    <3>3. QED
      BY <3>1, <3>2, SweepCall
  <2>2. delivery' \in [Deliveries -> DeliveryPhases]
    BY <1>7 DEF SweepDelivery, Types, TypeOK, DeliveryPhases
  <2>3. QED
    BY <1>7, <2>1, <2>2 DEF SweepDelivery, Types, TypeOK
<1>8. ASSUME NEW j \in Jobs, SweepJob(p, j)
      PROVE  Types'
  <2>1. CallsType
    <3>1. calls[p].step \in SweepSteps /\ calls[p].todo \ {j} \in SUBSET (Deliveries \cup Jobs)
      BY <1>0, <1>8 DEF SweepJob, SweepSteps, At, Call
    <3>2. calls' = [calls EXCEPT ![p].todo = calls[p].todo \ {j}]
      BY <1>8 DEF SweepJob
    <3>3. QED
      BY <3>1, <3>2, SweepCall
  <2>2. job' \in [Jobs -> JobPhases]
    BY <1>8 DEF SweepJob, Types, TypeOK, JobPhases
  <2>3. QED
    BY <1>8, <2>1, <2>2 DEF SweepJob, Types, TypeOK
<1>9. CASE SweepFails(p)
  <2>1. CallsType
    <3> DEFINE rest == {}
    <3>1. calls' = [calls EXCEPT ![p].step = "list_jobs", ![p].todo = rest]
      BY <1>9 DEF SweepFails
    <3>2. "list_jobs" \in SweepSteps /\ rest \in SUBSET (Deliveries \cup Jobs)
      BY DEF SweepSteps
    <3> HIDE DEF rest
    <3>3. QED
      BY <3>1, <3>2, SweepCall
  <2>2. Same /\ disturbed' \in BOOLEAN
    BY <1>9 DEF SweepFails, parts
  <2>3. QED
    BY <2>1, <2>2 DEF Types, TypeOK
<1>10. CASE Drop(p)
  <2>1. CallsType
    BY <1>10, Ended DEF Drop
  <2>2. Same /\ disturbed' \in BOOLEAN
    BY <1>10 DEF Drop, parts
  <2>3. QED
    BY <2>1, <2>2 DEF Types, TypeOK
<1>11. QED
  BY <1>1, <1>2, <1>3, <1>4, <1>5, <1>6, <1>7, <1>8, <1>9, <1>10
  DEF ContinueCall

LEMMA SyncStepType ==
  ASSUME Types, Sync \/ LoseSync
  PROVE  Types'
<1>1. order' \in OrderStatuses
  BY SyncedType DEF Sync, LoseSync, Types, TypeOK
<1>2. owed' \in 0 .. MaxOwed
  BY ConstantsAssumption DEF Sync, LoseSync, Types, TypeOK
<1>3. QED
  BY <1>1, <1>2 DEF Sync, LoseSync, Types, TypeOK, CallsOK

LEMMA TypesInductive == Init => Types
<1>1. SUFFICES ASSUME Init PROVE Types
  OBVIOUS
<1>2. CallsOK /\ calls \in [Procs -> Call]
  BY <1>1, Idles DEF Init, CallsOK, RecOK
<1>3. QED
  BY <1>1, <1>2, ConstantsAssumption
  DEF Init, Types, TypeOK, OrderStatuses, Stages, DeliveryPhases, JobPhases

LEMMA TypesStep == Types /\ [Next]_vars => Types'
<1>1. SUFFICES ASSUME Types, [Next]_vars PROVE Types'
  OBVIOUS
<1>2. CASE UNCHANGED vars
  BY <1>1, <1>2 DEF vars, Types, TypeOK, CallsOK
<1>3. QED
  BY <1>1, <1>2, PartsType, CreateJobsType, BeginType, ContinueType, SyncStepType DEF Next

\* Every order's status, stages, deliveries, jobs and requests keep their types
THEOREM TypeCorrect == Spec => []TypeOK
<1>1. Types => TypeOK
  BY DEF Types
<1>2. QED
  BY <1>1, TypesInductive, TypesStep, PTL DEF Spec

-----------------------------------------------------------------------------
(* What can happen to a delivery and to a job                              *)

\* A delivery that was handed over or cancelled is at most cancelled
LEMMA OverStays ==
  ASSUME Types, [Next]_vars, NEW d \in Deliveries,
         delivery[d] \in {"delivered", "cancelled"}
  PROVE  delivery'[d] \in {"delivered", "cancelled"}
<1>0. delivery \in [Deliveries -> DeliveryPhases]
  BY DEF Types, TypeOK
<1>1. ASSUME NEW e \in Deliveries, DeliveryStep(e)
      PROVE  delivery'[d] \in {"delivered", "cancelled"}
  <2>1. ASSUME NEW from, NEW to, MoveDelivery(e, from, to),
               "delivered" \notin from, "cancelled" \notin from
        PROVE  delivery'[d] = delivery[d]
    BY <1>0, <2>1 DEF MoveDelivery
  <2>2. QED
    BY <1>1, <2>1 DEF DeliveryStep, PickupDelivery, StartDelivery, Deliver,
                      FailDelivery, RetryDelivery, CancelDelivery,
                      ReturnDelivery, LiveDelivery
<1>2. ASSUME NEW p \in Procs, CreateCommit(p)
      PROVE  delivery'[d] = delivery[d]
  BY <1>0, <1>2 DEF CreateCommit
<1>3. ASSUME NEW p \in Procs, NEW e \in Deliveries, SweepDelivery(p, e)
      PROVE  delivery'[d] \in {"delivered", "cancelled"}
  BY <1>0, <1>3 DEF SweepDelivery
<1>4. ASSUME NEW j \in Jobs, JobStep(j)
      PROVE  delivery' = delivery
  BY <1>4 DEF JobStep, MoveJob, StartJob, BeginJob, CompleteJob, FailJob,
              RetryJob, CancelJob, LinkJob
<1>5. ASSUME NEW p \in Procs,
             \/ BeginCall(p) \/ SweepFails(p) \/ Drop(p)
             \/ Refuse(p) \/ StageWrite(p) \/ AutoPickup(p) \/ UpdateWrite(p)
             \/ ListDeliveries(p) \/ DeliveriesSwept(p) \/ ListJobs(p)
             \/ JobsSwept(p) \/ \E j \in Jobs : SweepJob(p, j)
      PROVE  delivery' = delivery
  BY <1>5 DEF BeginCall, CreateBegin, StageBegin, UpdateBegin, SweepFails, Drop,
              Refuse, StageWrite, AutoPickup, UpdateWrite, ListDeliveries,
              DeliveriesSwept, ListJobs, JobsSwept, SweepJob, parts
<1>6. CASE CreateJobs \/ Sync \/ LoseSync \/ UNCHANGED vars
  BY <1>6 DEF CreateJobs, Sync, LoseSync, vars
<1>7. QED
  BY <1>1, <1>2, <1>3, <1>4, <1>5, <1>6 DEF Next, ContinueCall

\* A job enters the work only with its goods handed over; only a job that has
\* not begun is tied to another delivery
LEMMA JobChange ==
  ASSUME Types, [Next]_vars, NEW j \in Jobs
  PROVE  \/ /\ link'[j] = link[j]
            /\ job'[j] \in {"in_progress", "completed"} =>
                 \/ job[j] \in {"in_progress", "completed"}
                 \/ link[j] # None => delivery[link[j]] = "delivered"
         \/ job'[j] = job[j] /\ job[j] = "pending"
<1>0. job \in [Jobs -> JobPhases] /\ link \in [Jobs -> Deliveries \cup {None}]
  BY DEF Types, TypeOK
<1>1. ASSUME NEW i \in Jobs, JobStep(i)
      PROVE  \/ /\ link'[j] = link[j]
                /\ job'[j] \in {"in_progress", "completed"} =>
                     \/ job[j] \in {"in_progress", "completed"}
                     \/ link[j] # None => delivery[link[j]] = "delivered"
             \/ job'[j] = job[j] /\ job[j] = "pending"
  <2>1. ASSUME NEW from, NEW to \in {"pending", "on_the_way", "failed", "cancelled"},
               MoveJob(i, from, to)
        PROVE  /\ link'[j] = link[j]
               /\ job'[j] \in {"in_progress", "completed"} => job'[j] = job[j]
    BY <1>0, <2>1 DEF MoveJob
  <2>2. CASE BeginJob(i)
    BY <1>0, <2>2 DEF BeginJob, MoveJob
  <2>3. CASE CompleteJob(i)
    BY <1>0, <2>3 DEF CompleteJob, MoveJob
  <2>4. CASE StartJob(i) \/ FailJob(i) \/ RetryJob(i) \/ CancelJob(i)
    BY <2>1, <2>4 DEF StartJob, FailJob, RetryJob, CancelJob
  <2>5. ASSUME NEW d \in Deliveries \cup {None}, LinkJob(i, d)
        PROVE  \/ link'[j] = link[j] /\ job'[j] = job[j]
               \/ job'[j] = job[j] /\ job[j] = "pending"
    BY <1>0, <2>5 DEF LinkJob
  <2>6. QED
    BY <1>1, <2>2, <2>3, <2>4, <2>5 DEF JobStep
<1>2. ASSUME NEW p \in Procs, CreateCommit(p)
      PROVE  \/ link'[j] = link[j] /\ job'[j] = job[j]
             \/ job'[j] = job[j] /\ job[j] = "pending"
  BY <1>0, <1>2 DEF CreateCommit
<1>3. ASSUME NEW p \in Procs, NEW i \in Jobs, SweepJob(p, i)
      PROVE  link'[j] = link[j] /\ job'[j] \in {job[j], "cancelled"}
  BY <1>0, <1>3 DEF SweepJob
<1>4. ASSUME NEW d \in Deliveries, DeliveryStep(d)
      PROVE  job' = job /\ link' = link
  BY <1>4 DEF DeliveryStep, MoveDelivery, PickupDelivery, StartDelivery,
              Deliver, FailDelivery, RetryDelivery, CancelDelivery,
              ReturnDelivery
<1>5. ASSUME NEW p \in Procs,
             \/ BeginCall(p) \/ SweepFails(p) \/ Drop(p)
             \/ Refuse(p) \/ StageWrite(p) \/ AutoPickup(p) \/ UpdateWrite(p)
             \/ ListDeliveries(p) \/ DeliveriesSwept(p) \/ ListJobs(p)
             \/ JobsSwept(p) \/ \E d \in Deliveries : SweepDelivery(p, d)
      PROVE  job' = job /\ link' = link
  BY <1>5 DEF BeginCall, CreateBegin, StageBegin, UpdateBegin, SweepFails, Drop,
              Refuse, StageWrite, AutoPickup, UpdateWrite, ListDeliveries,
              DeliveriesSwept, ListJobs, JobsSwept, SweepDelivery, parts
<1>6. CASE Sync \/ LoseSync \/ UNCHANGED vars
  BY <1>6 DEF Sync, LoseSync, vars
<1>7. CASE CreateJobs
  BY <1>7 DEF CreateJobs
<1>8. QED
  BY <1>1, <1>2, <1>3, <1>4, <1>5, <1>6, <1>7 DEF Next, ContinueCall

\* The installer begins after the goods were handed over
THEOREM InstallCorrect == Spec => []InstallAfterDelivery
<1>1. Init => InstallAfterDelivery
  BY DEF Init, InstallAfterDelivery
<1>2. ASSUME Types, InstallAfterDelivery, [Next]_vars
      PROVE  InstallAfterDelivery'
  <2>1. SUFFICES ASSUME NEW j \in Jobs,
                        job'[j] \in {"in_progress", "completed"}, link'[j] # None
                 PROVE  delivery'[link'[j]] \in {"delivered", "cancelled"}
    BY DEF InstallAfterDelivery
  <2>2. /\ link'[j] = link[j]
        /\ \/ job[j] \in {"in_progress", "completed"}
           \/ link[j] # None => delivery[link[j]] = "delivered"
    BY <1>2, <2>1, JobChange
  <2>3. link[j] \in Deliveries
    BY <1>2, <2>1, <2>2 DEF Types, TypeOK
  <2>4. delivery[link[j]] \in {"delivered", "cancelled"}
    BY <1>2, <2>1, <2>2 DEF InstallAfterDelivery
  <2>5. QED
    BY <1>2, <2>2, <2>3, <2>4, OverStays
<1>3. QED
  BY <1>1, <1>2, TypesInductive, TypesStep, PTL DEF Spec

-----------------------------------------------------------------------------
(* What can happen to the order's status                                   *)

\* The status is computed anew, or written by an update, or left alone; the
\* stages change only in the request that computes it, for packing or ready
LEMMA OrderChange ==
  ASSUME Types, [Next]_vars
  PROVE  \/ order' = order /\ stage' = stage
         \/ stage' = stage /\ order' = Synced(stage)
         \/ \E s \in Stores, to \in {"packing", "ready"} :
              /\ stage' = [stage EXCEPT ![s] = to]
              /\ order' = Synced([stage EXCEPT ![s] = to])
         \/ stage' = stage /\ (order' = "cancelled" \/ disturbed')
<1>1. ASSUME NEW p \in Procs, StageWrite(p)
      PROVE  \E s \in Stores, to \in {"packing", "ready"} :
               /\ stage' = [stage EXCEPT ![s] = to]
               /\ order' = Synced([stage EXCEPT ![s] = to])
  <2>1. calls[p].store \in Stores /\ calls[p].status \in {"packing", "ready"}
    BY <1>1 DEF Types, CallsOK, RecOK, StageWrite, At
  <2>2. QED
    BY <1>1, <2>1 DEF StageWrite
<1>2. ASSUME NEW p \in Procs, UpdateWrite(p)
      PROVE  stage' = stage /\ (order' = "cancelled" \/ disturbed')
  BY <1>2 DEF UpdateWrite
<1>3. CASE Sync
  BY <1>3 DEF Sync
<1>4. ASSUME \/ \E d \in Deliveries : DeliveryStep(d)
             \/ \E j \in Jobs : JobStep(j)
      PROVE  order' = order /\ stage' = stage
  BY <1>4 DEF DeliveryStep, JobStep, MoveDelivery, MoveJob, PickupDelivery,
              StartDelivery, Deliver, FailDelivery, RetryDelivery,
              CancelDelivery, ReturnDelivery, StartJob, BeginJob, CompleteJob,
              FailJob, RetryJob, CancelJob, LinkJob
<1>5. ASSUME NEW p \in Procs,
             \/ BeginCall(p) \/ SweepFails(p) \/ Drop(p)
             \/ CreateCommit(p) \/ Refuse(p) \/ AutoPickup(p)
             \/ ListDeliveries(p) \/ DeliveriesSwept(p) \/ ListJobs(p)
             \/ JobsSwept(p) \/ \E d \in Deliveries : SweepDelivery(p, d)
             \/ \E j \in Jobs : SweepJob(p, j)
      PROVE  order' = order /\ stage' = stage
  BY <1>5 DEF BeginCall, CreateBegin, StageBegin, UpdateBegin, SweepFails, Drop,
              CreateCommit, Refuse, AutoPickup, ListDeliveries,
              DeliveriesSwept, ListJobs, JobsSwept, SweepDelivery, SweepJob
<1>6. CASE CreateJobs \/ LoseSync \/ UNCHANGED vars
  BY <1>6 DEF CreateJobs, LoseSync, vars
<1>7. QED
  BY <1>1, <1>2, <1>3, <1>4, <1>5, <1>6 DEF Next, ContinueCall

\* No step undoes a disturbance
LEMMA DisturbedStays ==
  ASSUME Types, [Next]_vars
  PROVE  disturbed => disturbed'
<1>1. ASSUME \/ \E d \in Deliveries : DeliveryStep(d)
             \/ \E j \in Jobs : JobStep(j)
      PROVE  disturbed' = disturbed
  BY <1>1 DEF DeliveryStep, JobStep, MoveDelivery, MoveJob, PickupDelivery,
              StartDelivery, Deliver, FailDelivery, RetryDelivery,
              CancelDelivery, ReturnDelivery, StartJob, BeginJob, CompleteJob,
              FailJob, RetryJob, CancelJob, LinkJob
<1>2. ASSUME NEW p \in Procs, BeginCall(p) \/ ContinueCall(p)
      PROVE  disturbed => disturbed'
  BY <1>2 DEF BeginCall, CreateBegin, StageBegin, UpdateBegin, ContinueCall,
              CreateCommit, Refuse, StageWrite, AutoPickup, UpdateWrite,
              ListDeliveries, DeliveriesSwept, ListJobs, JobsSwept,
              SweepDelivery, SweepJob
<1>3. ASSUME NEW p \in Procs, SweepFails(p) \/ Drop(p)
      PROVE  disturbed => disturbed'
  BY <1>3 DEF SweepFails, Drop
<1>4. CASE CreateJobs \/ Sync \/ LoseSync \/ UNCHANGED vars
  BY <1>4 DEF CreateJobs, Sync, LoseSync, vars
<1>5. QED
  BY <1>1, <1>2, <1>3, <1>4 DEF Next

\* A late computation does not re-open an order
THEOREM FinishedCorrect == Spec => FinishedStays
<1>1. ASSUME Types, [Next]_vars, order \in {"done", "cancelled"}, order' # order
      PROVE  order' = "cancelled" \/ disturbed'
  BY <1>1, OrderChange, SyncedFinal
<1>2. Types /\ [Next]_vars =>
        [(order \in {"done", "cancelled"} /\ order' # order)
           => (order' = "cancelled" \/ disturbed')]_vars
  BY <1>1
<1>3. QED
  BY <1>2, TypesInductive, TypesStep, PTL DEF Spec, FinishedStays

\* A packing status is one the stages support
THEOREM StagesCorrect == Spec => []StatusFollowsStages
<1>1. StatusFollowsStages <=> (~disturbed => Supports(stage, order))
  BY DEF StatusFollowsStages, Supports
<1>2. Init => StatusFollowsStages
  BY DEF Init, StatusFollowsStages
<1>3. ASSUME Types, ~disturbed => Supports(stage, order), [Next]_vars
      PROVE  ~disturbed' => Supports(stage', order')
  <2>1. SUFFICES ASSUME ~disturbed' PROVE Supports(stage', order')
    OBVIOUS
  <2>2. ~disturbed /\ Supports(stage, order)
    BY <1>3, <2>1, DisturbedStays
  <2>3. CASE order' = order /\ stage' = stage
    BY <2>2, <2>3
  <2>4. CASE stage' = stage /\ order' = Synced(stage)
    BY <2>2, <2>4, SyncedPacking
  <2>5. ASSUME NEW s \in Stores, NEW to \in {"packing", "ready"},
               stage' = [stage EXCEPT ![s] = to],
               order' = Synced([stage EXCEPT ![s] = to])
        PROVE  Supports(stage', order')
    <3> DEFINE now == [stage EXCEPT ![s] = to]
    <3>1. now[s] # "waiting"
      BY <1>3 DEF Types, TypeOK
    <3>2. stage' = now /\ order' = Synced(now)
      BY <2>5
    <3> HIDE DEF now
    <3>3. QED
      BY <3>1, <3>2, SyncedPacking
  <2>6. CASE stage' = stage /\ (order' = "cancelled" \/ disturbed')
    BY <2>1, <2>6 DEF Supports
  <2>7. QED
    BY <1>3, <2>3, <2>4, <2>5, <2>6, OrderChange
<1>4. StatusFollowsStages' <=> (~disturbed' => Supports(stage', order'))
  BY DEF StatusFollowsStages, Supports
<1>5. QED
  BY <1>1, <1>2, <1>3, <1>4, TypesInductive, TypesStep, PTL DEF Spec

-----------------------------------------------------------------------------
(* Goods on the way                                                        *)

\* Either the step leaves something to tell the order, or it is the telling, or
\* no delivery has newly set out and nothing was owed before
LEMMA OwedChange ==
  ASSUME Types, [Next]_vars
  PROVE  \/ owed' > 0
         \/ disturbed'
         \/ Sync
         \/ /\ owed' = owed
            /\ \A d \in Deliveries :
                 delivery'[d] = "on_the_way" => delivery[d] = "on_the_way"
<1>0. delivery \in [Deliveries -> DeliveryPhases] /\ owed \in Nat
  BY ConstantsAssumption DEF Types, TypeOK
<1>1. OweSync => owed' > 0
  BY <1>0 DEF OweSync
<1> DEFINE Quiet == /\ owed' = owed
                    /\ \A d \in Deliveries :
                         delivery'[d] = "on_the_way" => delivery[d] = "on_the_way"
<1>2. ASSUME NEW e \in Deliveries, DeliveryStep(e)
      PROVE  OweSync \/ Quiet
  <2>1. ASSUME NEW from, NEW to \in DeliveryPhases \ {"on_the_way"},
               MoveDelivery(e, from, to), UNCHANGED owed
        PROVE  Quiet
    BY <1>0, <2>1 DEF MoveDelivery
  <2>2. QED
    BY <1>2, <2>1 DEF DeliveryStep, PickupDelivery, StartDelivery, Deliver,
                      FailDelivery, RetryDelivery, CancelDelivery,
                      ReturnDelivery, DeliveryPhases
<1>3. ASSUME NEW j \in Jobs, JobStep(j)
      PROVE  OweSync \/ Quiet
  BY <1>3 DEF JobStep, MoveJob, StartJob, BeginJob, CompleteJob, FailJob,
              RetryJob, CancelJob, LinkJob
<1>4. ASSUME NEW p \in Procs, CreateCommit(p)
      PROVE  Quiet
  BY <1>0, <1>4 DEF CreateCommit
<1>5. ASSUME NEW p \in Procs, NEW e \in Deliveries, SweepDelivery(p, e)
      PROVE  Quiet
  BY <1>0, <1>5 DEF SweepDelivery
<1>6. ASSUME NEW p \in Procs,
             \/ BeginCall(p) \/ SweepFails(p) \/ Drop(p)
             \/ Refuse(p) \/ StageWrite(p) \/ AutoPickup(p) \/ UpdateWrite(p)
             \/ ListDeliveries(p) \/ DeliveriesSwept(p) \/ ListJobs(p)
             \/ JobsSwept(p) \/ \E j \in Jobs : SweepJob(p, j)
      PROVE  Quiet
  BY <1>6 DEF BeginCall, CreateBegin, StageBegin, UpdateBegin, SweepFails, Drop,
              Refuse, StageWrite, AutoPickup, UpdateWrite, ListDeliveries,
              DeliveriesSwept, ListJobs, JobsSwept, SweepJob, parts
<1>7. CASE CreateJobs \/ LoseSync
  BY <1>7 DEF CreateJobs, LoseSync
<1>8. CASE UNCHANGED vars
  BY <1>8 DEF vars
<1>9. QED
  BY <1>1, <1>2, <1>3, <1>4, <1>5, <1>6, <1>7, <1>8 DEF Next, ContinueCall

\* Once the handlers have reported, goods on the way show in the order
THEOREM OnTheWayCorrect == Spec => []OnTheWayIsShown
<1>1. Init => OnTheWayIsShown
  BY DEF Init, OnTheWayIsShown
<1>2. ASSUME Types, OnTheWayIsShown, [Next]_vars
      PROVE  OnTheWayIsShown'
  <2>1. SUFFICES ASSUME owed' = 0, ~disturbed',
                        NEW d \in Deliveries, delivery'[d] = "on_the_way"
                 PROVE  order' \in {"shipping", "done", "cancelled"}
    BY DEF OnTheWayIsShown, Settled
  <2>2. order \in OrderStatuses
    BY <1>2 DEF Types, TypeOK
  <2>3. CASE Sync
    <3>1. delivery[d] = "on_the_way" /\ order' = Synced(stage)
      BY <2>1, <2>3 DEF Sync
    <3>2. QED
      BY <2>2, <3>1, SyncedOnTheWay
  <2>4. CASE owed' = owed /\ delivery[d] = "on_the_way"
    <3>1. ~disturbed
      BY <1>2, <2>1, DisturbedStays
    <3>2. order \in {"shipping", "done", "cancelled"}
      BY <1>2, <2>1, <2>4, <3>1 DEF OnTheWayIsShown, Settled
    <3>3. \/ order' \in {order, "cancelled"}
          \/ \E stages : order' = Synced(stages)
      BY <1>2, <2>1, OrderChange
    <3>4. QED
      BY <2>2, <2>4, <3>2, <3>3, SyncedOnTheWay
  <2>5. QED
    BY <1>2, <2>1, <2>3, <2>4, OwedChange
<1>3. QED
  BY <1>1, <1>2, TypesInductive, TypesStep, PTL DEF Spec

=============================================================================
