----------------------------- MODULE ServiceJobs -----------------------------
(***************************************************************************)
(* The life of service jobs - installation, repair, a warranty visit -     *)
(* under the handlers of service_jobs/jobs.service.ts: who is assigned,    *)
(* when the visit is, what it costs and who agreed to that.                *)
(*                                                                         *)
(* A handler works in one transaction on the locked job and is one action, *)
(* except workerComplete, which reads the job, compares the code in one    *)
(* transaction and completes in another, workerSetCrew, which reads the    *)
(* crew's members before it writes, and the acceptance of a quotation,     *)
(* which reads the job's amounts without a lock (refreshJobAmounts).       *)
(***************************************************************************)
EXTENDS Naturals

CONSTANTS
  Jobs,         \* rows of service_jobs
  Leader,       \* the worker who leads the crew
  Others,       \* other workers; any of them may be a member of the crew
  Procs,        \* requests that may be between two database accesses
  Quoted,       \* sum of the prices of the job's lines, when it was created
  Offers,       \* sums of the prices that an accepted quotation may give them
  VisitFee,     \* visit_fee_uzs
  NewPrices,    \* amounts a worker may ask for on site
  MaxAttempts,  \* JOB_CODE_MAX_ATTEMPTS
  Null          \* a column that is null

Workers == {Leader} \cup Others

ASSUME JobsAssumption ==
  /\ Jobs # {} /\ Leader \notin Others
  /\ Quoted \in Nat /\ VisitFee \in Nat /\ NewPrices \subseteq Nat /\ Offers \subseteq Nat
  /\ MaxAttempts \in Nat \ {0}
  /\ Null \notin Nat /\ Null \notin Workers

VARIABLES
  job,      \* job[j]: the columns of service_jobs that the handlers decide on
  members,  \* the workers other than the leader with a row in crew_members
  unpriced, \* orders.kind = 'quote': the customer has not accepted the offer
  calls,    \* calls[p]: the handler p is in the middle of, and what it has read
  base,     \* history: base[j], the cash agreed before anything on site
  done      \* history: done[j], how often the job was added to stores.jobs_done

vars == <<job, members, unpriced, calls, base, done>>

Statuses == {"pending", "assigned", "accepted", "on_the_way", "arrived",
             "in_progress", "completed", "failed", "cancelled"}
Early == {"pending", "assigned", "accepted"}
AtWork == {"on_the_way", "arrived", "in_progress"}
JOB_ACTIVE == {"assigned", "accepted"} \cup AtWork

Amounts == Nat

JOB_TRANSITIONS ==
  [assign   |-> [from |-> {"pending", "assigned"}, to |-> "assigned"],
   reject   |-> [from |-> {"assigned"}, to |-> "pending"],
   accept   |-> [from |-> {"assigned"}, to |-> "accepted"],
   start    |-> [from |-> {"accepted"}, to |-> "on_the_way"],
   arrive   |-> [from |-> {"on_the_way"}, to |-> "arrived"],
   begin    |-> [from |-> {"arrived"}, to |-> "in_progress"],
   complete |-> [from |-> {"in_progress"}, to |-> "completed"],
   fail     |-> [from |-> AtWork, to |-> "failed"],
   cancel   |-> [from |-> Statuses \ {"completed", "cancelled"}, to |-> "cancelled"],
   retry    |-> [from |-> {"failed"}, to |-> "pending"]]

(***************************************************************************)
(* cod is cod_amount, before cod_before_price, final and answer are        *)
(* final_amount and its status; executors are the service_job_workers.     *)
(***************************************************************************)
Job == [status    : Statuses,
        worker    : Workers \cup {Null},
        crew      : BOOLEAN,
        executors : SUBSET Others,
        schedule  : {"proposed", "rescheduled", "confirmed"},
        quoted    : Amounts \cup {Null},
        visit     : Amounts,
        cod       : Amounts,
        before    : Amounts \cup {Null},
        final     : Amounts \cup {Null},
        answer    : {"none", "pending", "accepted", "rejected"},
        attempts  : 0 .. MaxAttempts,
        warranty  : BOOLEAN]

\* w: the worker of the request; chosen: the executors asked for, checked;
\* seen: the amounts of the jobs that the acceptance of the quotation, or the
\* cancellation of the order, has on its list (Null: not on it)
Call == [step   : {"idle", "code", "apply", "set_crew", "kp", "sweep"},
         j      : Jobs,
         w      : Workers,
         chosen : SUBSET Others,
         seen   : [Jobs -> [quoted : Amounts \cup {Null}, cod : Amounts] \cup {Null}]]

TypeOK ==
  /\ job \in [Jobs -> Job]
  /\ members \subseteq Others
  /\ unpriced \in BOOLEAN
  /\ calls \in [Procs -> Call]
  /\ base \in [Jobs -> Amounts]
  /\ done \in [Jobs -> 0 .. 2]

IdleCall == [step |-> "idle", j |-> CHOOSE j \in Jobs : TRUE, w |-> Leader,
             chosen |-> {}, seen |-> [j \in Jobs |-> Null]]

Fresh(quoted, cod, visit, warranty) ==
  [status |-> "pending", worker |-> Null, crew |-> FALSE, executors |-> {},
   schedule |-> "proposed", quoted |-> quoted, visit |-> visit, cod |-> cod,
   before |-> Null, final |-> Null, answer |-> "none", attempts |-> 0,
   warranty |-> warranty]

(***************************************************************************)
(* createServiceLinesAndJobs: priced lines, cash on site or paid with the  *)
(* order, or unpriced ones, which may yet have to make the order a         *)
(* quotation; warrantyClaim: a job at no charge.                           *)
(***************************************************************************)
Init ==
  /\ unpriced \in BOOLEAN
  /\ job \in [Jobs -> {Fresh(Quoted, Quoted, VisitFee, FALSE), Fresh(Quoted, 0, VisitFee, FALSE),
                       Fresh(Null, 0, VisitFee, FALSE), Fresh(0, 0, 0, TRUE)}]
  /\ members = Others
  /\ calls = [p \in Procs |-> IdleCall]
  /\ base = [j \in Jobs |-> job[j].cod]
  /\ done = [j \in Jobs |-> 0]

At(p, s) == calls[p].step = s
End(p) == calls' = [calls EXCEPT ![p] = IdleCall]
Update(j, columns) == job' = [job EXCEPT ![j] = columns]

\* apply: the rule's target status with the other columns of the payload
Apply(rule, j, columns) ==
  /\ job[j].status \in rule.from
  /\ Update(j, [columns EXCEPT !.status = rule.to])

\* workerGet: the assigned worker, or an executor of a crew's job
MayWork(w, j) ==
  \/ job[j].worker = w
  \/ job[j].crew /\ w \in job[j].executors

\* Handlers that change the job's row alone
RowOnly == UNCHANGED <<members, unpriced, calls, base, done>>

-----------------------------------------------------------------------------
(* The partner                                                             *)

\* update: cod_amount, for instance 0 when the order was paid in advance
UpdateCod(j, amount) ==
  /\ job[j].status \in Early
  /\ Update(j, [job[j] EXCEPT !.cod = amount])
  /\ base' = [base EXCEPT ![j] = amount]
  /\ UNCHANGED <<members, unpriced, calls, done>>

\* Mutant (ExecutorsOfACrew): the executors chosen for the crew stay
AssignWorkerOnly(j, w) ==
  /\ Apply(JOB_TRANSITIONS.assign, j, [job[j] EXCEPT !.worker = w, !.crew = FALSE])
  /\ RowOnly

\* assign to a worker: any earlier worker and the executors lose the job
AssignWorker(j, w) ==
  /\ Apply(JOB_TRANSITIONS.assign, j,
           [job[j] EXCEPT !.worker = w, !.crew = FALSE, !.executors = {}])
  /\ RowOnly

\* assignCrew: the job goes to the crew's leader, who chooses the executors
AssignCrew(j) ==
  /\ Apply(JOB_TRANSITIONS.assign, j,
           [job[j] EXCEPT !.worker = Leader, !.crew = TRUE, !.executors = {}])
  /\ RowOnly

\* Mutant (VisitAtAgreedTime): the time may be moved until the work begins
ScheduleUntilWork(j, outcome) ==
  /\ job[j].status \in Early \cup {"on_the_way"}
  /\ Update(j, [job[j] EXCEPT !.schedule = outcome])
  /\ RowOnly

\* schedule: confirmed as it stands or as agreed, or another time is offered
Schedule(j, outcome) ==
  /\ job[j].status \in Early
  /\ outcome \in {"confirmed", "rescheduled"}
  /\ Update(j, [job[j] EXCEPT !.schedule = outcome])
  /\ RowOnly

Cancel(j) == Apply(JOB_TRANSITIONS.cancel, j, job[j]) /\ RowOnly

\* Mutant (FreshVisit): a price asked for on the failed visit survives
ClearedButPrice(j) ==
  [job[j] EXCEPT !.worker = Null, !.crew = FALSE, !.executors = {}, !.attempts = 0,
                 !.cod = IF job[j].before # Null THEN job[j].before ELSE @,
                 !.schedule = IF @ = "confirmed" THEN "proposed" ELSE @]

\* What is left of a failed visit when the job is tried again
Cleared(j) ==
  [job[j] EXCEPT !.worker = Null, !.crew = FALSE, !.executors = {},
                 !.attempts = 0, !.final = Null, !.answer = "none",
                 !.cod = IF job[j].before # Null THEN job[j].before ELSE @,
                 !.before = Null,
                 !.schedule = IF @ = "confirmed" THEN "proposed" ELSE @]

Retry(j) == Apply(JOB_TRANSITIONS.retry, j, Cleared(j)) /\ RowOnly

-----------------------------------------------------------------------------
(* The worker                                                              *)

\* The leader's request for executors: job locked, membership read
SetCrewBegin(p, j, chosen) ==
  /\ At(p, "idle")
  /\ job[j].worker = Leader /\ job[j].crew
  /\ job[j].status \in JOB_ACTIVE
  /\ chosen \subseteq members
  /\ calls' = [calls EXCEPT ![p] = [IdleCall EXCEPT !.step = "set_crew", !.j = j,
                                                   !.chosen = chosen]]
  /\ UNCHANGED <<job, members, unpriced, base, done>>

\* The job's row is locked by a workerSetCrew under way
Locked(j) == \E p \in Procs : At(p, "set_crew") /\ calls[p].j = j

SetCrewWrite(p) ==
  /\ At(p, "set_crew")
  /\ Update(calls[p].j, [job[calls[p].j] EXCEPT !.executors = calls[p].chosen])
  /\ End(p)
  /\ UNCHANGED <<members, unpriced, base, done>>

(***************************************************************************)
(* removeMember: the membership ends and, by a DELETE that locks no job,   *)
(* the member is no longer an executor of the crew's active jobs.          *)
(***************************************************************************)
RemoveMember(w) ==
  /\ w \in members
  /\ members' = members \ {w}
  /\ job' = [j \in Jobs |->
       IF job[j].crew /\ job[j].status \in JOB_ACTIVE
         THEN [job[j] EXCEPT !.executors = @ \ {w}] ELSE job[j]]
  /\ UNCHANGED <<unpriced, calls, base, done>>

\* joinCrewByInvite
JoinCrew(w) ==
  /\ w \in Others \ members
  /\ members' = members \cup {w}
  /\ UNCHANGED <<job, unpriced, calls, base, done>>

\* Accepting and rejecting are the assigned worker's (leaderOnly)
Accept(w, j) ==
  /\ job[j].worker = w
  /\ Apply(JOB_TRANSITIONS.accept, j, job[j])
  /\ RowOnly

Reject(w, j) ==
  /\ job[j].worker = w
  /\ Apply(JOB_TRANSITIONS.reject, j,
           [job[j] EXCEPT !.worker = Null, !.crew = FALSE, !.executors = {}])
  /\ RowOnly

\* start: the time is agreed, the price of a quotation accepted; a new code
Start(w, j) ==
  /\ MayWork(w, j)
  /\ job[j].schedule = "confirmed"
  /\ ~unpriced
  /\ Apply(JOB_TRANSITIONS.start, j, [job[j] EXCEPT !.attempts = 0])
  /\ RowOnly

Arrive(w, j) == MayWork(w, j) /\ Apply(JOB_TRANSITIONS.arrive, j, job[j]) /\ RowOnly

\* begin; that the goods are delivered is a matter of module OrderFlow
Begin(w, j) == MayWork(w, j) /\ Apply(JOB_TRANSITIONS.begin, j, job[j]) /\ RowOnly

Fail(w, j) == MayWork(w, j) /\ Apply(JOB_TRANSITIONS.fail, j, job[j]) /\ RowOnly

\* Mutant (FirstTermsKept): a second price forgets the first terms
PriceAnew(w, j, amount) ==
  /\ MayWork(w, j)
  /\ job[j].status \in {"arrived", "in_progress"}
  /\ Update(j, [job[j] EXCEPT !.final = amount, !.answer = "pending",
                              !.before = job[j].cod])
  /\ RowOnly

\* A new price is asked for on site; the first terms are remembered once
Price(w, j, amount) ==
  /\ MayWork(w, j)
  /\ job[j].status \in {"arrived", "in_progress"}
  /\ Update(j, [job[j] EXCEPT !.final = amount, !.answer = "pending",
                              !.before = IF @ = Null THEN job[j].cod ELSE @])
  /\ RowOnly

\* workerComplete reads the job without a lock; what it checks may change
CompleteBegin(p, w, j, withCode) ==
  /\ At(p, "idle")
  /\ MayWork(w, j)
  /\ job[j].status \in JOB_TRANSITIONS.complete.from
  /\ job[j].answer \in {"none", "accepted"}
  /\ calls' = [calls EXCEPT ![p] = [IdleCall EXCEPT
       !.step = IF withCode THEN "code" ELSE "apply", !.j = j, !.w = w]]
  /\ UNCHANGED <<job, members, unpriced, base, done>>

\* The code is compared in a transaction of its own; a wrong one is counted
CompareCode(p, right) ==
  LET j == calls[p].j IN
  /\ At(p, "code")
  /\ MayWork(calls[p].w, j)
  /\ job[j].attempts < MaxAttempts
  /\ IF right
       THEN calls' = [calls EXCEPT ![p].step = "apply"] /\ UNCHANGED job
       ELSE End(p) /\ Update(j, [job[j] EXCEPT !.attempts = @ + 1])
  /\ UNCHANGED <<members, unpriced, base, done>>

\* Mutant (CountedOnce): trusts the status read at the beginning
CompleteApplyUnchecked(p) ==
  LET j == calls[p].j IN
  /\ At(p, "apply")
  /\ MayWork(calls[p].w, j)
  /\ Update(j, [job[j] EXCEPT !.status = "completed"])
  /\ done' = [done EXCEPT ![j] = IF @ < 2 THEN @ + 1 ELSE 2]
  /\ End(p)
  /\ UNCHANGED <<members, unpriced, base>>

\* The job is completed and the store's counter of jobs grows
CompleteApply(p) ==
  LET j == calls[p].j IN
  /\ At(p, "apply")
  /\ MayWork(calls[p].w, j)
  /\ Apply(JOB_TRANSITIONS.complete, j, job[j])
  /\ done' = [done EXCEPT ![j] = IF @ < 2 THEN @ + 1 ELSE 2]
  /\ End(p)
  /\ UNCHANGED <<members, unpriced, base>>

-----------------------------------------------------------------------------
(* The customer                                                            *)

CustomerCancel(j) ==
  /\ job[j].status \in Early
  /\ Apply(JOB_TRANSITIONS.cancel, j, job[j])
  /\ RowOnly

\* The answer to another time; a refusal brings the customer's own one back
CustomerSchedule(j, accept) ==
  /\ job[j].schedule = "rescheduled"
  /\ Update(j, [job[j] EXCEPT !.schedule = IF accept THEN "confirmed" ELSE "proposed"])
  /\ RowOnly

Minus(a, b) == IF a > b THEN a - b ELSE 0

\* Mutant (PaysOnlyByConsent): a price already answered is answered again
AnswerAgain(j, accept) ==
  LET first   == IF job[j].before # Null THEN job[j].before ELSE job[j].cod
      prepaid == Minus(IF job[j].quoted = Null THEN 0 ELSE job[j].quoted, first)
  IN /\ job[j].final # Null
     /\ Update(j, [job[j] EXCEPT
          !.answer = IF accept THEN "accepted" ELSE "rejected",
          !.cod    = Minus(IF accept THEN job[j].final ELSE job[j].visit, prepaid)])
     /\ RowOnly

(***************************************************************************)
(* answerPrice, by the customer or for one without the app by the store:   *)
(* the cash becomes the new price, or the fee of the visit, less what was  *)
(* paid in advance.  The status of the job is not asked for.               *)
(***************************************************************************)
AnswerPrice(j, accept) ==
  LET first   == IF job[j].before # Null THEN job[j].before ELSE job[j].cod
      prepaid == Minus(IF job[j].quoted = Null THEN 0 ELSE job[j].quoted, first)
  IN /\ job[j].answer = "pending"
     /\ Update(j, [job[j] EXCEPT
          !.answer = IF accept THEN "accepted" ELSE "rejected",
          !.cod    = Minus(IF accept THEN job[j].final ELSE job[j].visit, prepaid)])
     /\ RowOnly

\* ensureQuoteKind: a line without a price makes any order a quotation; create
\* does the same for the lines that it has made
BecomeQuote ==
  /\ ~unpriced
  /\ unpriced' = TRUE
  /\ UNCHANGED <<job, members, calls, base, done>>

(***************************************************************************)
(* The customer accepts the quotation: in that transaction                 *)
(* refreshJobAmounts reads the jobs without locking them, and writes the   *)
(* amounts computed from what it read; the commit makes kind = 'order'.    *)
(* The jobs of one store in one order are meant: an acceptance that moves  *)
(* them to a follow-up, which is a quotation as well, changes nothing here *)
(* and is a Drop.                                                          *)
(***************************************************************************)
Listed(p, step, S) ==
  calls' = [calls EXCEPT ![p] = [IdleCall EXCEPT !.step = step, !.seen =
    [j \in Jobs |-> IF j \in S THEN [quoted |-> job[j].quoted, cod |-> job[j].cod]
                              ELSE Null]]]

KpBegin(p) ==
  /\ At(p, "idle") /\ unpriced /\ \A q \in Procs : ~At(q, "kp")
  /\ Listed(p, "kp", {j \in Jobs : ~job[j].warranty /\ job[j].status \in Early})
  /\ UNCHANGED <<job, members, unpriced, base, done>>

KpCod(was, sum) == Minus(sum, Minus(IF was.quoted = Null THEN 0 ELSE was.quoted, was.cod))

\* sum[j]: what the quotation says of job j; amounts that agree are not written
KpWrite(p, sum) ==
  LET seen == calls[p].seen
      written == {j \in Jobs : seen[j] # Null /\ seen[j].quoted # sum[j]}
  IN /\ At(p, "kp")
     /\ \A j \in written : ~Locked(j)
     /\ job' = [j \in Jobs |->
          IF j \in written
            THEN [job[j] EXCEPT !.quoted = sum[j], !.cod = KpCod(seen[j], sum[j])] ELSE job[j]]
     /\ base' = [j \in Jobs |-> IF j \in written THEN KpCod(seen[j], sum[j]) ELSE base[j]]
     /\ unpriced' = FALSE
     /\ End(p)
     /\ UNCHANGED <<members, done>>

\* cancelJobsForOrder: the live jobs are listed, none is locked
SweepBegin(p) ==
  /\ At(p, "idle")
  /\ Listed(p, "sweep", {j \in Jobs : job[j].status \in JOB_TRANSITIONS.cancel.from})
  /\ UNCHANGED <<job, members, unpriced, base, done>>

\* One listed job after the other is cancelled, whatever it is by now
SweepJob(p, j) ==
  /\ At(p, "sweep") /\ calls[p].seen[j] # Null /\ ~Locked(j)
  /\ Update(j, [job[j] EXCEPT !.status = "cancelled"])
  /\ calls' = [calls EXCEPT ![p].seen[j] = Null]
  /\ UNCHANGED <<members, unpriced, base, done>>

\* A call ends early: refused at a later check, or its process died
Drop(p) ==
  /\ ~At(p, "idle")
  /\ End(p)
  /\ UNCHANGED <<job, members, unpriced, base, done>>

-----------------------------------------------------------------------------
\* Handlers that lock job j for all they do
JobStep(j) ==
  \/ \E amount \in {0, Quoted} : UpdateCod(j, amount)
  \/ \E w \in Workers :
       \/ AssignWorker(j, w) \/ Accept(w, j) \/ Reject(w, j)
       \/ Start(w, j) \/ Arrive(w, j) \/ Begin(w, j) \/ Fail(w, j)
       \/ \E amount \in NewPrices : Price(w, j, amount)
  \/ AssignCrew(j) \/ Cancel(j) \/ Retry(j) \/ CustomerCancel(j)
  \/ \E outcome \in {"confirmed", "rescheduled"} : Schedule(j, outcome)
  \/ \E accept \in BOOLEAN : CustomerSchedule(j, accept) \/ AnswerPrice(j, accept)

CallStep(p) ==
  \/ \E j \in Jobs :
       \/ ~Locked(j) /\ \E chosen \in SUBSET Others : SetCrewBegin(p, j, chosen)
       \/ \E w \in Workers, withCode \in BOOLEAN : CompleteBegin(p, w, j, withCode)
  \/ /\ ~Locked(calls[p].j)
     /\ \/ \E right \in BOOLEAN : CompareCode(p, right)
        \/ CompleteApply(p)
  \/ SetCrewWrite(p) \/ KpBegin(p) \/ (\E sum \in [Jobs -> Offers] : KpWrite(p, sum)) \/ Drop(p)
  \/ SweepBegin(p) \/ \E j \in Jobs : SweepJob(p, j)

Next ==
  \/ \E j \in Jobs : ~Locked(j) /\ JobStep(j)
  \/ \E p \in Procs : CallStep(p)
  \/ \E w \in Others : RemoveMember(w) \/ JoinCrew(w)
  \/ BecomeQuote

Spec == Init /\ [][Next]_vars

-----------------------------------------------------------------------------
(***************************************************************************)
(* Whatever was asked, answered and asked again on site, the terms agreed  *)
(* before it are still known: retry can bring them back and answerPrice    *)
(* computes what was paid in advance from them.                            *)
(***************************************************************************)
FirstTermsKept ==
  \A j \in Jobs :
    IF job[j].before = Null THEN job[j].cod = base[j] ELSE job[j].before = base[j]

(***************************************************************************)
(* A job that waits for a visit carries no price over from a failed one,   *)
(* answered or not, so no late answer can change what this visit costs.    *)
(***************************************************************************)
FreshVisit ==
  \A j \in Jobs : job[j].status \in Early =>
    job[j].final = Null /\ job[j].answer = "none" /\ job[j].before = Null

(***************************************************************************)
(* From the departure to the end of the work the time is one both sides    *)
(* agreed to, through assignment, re-scheduling, answers and retries.      *)
(***************************************************************************)
VisitAtAgreedTime ==
  \A j \in Jobs :
    job[j].status \in AtWork \cup {"completed"} => job[j].schedule = "confirmed"

(***************************************************************************)
(* Executors are people of a crew that has the job, and only they: no      *)
(* worker keeps access to a job that was taken back or given to another.   *)
(***************************************************************************)
ExecutorsOfACrew ==
  \A j \in Jobs : job[j].executors # {} => job[j].crew /\ job[j].worker = Leader

(***************************************************************************)
(* stores.jobs_done counts a completed job once, although two requests may *)
(* have passed the checks of workerComplete together.                      *)
(***************************************************************************)
CountedOnce ==
  \A j \in Jobs : done[j] <= 1 /\ (job[j].status = "completed" => done[j] = 1)

(***************************************************************************)
(* What a customer is asked to pay changes only before the visit, where    *)
(* also the quotation is accepted, by answering a price asked on site, or  *)
(* back to the first terms when a failed visit is tried again.  A job that *)
(* was cancelled while the acceptance was under way may be written too.    *)
(***************************************************************************)
PaysOnlyByConsent ==
  [][\A j \in Jobs : job'[j].cod # job[j].cod =>
       \/ job[j].status \in Early \cup {"cancelled"}
       \/ job[j].answer = "pending" /\ job'[j].answer \in {"accepted", "rejected"}
       \/ job[j].status = "failed" /\ job'[j].cod = base[j]]_vars

(***************************************************************************)
(* What the comment on workerComplete says: a job is not completed while   *)
(* the customer has yet to answer a new price, or has refused it.          *)
(***************************************************************************)
CompletedAtAgreedPrice ==
  [][\A j \in Jobs :
       job[j].status # "completed" /\ job'[j].status = "completed"
         => job[j].answer \in {"none", "accepted"}]_vars
=============================================================================
