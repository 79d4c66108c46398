-------------------------- MODULE ServiceJobs_proofs --------------------------
(***************************************************************************)
(* Theorems about service jobs, for any jobs, workers, requests, prices    *)
(* and number of attempts.                                                 *)
(*                                                                         *)
(* Every property is about one job, but two of them rest on what requests  *)
(* hold: RowOK says which columns go together in every status, and that no *)
(* visit begins to a job on the list of an acceptance (Offered); CallOK    *)
(* that one quotation is being accepted at most, and that the lock of      *)
(* workerSetCrew keeps the job with the crew.                              *)
(***************************************************************************)
EXTENDS ServiceJobs, TLAPS

\* An acceptance of the quotation is about to write job j
Offered(j) == \E p \in Procs : At(p, "kp") /\ calls[p].seen[j] # Null

\* The terms agreed before anything on site (b), and the price of the visit
TermsOK(r, b, offer) ==
  /\ r.before = Null => r.cod = b
  /\ r.before # Null => r.before = b
  /\ r.answer # "none" => r.final # Null /\ r.before # Null
  /\ r.status \in Early => r.final = Null /\ r.answer = "none" /\ r.before = Null
  /\ offer => r.status \in Early \cup {"cancelled"} /\ r.before = Null

\* Who comes and when
VisitOK(r) ==
  /\ r.status \in AtWork \cup {"completed"} => r.schedule = "confirmed"
  /\ r.executors # {} => r.crew /\ r.worker = Leader

\* A job that was counted (n times) is closed for good
CountOK(r, n) ==
  /\ r.status \notin {"completed", "cancelled"} => n = 0
  /\ r.status = "completed" => n = 1
  /\ n <= 1

RowOK(r, b, n, offer) == TermsOK(r, b, offer) /\ VisitOK(r) /\ CountOK(r, n)

JobOK(j) == RowOK(job[j], base[j], done[j], Offered(j))

CallOK(p) ==
  /\ At(p, "kp") => unpriced /\ \A q \in Procs : At(q, "kp") => q = p
  /\ At(p, "set_crew") => job[calls[p].j].crew /\ job[calls[p].j].worker = Leader

IInv ==
  /\ TypeOK
  /\ \A j \in Jobs : JobOK(j)
  /\ \A p \in Procs : CallOK(p)

-----------------------------------------------------------------------------
LEMMA MinusType == \A a, b \in Nat : Minus(a, b) \in Nat
  BY DEF Minus

LEMMA InitOK == Init => IInv
  <1> SUFFICES ASSUME Init PROVE IInv
    OBVIOUS
  <1> USE JobsAssumption
  <1>1. ASSUME NEW j \in Jobs
        PROVE  \E quoted \in Nat \cup {Null}, cod, visit \in Nat, warranty \in BOOLEAN :
                 job[j] = Fresh(quoted, cod, visit, warranty)
    <2> DEFINE rows == {Fresh(Null, 0, VisitFee, FALSE), Fresh(0, 0, 0, TRUE),
                        Fresh(Quoted, Quoted, VisitFee, FALSE), Fresh(Quoted, 0, VisitFee, FALSE)}
    <2>1. job[j] \in rows
      BY DEF Init
    <2>2. QED
      BY <2>1
  <1>2. ASSUME NEW quoted \in Nat \cup {Null}, NEW cod \in Nat, NEW visit \in Nat,
               NEW warranty \in BOOLEAN
        PROVE  LET r == Fresh(quoted, cod, visit, warranty) IN
               /\ r \in Job
               /\ r.status = "pending" /\ r.before = Null /\ r.final = Null
               /\ r.answer = "none" /\ r.executors = {}
    BY DEF Fresh, Job, Statuses, Amounts
  <1>3. \A j \in Jobs : /\ job[j] \in Job
                        /\ job[j].status = "pending" /\ job[j].before = Null
                        /\ job[j].final = Null /\ job[j].answer = "none"
                        /\ job[j].executors = {}
    <2> TAKE j \in Jobs
    <2>1. PICK quoted \in Nat \cup {Null}, cod, visit \in Nat, warranty \in BOOLEAN :
            job[j] = Fresh(quoted, cod, visit, warranty)
      BY <1>1
    <2>2. LET r == Fresh(quoted, cod, visit, warranty) IN
          /\ r \in Job
          /\ r.status = "pending" /\ r.before = Null /\ r.final = Null
          /\ r.answer = "none" /\ r.executors = {}
      BY <1>2
    <2>3. QED
      BY <2>1, <2>2
  <1>4. IdleCall \in Call /\ IdleCall.step = "idle"
    BY DEF IdleCall, Call, Workers
  <1>5. TypeOK
    <2>1. job \in [Jobs -> Job]
      BY <1>3 DEF Init
    <2>2. base \in [Jobs -> Amounts]
      BY <1>3 DEF Init, Job
    <2>3. QED
      BY <1>4, <2>1, <2>2 DEF Init, TypeOK
  <1>6. \A j \in Jobs : JobOK(j)
    <2> SUFFICES ASSUME NEW j \in Jobs PROVE JobOK(j)
      OBVIOUS
    <2>1. job[j].cod = base[j] /\ done[j] = 0 /\ ~Offered(j)
      BY <1>4 DEF Init, Offered, At
    <2>2. QED
      BY <1>3, <2>1 DEF JobOK, RowOK, TermsOK, VisitOK, CountOK, Early, AtWork
  <1>7. \A p \in Procs : CallOK(p)
    BY <1>4 DEF Init, CallOK, At
  <1>8. QED
    BY <1>5, <1>6, <1>7 DEF IInv

(***************************************************************************)
(* A handler that writes the columns of one job.                           *)
(***************************************************************************)
LEMMA OneJob ==
  ASSUME IInv, NEW j \in Jobs, ~Locked(j), NEW columns \in Job, Update(j, columns),
         UNCHANGED <<members, unpriced, calls, base, done>>,
         RowOK(columns, base[j], done[j], Offered(j))
  PROVE  IInv'
  <1>1. TypeOK'
    BY DEF IInv, TypeOK, Update
  <1>2. \A i \in Jobs : JobOK(i)'
    <2>1. \A i \in Jobs : Offered(i)' = Offered(i)
      BY DEF Offered, At
    <2>2. QED
      BY <2>1 DEF IInv, TypeOK, Update, JobOK
  <1>3. ASSUME NEW p \in Procs PROVE CallOK(p)'
    <2>1. At(p, "set_crew") => job'[calls[p].j].crew /\ job'[calls[p].j].worker = Leader
      <3> SUFFICES ASSUME At(p, "set_crew")
                   PROVE  job'[calls[p].j].crew /\ job'[calls[p].j].worker = Leader
        OBVIOUS
      <3>1. calls[p].j \in Jobs /\ job \in [Jobs -> Job] /\ calls[p].j # j
        BY DEF IInv, TypeOK, Call, Locked
      <3>2. QED
        BY <3>1 DEF IInv, CallOK, Update
    <2>2. QED
      BY <2>1 DEF IInv, CallOK, At
  <1>4. QED
    BY <1>1, <1>2, <1>3 DEF IInv

\* What the invariant says of the row that a handler finds
LEMMA RowFacts ==
  ASSUME IInv, NEW j \in Jobs
  PROVE  /\ job[j] \in Job /\ base[j] \in Nat /\ done[j] \in 0 .. 2
         /\ RowOK(job[j], base[j], done[j], Offered(j))
  BY DEF IInv, TypeOK, JobOK, Amounts

LEMMA OfferedUnpriced == ASSUME IInv, NEW j \in Jobs, Offered(j) PROVE unpriced
  BY DEF IInv, CallOK, Offered

\* The transition rules that the proofs are about
LEMMA Rules ==
  LET R == JOB_TRANSITIONS IN
  /\ R.assign.from = {"pending", "assigned"} /\ R.assign.to = "assigned"
  /\ R.reject.from = {"assigned"} /\ R.reject.to = "pending"
  /\ R.accept.from = {"assigned"} /\ R.accept.to = "accepted"
  /\ R.start.from = {"accepted"} /\ R.start.to = "on_the_way"
  /\ R.arrive.from = {"on_the_way"} /\ R.arrive.to = "arrived"
  /\ R.begin.from = {"arrived"} /\ R.begin.to = "in_progress"
  /\ R.complete.from = {"in_progress"} /\ R.complete.to = "completed"
  /\ R.fail.from = AtWork /\ R.fail.to = "failed"
  /\ R.cancel.from = Statuses \ {"completed", "cancelled"} /\ R.cancel.to = "cancelled"
  /\ R.retry.from = {"failed"} /\ R.retry.to = "pending"
  BY DEF JOB_TRANSITIONS

-----------------------------------------------------------------------------
\* The partner's handlers
LEMMA PartnerOK ==
  ASSUME IInv, NEW j \in Jobs, ~Locked(j),
         \/ \E w \in Workers : AssignWorker(j, w)
         \/ AssignCrew(j)
         \/ Cancel(j)
         \/ Retry(j)
         \/ \E outcome \in {"confirmed", "rescheduled"} : Schedule(j, outcome)
  PROVE  IInv'
  <1> USE JobsAssumption
  <1>z. 0 \in 0 .. MaxAttempts
    OBVIOUS
  <1>0. /\ job[j] \in Job /\ base[j] \in Nat /\ done[j] \in 0 .. 2
        /\ RowOK(job[j], base[j], done[j], Offered(j))
    BY RowFacts
  <1>1. CASE \E w \in Workers : AssignWorker(j, w)
    <2> PICK w \in Workers : AssignWorker(j, w)
      BY <1>1
    <2> DEFINE columns == [job[j] EXCEPT !.worker = w, !.crew = FALSE, !.executors = {},
                                !.status = "assigned"]
    <2>1. Update(j, columns) /\ RowOnly /\ job[j].status \in {"pending", "assigned"}
      BY Rules DEF AssignWorker, Apply, Update
    <2>2. columns \in Job
      BY <1>0, <1>z DEF Job, Statuses, Workers, Amounts
    <2>3. RowOK(columns, base[j], done[j], Offered(j))
      BY <1>0, <2>1, <2>2 DEF RowOK, TermsOK, VisitOK, CountOK, Early, AtWork
    <2> HIDE DEF columns
    <2>4. QED
      BY <2>1, <2>2, <2>3, OneJob DEF RowOnly
  <1>2. CASE AssignCrew(j)
    <2> AssignCrew(j)
      BY <1>2
    <2> DEFINE columns == [job[j] EXCEPT !.worker = Leader, !.crew = TRUE, !.executors = {},
                                !.status = "assigned"]
    <2>1. Update(j, columns) /\ RowOnly /\ job[j].status \in {"pending", "assigned"}
      BY Rules DEF AssignCrew, Apply, Update
    <2>2. columns \in Job
      BY <1>0, <1>z DEF Job, Statuses, Workers, Amounts
    <2>3. RowOK(columns, base[j], done[j], Offered(j))
      BY <1>0, <2>1, <2>2 DEF RowOK, TermsOK, VisitOK, CountOK, Early, AtWork
    <2> HIDE DEF columns
    <2>4. QED
      BY <2>1, <2>2, <2>3, OneJob DEF RowOnly
  <1>3. CASE Cancel(j)
    <2> Cancel(j)
      BY <1>3
    <2> DEFINE columns == [job[j] EXCEPT !.status = "cancelled"]
    <2>1. Update(j, columns) /\ RowOnly /\ job[j].status \notin {"completed", "cancelled"}
      BY Rules DEF Cancel, Apply, Update
    <2>2. columns \in Job
      BY <1>0, <1>z DEF Job, Statuses, Workers, Amounts
    <2>3. RowOK(columns, base[j], done[j], Offered(j))
      BY <1>0, <2>1, <2>2 DEF RowOK, TermsOK, VisitOK, CountOK, Early, AtWork
    <2> HIDE DEF columns
    <2>4. QED
      BY <2>1, <2>2, <2>3, OneJob DEF RowOnly
  <1>4. CASE Retry(j)
    <2> Retry(j)
      BY <1>4
    <2>a. PICK cod \in Nat, schedule \in {"proposed", "rescheduled"} :
            /\ cod = base[j]
            /\ cod = (IF job[j].before # Null THEN job[j].before ELSE job[j].cod)
            /\ schedule = (IF job[j].schedule = "confirmed" THEN "proposed" ELSE job[j].schedule)
      BY <1>0 DEF RowOK, TermsOK, Job, Amounts
    <2> DEFINE columns == [job[j] EXCEPT !.worker = Null, !.crew = FALSE, !.executors = {}, !.attempts = 0,
                                !.final = Null, !.answer = "none", !.cod = cod, !.before = Null,
                                !.schedule = schedule, !.status = "pending"]
    <2>1. Update(j, columns) /\ RowOnly /\ job[j].status = "failed"
      BY Rules, <2>a DEF Retry, Apply, Update, Cleared
    <2>2. columns \in Job
      <3> DEFINE bare == [job[j] EXCEPT !.worker = Null, !.crew = FALSE, !.executors = {},
                                        !.attempts = 0]
                 free == [bare EXCEPT !.final = Null, !.answer = "none", !.cod = cod]
      <3>1. columns = [free EXCEPT !.before = Null, !.schedule = schedule, !.status = "pending"]
        OBVIOUS
      <3>2. bare \in Job
        BY <1>0, <1>z DEF Job, Workers
      <3> HIDE DEF bare, columns
      <3>3. free \in Job
        BY <3>2 DEF Job, Amounts
      <3> HIDE DEF free
      <3>4. QED
        BY <3>1, <3>3 DEF Job, Statuses
    <2>3. RowOK(columns, base[j], done[j], Offered(j))
      BY <1>0, <2>1, <2>2, <2>a DEF RowOK, TermsOK, VisitOK, CountOK, Early, AtWork
    <2> HIDE DEF columns
    <2>4. QED
      BY <2>1, <2>2, <2>3, OneJob DEF RowOnly
  <1>5. CASE \E outcome \in {"confirmed", "rescheduled"} : Schedule(j, outcome)
    <2> PICK outcome \in {"confirmed", "rescheduled"} : Schedule(j, outcome)
      BY <1>5
    <2> DEFINE columns == [job[j] EXCEPT !.schedule = outcome]
    <2>1. Update(j, columns) /\ RowOnly /\ job[j].status \in Early
      BY Rules DEF Schedule, Apply, Update
    <2>2. columns \in Job
      BY <1>0, <1>z DEF Job, Statuses, Workers, Amounts
    <2>3. RowOK(columns, base[j], done[j], Offered(j))
      BY <1>0, <2>1, <2>2 DEF RowOK, TermsOK, VisitOK, CountOK, Early, AtWork
    <2> HIDE DEF columns
    <2>4. QED
      BY <2>1, <2>2, <2>3, OneJob DEF RowOnly
  <1>6. QED
    BY <1>1, <1>2, <1>3, <1>4, <1>5

\* The worker's handlers
LEMMA WorkerOK ==
  ASSUME IInv, NEW j \in Jobs, ~Locked(j),
         \/ \E w \in Workers : Accept(w, j)
         \/ \E w \in Workers : Reject(w, j)
         \/ \E w \in Workers : Start(w, j)
         \/ \E w \in Workers : Arrive(w, j)
         \/ \E w \in Workers : Begin(w, j)
         \/ \E w \in Workers : Fail(w, j)
         \/ \E w \in Workers, amount \in NewPrices : Price(w, j, amount)
  PROVE  IInv'
  <1> USE JobsAssumption
  <1>z. 0 \in 0 .. MaxAttempts
    OBVIOUS
  <1>0. /\ job[j] \in Job /\ base[j] \in Nat /\ done[j] \in 0 .. 2
        /\ RowOK(job[j], base[j], done[j], Offered(j))
    BY RowFacts
  <1>1. CASE \E w \in Workers : Accept(w, j)
    <2> PICK w \in Workers : Accept(w, j)
      BY <1>1
    <2> DEFINE columns == [job[j] EXCEPT !.status = "accepted"]
    <2>1. Update(j, columns) /\ RowOnly /\ job[j].status = "assigned"
      BY Rules DEF Accept, Apply, Update
    <2>2. columns \in Job
      BY <1>0, <1>z DEF Job, Statuses, Workers, Amounts
    <2>3. RowOK(columns, base[j], done[j], Offered(j))
      BY <1>0, <2>1, <2>2 DEF RowOK, TermsOK, VisitOK, CountOK, Early, AtWork
    <2> HIDE DEF columns
    <2>4. QED
      BY <2>1, <2>2, <2>3, OneJob DEF RowOnly
  <1>2. CASE \E w \in Workers : Reject(w, j)
    <2> PICK w \in Workers : Reject(w, j)
      BY <1>2
    <2> DEFINE columns == [job[j] EXCEPT !.worker = Null, !.crew = FALSE, !.executors = {},
                                !.status = "pending"]
    <2>1. Update(j, columns) /\ RowOnly /\ job[j].status = "assigned"
      BY Rules DEF Reject, Apply, Update
    <2>2. columns \in Job
      BY <1>0, <1>z DEF Job, Statuses, Workers, Amounts
    <2>3. RowOK(columns, base[j], done[j], Offered(j))
      BY <1>0, <2>1, <2>2 DEF RowOK, TermsOK, VisitOK, CountOK, Early, AtWork
    <2> HIDE DEF columns
    <2>4. QED
      BY <2>1, <2>2, <2>3, OneJob DEF RowOnly
  <1>3. CASE \E w \in Workers : Start(w, j)
    <2> PICK w \in Workers : Start(w, j)
      BY <1>3
    <2> DEFINE columns == [job[j] EXCEPT !.attempts = 0, !.status = "on_the_way"]
    <2>1. Update(j, columns) /\ RowOnly /\ job[j].status = "accepted"
          /\ job[j].schedule = "confirmed" /\ ~Offered(j)
      BY Rules, OfferedUnpriced DEF Start, Apply, Update
    <2>2. columns \in Job
      BY <1>0, <1>z DEF Job, Statuses, Workers, Amounts
    <2>3. RowOK(columns, base[j], done[j], Offered(j))
      BY <1>0, <2>1, <2>2 DEF RowOK, TermsOK, VisitOK, CountOK, Early, AtWork
    <2> HIDE DEF columns
    <2>4. QED
      BY <2>1, <2>2, <2>3, OneJob DEF RowOnly
  <1>4. CASE \E w \in Workers : Arrive(w, j)
    <2> PICK w \in Workers : Arrive(w, j)
      BY <1>4
    <2> DEFINE columns == [job[j] EXCEPT !.status = "arrived"]
    <2>1. Update(j, columns) /\ RowOnly /\ job[j].status = "on_the_way"
      BY Rules DEF Arrive, Apply, Update
    <2>2. columns \in Job
      BY <1>0, <1>z DEF Job, Statuses, Workers, Amounts
    <2>3. RowOK(columns, base[j], done[j], Offered(j))
      BY <1>0, <2>1, <2>2 DEF RowOK, TermsOK, VisitOK, CountOK, Early, AtWork
    <2> HIDE DEF columns
    <2>4. QED
      BY <2>1, <2>2, <2>3, OneJob DEF RowOnly
  <1>5. CASE \E w \in Workers : Begin(w, j)
    <2> PICK w \in Workers : Begin(w, j)
      BY <1>5
    <2> DEFINE columns == [job[j] EXCEPT !.status = "in_progress"]
    <2>1. Update(j, columns) /\ RowOnly /\ job[j].status = "arrived"
      BY Rules DEF Begin, Apply, Update
    <2>2. columns \in Job
      BY <1>0, <1>z DEF Job, Statuses, Workers, Amounts
    <2>3. RowOK(columns, base[j], done[j], Offered(j))
      BY <1>0, <2>1, <2>2 DEF RowOK, TermsOK, VisitOK, CountOK, Early, AtWork
    <2> HIDE DEF columns
    <2>4. QED
      BY <2>1, <2>2, <2>3, OneJob DEF RowOnly
  <1>6. CASE \E w \in Workers : Fail(w, j)
    <2> PICK w \in Workers : Fail(w, j)
      BY <1>6
    <2> DEFINE columns == [job[j] EXCEPT !.status = "failed"]
    <2>1. Update(j, columns) /\ RowOnly /\ job[j].status \in AtWork
      BY Rules DEF Fail, Apply, Update
    <2>2. columns \in Job
      BY <1>0, <1>z DEF Job, Statuses, Workers, Amounts
    <2>3. RowOK(columns, base[j], done[j], Offered(j))
      BY <1>0, <2>1, <2>2 DEF RowOK, TermsOK, VisitOK, CountOK, Early, AtWork
    <2> HIDE DEF columns
    <2>4. QED
      BY <2>1, <2>2, <2>3, OneJob DEF RowOnly
  <1>7. CASE \E w \in Workers, amount \in NewPrices : Price(w, j, amount)
    <2> PICK w \in Workers, amount \in NewPrices : Price(w, j, amount)
      BY <1>7
    <2>a. PICK before \in Nat :
            /\ before = base[j]
            /\ before = (IF job[j].before = Null THEN job[j].cod ELSE job[j].before)
      BY <1>0 DEF RowOK, TermsOK
    <2> DEFINE columns == [job[j] EXCEPT !.final = amount, !.answer = "pending", !.before = before]
    <2>1. Update(j, columns) /\ RowOnly /\ job[j].status \in {"arrived", "in_progress"}
      BY Rules, <2>a DEF Price, Apply, Update
    <2>2. columns \in Job
      BY <1>0, <1>z, <2>a, ZenonT(30) DEF Job, Statuses, Workers, Amounts
    <2>3. RowOK(columns, base[j], done[j], Offered(j))
      BY <1>0, <2>1, <2>2, <2>a DEF RowOK, TermsOK, VisitOK, CountOK, Early, AtWork
    <2> HIDE DEF columns
    <2>4. QED
      BY <2>1, <2>2, <2>3, OneJob DEF RowOnly
  <1>8. QED
    BY <1>1, <1>2, <1>3, <1>4, <1>5, <1>6, <1>7

\* The customer's handlers
LEMMA CustomerOK ==
  ASSUME IInv, NEW j \in Jobs, ~Locked(j), NEW accept \in BOOLEAN,
         CustomerSchedule(j, accept) \/ AnswerPrice(j, accept)
  PROVE  IInv'
  <1> USE JobsAssumption
  <1>0. /\ job[j] \in Job /\ base[j] \in Nat /\ done[j] \in 0 .. 2
        /\ RowOK(job[j], base[j], done[j], Offered(j))
    BY RowFacts
  <1>1. CASE CustomerSchedule(j, accept)
    <2> DEFINE columns == [job[j] EXCEPT !.schedule = IF accept THEN "confirmed" ELSE "proposed"]
    <2>1. Update(j, columns) /\ RowOnly /\ job[j].schedule = "rescheduled"
      BY <1>1 DEF CustomerSchedule
    <2>2. columns \in Job
      BY <1>0 DEF Job
    <2>3. RowOK(columns, base[j], done[j], Offered(j))
      BY <1>0, <2>1, <2>2 DEF RowOK, TermsOK, VisitOK, CountOK, Early, AtWork
    <2> HIDE DEF columns
    <2>4. QED
      BY <2>1, <2>2, <2>3, OneJob DEF RowOnly
  <1>2. CASE AnswerPrice(j, accept)
    <2>1. PICK cash, answer :
            /\ cash = Minus(IF accept THEN job[j].final ELSE job[j].visit,
                            Minus(IF job[j].quoted = Null THEN 0 ELSE job[j].quoted,
                                  IF job[j].before # Null THEN job[j].before ELSE job[j].cod))
            /\ answer = (IF accept THEN "accepted" ELSE "rejected")
      OBVIOUS
    <2> DEFINE columns == [job[j] EXCEPT !.answer = answer, !.cod = cash]
    <2>2. Update(j, columns) /\ RowOnly /\ job[j].answer = "pending"
      BY <1>2, <2>1 DEF AnswerPrice
    <2>3. job[j].before # Null /\ job[j].status \notin Early /\ ~Offered(j)
      BY <1>0, <2>2 DEF RowOK, TermsOK
    <2>4. cash \in Nat
      <3>1. /\ (IF accept THEN job[j].final ELSE job[j].visit) \in Nat
            /\ (IF job[j].quoted = Null THEN 0 ELSE job[j].quoted) \in Nat
            /\ (IF job[j].before # Null THEN job[j].before ELSE job[j].cod) \in Nat
        BY <1>0, <2>2 DEF RowOK, TermsOK, Job, Amounts
      <3>2. QED
        BY <2>1, <3>1, MinusType
    <2>5. answer \in {"accepted", "rejected"}
      BY <2>1
    <2>6. columns \in Job
      BY <1>0, <2>4, <2>5 DEF Job, Amounts
    <2>7. RowOK(columns, base[j], done[j], Offered(j))
      BY <1>0, <2>2, <2>3, <2>6 DEF RowOK, TermsOK, VisitOK, CountOK
    <2> HIDE DEF columns
    <2>8. QED
      BY <2>2, <2>6, <2>7, OneJob DEF RowOnly
  <1>3. QED
    BY <1>1, <1>2

LEMMA UpdateCodOK ==
  ASSUME IInv, NEW j \in Jobs, NEW amount \in {0, Quoted}, UpdateCod(j, amount)
  PROVE  IInv'
  <1> USE JobsAssumption
  <1> DEFINE columns == [job[j] EXCEPT !.cod = amount]
  <1>1. /\ job[j] \in Job /\ base[j] \in Nat
        /\ RowOK(job[j], base[j], done[j], Offered(j))
    BY RowFacts
  <1>2. columns \in Job
    BY <1>1 DEF Job, Amounts
  <1>3. job[j].status \in Early /\ Update(j, columns) /\ base' = [base EXCEPT ![j] = amount]
        /\ UNCHANGED <<members, unpriced, calls, done>>
    BY DEF UpdateCod
  <1>4. RowOK(columns, amount, done[j], Offered(j))
    BY <1>1, <1>2, <1>3 DEF RowOK, TermsOK, VisitOK, CountOK
  <1>5. columns.crew = job[j].crew /\ columns.worker = job[j].worker
    BY <1>1 DEF Job
  <1> HIDE DEF columns
  <1>6. TypeOK'
    BY <1>2, <1>3 DEF IInv, TypeOK, Update, Amounts
  <1>7. \A i \in Jobs : JobOK(i)'
    BY <1>3, <1>4 DEF IInv, TypeOK, Update, JobOK, Offered, At
  <1>8. \A i \in Jobs : job'[i].crew = job[i].crew /\ job'[i].worker = job[i].worker
    BY <1>3, <1>5 DEF IInv, TypeOK, Update
  <1>9. \A p \in Procs : CallOK(p)'
    BY <1>3, <1>8 DEF IInv, TypeOK, Call, CallOK, At
  <1>10. QED
    BY <1>6, <1>7, <1>9 DEF IInv

-----------------------------------------------------------------------------
(***************************************************************************)
(* Steps of the requests in several parts.  What is required of the calls  *)
(* stays true when one call moves to a step that requires nothing.         *)
(***************************************************************************)
LEMMA CallsKept ==
  ASSUME IInv, NEW p \in Procs, NEW c \in Call, calls' = [calls EXCEPT ![p] = c],
         c.step \notin {"kp", "set_crew"}, unpriced' = unpriced,
         \A i \in Jobs : Locked(i) => job'[i].crew = job[i].crew /\ job'[i].worker = job[i].worker
  PROVE  /\ calls' \in [Procs -> Call] /\ \A q \in Procs : CallOK(q)'
         /\ \A i \in Jobs : Offered(i)' => Offered(i)
  <1>1. calls \in [Procs -> Call] /\ calls' \in [Procs -> Call]
    BY DEF IInv, TypeOK
  <1>2. calls'[p].step \notin {"kp", "set_crew"}
    BY <1>1
  <1>3. ASSUME NEW q \in Procs, q # p PROVE CallOK(q)'
    <2>1. calls'[q] = calls[q] /\ calls[q].j \in Jobs
      BY <1>1, <1>3 DEF Call
    <2>2. At(q, "kp")' => unpriced' /\ \A o \in Procs : At(o, "kp")' => o = q
      BY <1>1, <1>2, <2>1 DEF IInv, CallOK, At
    <2>3. ASSUME At(q, "set_crew") PROVE job'[calls[q].j].crew /\ job'[calls[q].j].worker = Leader
      <3>1. job[calls[q].j].crew /\ job[calls[q].j].worker = Leader /\ Locked(calls[q].j)
        BY <2>3, <2>1 DEF IInv, CallOK, Locked
      <3>2. QED
        BY <2>1, <3>1
    <2>4. QED
      BY <2>1, <2>2, <2>3 DEF CallOK, At
  <1>4. \A i \in Jobs : Offered(i)' => Offered(i)
    <2> SUFFICES ASSUME NEW i \in Jobs, NEW q \in Procs, At(q, "kp")', calls'[q].seen[i] # Null
                 PROVE  Offered(i)
      BY DEF Offered
    <2>1. q # p /\ calls'[q] = calls[q]
      BY <1>1, <1>2 DEF At
    <2>2. QED
      BY <2>1 DEF Offered, At
  <1>5. QED
    BY <1>1, <1>2, <1>3, <1>4 DEF CallOK, At

\* Calls that read, or compare, and leave the jobs alone
LEMMA IdleOK == IdleCall \in Call /\ IdleCall.step = "idle"
  BY JobsAssumption DEF IdleCall, Call, Workers

LEMMA ReadOnly ==
  ASSUME IInv, NEW p \in Procs, UNCHANGED <<job, members, unpriced, base, done>>,
         NEW c \in Call, calls' = [calls EXCEPT ![p] = c], c.step \notin {"kp", "set_crew"}
  PROVE  IInv'
  <1>1. /\ calls' \in [Procs -> Call] /\ \A q \in Procs : CallOK(q)'
        /\ \A j \in Jobs : Offered(j)' => Offered(j)
    BY CallsKept
  <1>2. TypeOK'
    BY <1>1 DEF IInv, TypeOK
  <1>3. \A j \in Jobs : JobOK(j)'
    BY <1>1 DEF IInv, JobOK, RowOK, TermsOK
  <1>4. QED
    BY <1>1, <1>2, <1>3 DEF IInv

LEMMA SetCrewBeginOK ==
  ASSUME IInv, NEW p \in Procs, NEW j \in Jobs, NEW chosen \in SUBSET Others,
         SetCrewBegin(p, j, chosen)
  PROVE  IInv'
  <1> DEFINE c == [IdleCall EXCEPT !.step = "set_crew", !.j = j, !.chosen = chosen]
  <1>1. c \in Call /\ c.step = "set_crew" /\ c.j = j
    BY IdleOK DEF Call
  <1>2. /\ calls' = [calls EXCEPT ![p] = c] /\ job[j].crew /\ job[j].worker = Leader
        /\ UNCHANGED <<job, members, unpriced, base, done>>
    BY DEF SetCrewBegin
  <1> HIDE DEF c
  <1>3. calls \in [Procs -> Call]
    BY DEF IInv, TypeOK
  <1>4. TypeOK'
    BY <1>1, <1>2 DEF IInv, TypeOK
  <1>5. \A i \in Jobs : JobOK(i)'
    <2>1. \A i \in Jobs : Offered(i)' => Offered(i)
      BY <1>1, <1>2, <1>3 DEF Offered, At
    <2>2. QED
      BY <1>2, <2>1 DEF IInv, JobOK, RowOK, TermsOK
  <1>6. ASSUME NEW q \in Procs PROVE CallOK(q)'
    <2>1. CASE q = p
      BY <1>1, <1>2, <1>3, <2>1 DEF CallOK, At
    <2>2. CASE q # p
      BY <1>1, <1>2, <1>3, <2>2 DEF IInv, CallOK, At
    <2>3. QED
      BY <2>1, <2>2
  <1>7. QED
    BY <1>4, <1>5, <1>6 DEF IInv

\* A call that ends, or goes on to a step of no obligation, and writes a row
LEMMA CallWritesOne ==
  ASSUME IInv, NEW p \in Procs, NEW c \in Call, calls' = [calls EXCEPT ![p] = c],
         c.step \notin {"kp", "set_crew"},
         NEW j \in Jobs, NEW columns \in Job, Update(j, columns),
         columns.crew = job[j].crew, columns.worker = job[j].worker,
         UNCHANGED <<members, unpriced, base>>,
         done' \in [Jobs -> 0 .. 2], \A i \in Jobs \ {j} : done'[i] = done[i],
         RowOK(columns, base[j], done'[j], Offered(j))
  PROVE  IInv'
  <1>1. \A i \in Jobs : job'[i].crew = job[i].crew /\ job'[i].worker = job[i].worker
    BY DEF IInv, TypeOK, Update
  <1>2. /\ calls' \in [Procs -> Call] /\ \A q \in Procs : CallOK(q)'
        /\ \A i \in Jobs : Offered(i)' => Offered(i)
    BY <1>1, CallsKept
  <1>3. TypeOK'
    BY <1>2 DEF IInv, TypeOK, Update
  <1>4. \A i \in Jobs : JobOK(i)'
    BY <1>2 DEF IInv, TypeOK, Update, JobOK, RowOK, TermsOK
  <1>5. QED
    BY <1>2, <1>3, <1>4 DEF IInv

LEMMA SetCrewWriteOK ==
  ASSUME IInv, NEW p \in Procs, SetCrewWrite(p) PROVE IInv'
  <1>1. PICK j \in Jobs, chosen \in SUBSET Others : j = calls[p].j /\ chosen = calls[p].chosen
    BY DEF IInv, TypeOK, Call
  <1>2. /\ job[j] \in Job /\ base[j] \in Nat /\ done[j] \in 0 .. 2
        /\ RowOK(job[j], base[j], done[j], Offered(j))
    BY RowFacts
  <1> DEFINE columns == [job[j] EXCEPT !.executors = chosen]
  <1>3. /\ Update(j, columns) /\ calls' = [calls EXCEPT ![p] = IdleCall]
        /\ UNCHANGED <<members, unpriced, base, done>>
    BY <1>1 DEF SetCrewWrite, End
  <1>4. job[j].crew /\ job[j].worker = Leader
    BY <1>1 DEF IInv, CallOK, SetCrewWrite
  <1>5. columns \in Job
    BY <1>2 DEF Job
  <1>6. RowOK(columns, base[j], done[j], Offered(j))
    BY <1>2, <1>4, <1>5 DEF RowOK, TermsOK, VisitOK, CountOK
  <1>7. columns.crew = job[j].crew /\ columns.worker = job[j].worker
    BY <1>2 DEF Job
  <1>8. done' \in [Jobs -> 0 .. 2]
    BY <1>3 DEF IInv, TypeOK
  <1> HIDE DEF columns
  <1>9. QED
    BY <1>3, <1>5, <1>6, <1>7, <1>8, IdleOK, CallWritesOne

LEMMA CompleteBeginOK ==
  ASSUME IInv, NEW p \in Procs, NEW w \in Workers, NEW j \in Jobs, NEW withCode \in BOOLEAN,
         CompleteBegin(p, w, j, withCode)
  PROVE  IInv'
  <1> DEFINE c == [IdleCall EXCEPT !.step = IF withCode THEN "code" ELSE "apply",
                                   !.j = j, !.w = w]
  <1>1. c \in Call /\ c.step \in {"code", "apply"}
    BY IdleOK DEF Call
  <1>2. calls' = [calls EXCEPT ![p] = c] /\ UNCHANGED <<job, members, unpriced, base, done>>
    BY DEF CompleteBegin
  <1> HIDE DEF c
  <1>3. QED
    BY <1>1, <1>2, ReadOnly

LEMMA CompareCodeOK ==
  ASSUME IInv, NEW p \in Procs, NEW right \in BOOLEAN, CompareCode(p, right) PROVE IInv'
  <1>0. calls[p] \in Call
    BY DEF IInv, TypeOK
  <1>1. CASE right
    <2> DEFINE c == [calls[p] EXCEPT !.step = "apply"]
    <2>1. c \in Call /\ c.step = "apply"
      BY <1>0 DEF Call
    <2>2. calls' = [calls EXCEPT ![p] = c] /\ UNCHANGED <<job, members, unpriced, base, done>>
      BY <1>1 DEF CompareCode, IInv, TypeOK
    <2> HIDE DEF c
    <2>3. QED
      BY <2>1, <2>2, ReadOnly
  <1>2. CASE ~right
    <2>1. PICK j \in Jobs : j = calls[p].j
      BY <1>0 DEF Call
    <2>2. /\ job[j] \in Job /\ base[j] \in Nat /\ done[j] \in 0 .. 2
          /\ RowOK(job[j], base[j], done[j], Offered(j))
      BY RowFacts
    <2> DEFINE columns == [job[j] EXCEPT !.attempts = @ + 1]
    <2>3. /\ Update(j, columns) /\ calls' = [calls EXCEPT ![p] = IdleCall]
          /\ UNCHANGED <<members, unpriced, base, done>> /\ job[j].attempts < MaxAttempts
      BY <1>2, <2>1 DEF CompareCode, End
    <2>4. job[j].attempts + 1 \in 0 .. MaxAttempts
      BY <2>2, <2>3, JobsAssumption DEF Job
    <2>5. columns \in Job
      BY <2>2, <2>4 DEF Job
    <2>6. RowOK(columns, base[j], done[j], Offered(j))
      BY <2>2, <2>5 DEF RowOK, TermsOK, VisitOK, CountOK
    <2>7. columns.crew = job[j].crew /\ columns.worker = job[j].worker
      BY <2>2 DEF Job
    <2>8. done' \in [Jobs -> 0 .. 2]
      BY <2>3 DEF IInv, TypeOK
    <2> HIDE DEF columns
    <2>9. QED
      BY <2>3, <2>5, <2>6, <2>7, <2>8, IdleOK, CallWritesOne
  <1>3. QED
    BY <1>1, <1>2

LEMMA CompleteApplyOK ==
  ASSUME IInv, NEW p \in Procs, CompleteApply(p) PROVE IInv'
  <1>1. PICK j \in Jobs : j = calls[p].j
    BY DEF IInv, TypeOK, Call
  <1>2. /\ job[j] \in Job /\ base[j] \in Nat /\ done[j] \in 0 .. 2
        /\ RowOK(job[j], base[j], done[j], Offered(j))
    BY RowFacts
  <1> DEFINE columns == [job[j] EXCEPT !.status = "completed"]
  <1>3. /\ Update(j, columns) /\ calls' = [calls EXCEPT ![p] = IdleCall]
        /\ UNCHANGED <<members, unpriced, base>> /\ job[j].status = "in_progress"
        /\ done' = [done EXCEPT ![j] = IF @ < 2 THEN @ + 1 ELSE 2]
    BY <1>1, Rules DEF CompleteApply, Apply, End
  <1>4. done[j] = 0
    BY <1>2, <1>3 DEF RowOK, CountOK
  <1>5. /\ done' \in [Jobs -> 0 .. 2] /\ done'[j] = 1
        /\ \A i \in Jobs \ {j} : done'[i] = done[i]
    BY <1>3, <1>4 DEF IInv, TypeOK
  <1>6. columns \in Job
    BY <1>2 DEF Job, Statuses
  <1>7. RowOK(columns, base[j], 1, Offered(j))
    BY <1>2, <1>3, <1>6 DEF RowOK, TermsOK, VisitOK, CountOK, Early, AtWork
  <1>8. columns.crew = job[j].crew /\ columns.worker = job[j].worker
    BY <1>2 DEF Job
  <1> HIDE DEF columns
  <1>9. QED
    BY <1>3, <1>5, <1>6, <1>7, <1>8, IdleOK, CallWritesOne

LEMMA SweepJobOK ==
  ASSUME IInv, NEW p \in Procs, NEW j \in Jobs, SweepJob(p, j) PROVE IInv'
  <1>1. /\ job[j] \in Job /\ base[j] \in Nat /\ done[j] \in 0 .. 2
        /\ RowOK(job[j], base[j], done[j], Offered(j))
    BY RowFacts
  <1>2. calls[p] \in Call /\ calls[p].step = "sweep"
    BY DEF IInv, TypeOK, SweepJob, At
  <1> DEFINE columns == [job[j] EXCEPT !.status = "cancelled"]
             c == [calls[p] EXCEPT !.seen[j] = Null]
  <1>3. c \in Call /\ c.step = "sweep"
    BY <1>2 DEF Call
  <1>4. /\ Update(j, columns) /\ calls' = [calls EXCEPT ![p] = c]
        /\ UNCHANGED <<members, unpriced, base, done>>
    BY DEF SweepJob, IInv, TypeOK
  <1>5. columns \in Job
    BY <1>1 DEF Job, Statuses
  <1>6. RowOK(columns, base[j], done[j], Offered(j))
    BY <1>1, <1>5 DEF RowOK, TermsOK, VisitOK, CountOK, Early, AtWork
  <1>7. columns.crew = job[j].crew /\ columns.worker = job[j].worker
    BY <1>1 DEF Job
  <1>8. done' \in [Jobs -> 0 .. 2]
    BY <1>4 DEF IInv, TypeOK
  <1> HIDE DEF columns, c
  <1>9. QED
    BY <1>3, <1>4, <1>5, <1>6, <1>7, <1>8, CallWritesOne

\* The call that holds a list of jobs as they were read
LEMMA ListedOK ==
  ASSUME IInv, NEW p \in Procs, NEW step \in {"kp", "sweep"}, NEW S \in SUBSET Jobs,
         Listed(p, step, S)
  PROVE  \E c \in Call : /\ c.step = step /\ calls' = [calls EXCEPT ![p] = c]
                         /\ \A j \in Jobs : c.seen[j] # Null => j \in S
  <1> DEFINE read == [j \in Jobs |-> IF j \in S THEN [quoted |-> job[j].quoted, cod |-> job[j].cod]
                                                ELSE Null]
             c == [IdleCall EXCEPT !.step = step, !.seen = read]
  <1>1. read \in [Jobs -> [quoted : Amounts \cup {Null}, cod : Amounts] \cup {Null}]
    <2> SUFFICES ASSUME NEW j \in Jobs
                 PROVE  [quoted |-> job[j].quoted, cod |-> job[j].cod]
                          \in [quoted : Amounts \cup {Null}, cod : Amounts]
      OBVIOUS
    <2>1. job[j] \in Job
      BY RowFacts
    <2>2. QED
      BY <2>1 DEF Job
  <1>2. calls' = [calls EXCEPT ![p] = c] /\ \A j \in Jobs : read[j] # Null => j \in S
    BY DEF Listed
  <1> HIDE DEF read
  <1>3. c \in Call /\ c.step = step /\ c.seen = read
    BY <1>1, IdleOK DEF Call
  <1>4. QED
    BY <1>2, <1>3

LEMMA KpBeginOK ==
  ASSUME IInv, NEW p \in Procs, KpBegin(p) PROVE IInv'
  <1>1. PICK c \in Call :
          /\ c.step = "kp" /\ calls' = [calls EXCEPT ![p] = c]
          /\ \A j \in Jobs : c.seen[j] # Null => job[j].status \in Early
    <2>1. Listed(p, "kp", {j \in Jobs : ~job[j].warranty /\ job[j].status \in Early})
      BY DEF KpBegin
    <2>2. QED
      BY <2>1, ListedOK
  <1>2. /\ UNCHANGED <<job, members, unpriced, base, done>>
        /\ unpriced /\ \A q \in Procs : ~At(q, "kp")
    BY DEF KpBegin
  <1>3. TypeOK'
    BY <1>1, <1>2 DEF IInv, TypeOK
  <1>5. calls \in [Procs -> Call]
    BY DEF IInv, TypeOK
  <1>4. \A i \in Jobs : JobOK(i)'
    <2>1. \A i \in Jobs : Offered(i)' => job[i].status \in Early
      BY <1>1, <1>2, <1>5 DEF Offered, At
    <2>2. QED
      BY <1>2, <2>1 DEF IInv, JobOK, RowOK, TermsOK
  <1>6. ASSUME NEW q \in Procs PROVE CallOK(q)'
    <2>1. CASE q = p
      BY <1>1, <1>2, <1>5, <2>1 DEF CallOK, At
    <2>2. CASE q # p
      BY <1>1, <1>2, <1>5, <2>2 DEF IInv, CallOK, At
    <2>3. QED
      BY <2>1, <2>2
  <1>7. QED
    BY <1>3, <1>4, <1>6 DEF IInv

LEMMA SweepBeginOK ==
  ASSUME IInv, NEW p \in Procs, SweepBegin(p) PROVE IInv'
  <1>1. PICK c \in Call : c.step = "sweep" /\ calls' = [calls EXCEPT ![p] = c]
    <2>1. Listed(p, "sweep", {j \in Jobs : job[j].status \in JOB_TRANSITIONS.cancel.from})
      BY DEF SweepBegin
    <2>2. QED
      BY <2>1, ListedOK
  <1>2. UNCHANGED <<job, members, unpriced, base, done>>
    BY DEF SweepBegin
  <1>3. QED
    BY <1>1, <1>2, ReadOnly

LEMMA DropOK ==
  ASSUME IInv, NEW p \in Procs, Drop(p) PROVE IInv'
  <1>1. calls' = [calls EXCEPT ![p] = IdleCall] /\ UNCHANGED <<job, members, unpriced, base, done>>
    BY DEF Drop, End
  <1>2. QED
    BY <1>1, IdleOK, ReadOnly

(***************************************************************************)
(* The acceptance of the offer writes amounts computed from an old read,   *)
(* onto jobs that no one can have priced on site: no visit has begun.       *)
(***************************************************************************)
LEMMA KpWriteOK ==
  ASSUME IInv, NEW p \in Procs, NEW sum \in [Jobs -> Offers], KpWrite(p, sum) PROVE IInv'
  <1> USE JobsAssumption
  <1>1. unpriced /\ calls[p] \in Call /\ \A q \in Procs : At(q, "kp") => q = p
    BY DEF KpWrite, IInv, CallOK, TypeOK
  <1> DEFINE seen == calls[p].seen
             written == {j \in Jobs : seen[j] # Null /\ seen[j].quoted # sum[j]}
  <1>2. /\ job' = [j \in Jobs |-> IF j \in written
                     THEN [job[j] EXCEPT !.quoted = sum[j], !.cod = KpCod(seen[j], sum[j])] ELSE job[j]]
        /\ base' = [j \in Jobs |-> IF j \in written THEN KpCod(seen[j], sum[j]) ELSE base[j]]
        /\ unpriced' = FALSE /\ calls' = [calls EXCEPT ![p] = IdleCall]
        /\ UNCHANGED <<members, done>>
    BY DEF KpWrite, End
  <1>3. ASSUME NEW j \in Jobs, j \in written PROVE KpCod(seen[j], sum[j]) \in Nat
    <2>1. seen[j] \in [quoted : Nat \cup {Null}, cod : Nat]
      BY <1>1, <1>3 DEF Call, Amounts
    <2>2. (IF seen[j].quoted = Null THEN 0 ELSE seen[j].quoted) \in Nat /\ seen[j].cod \in Nat
      BY <2>1
    <2>3. sum[j] \in Nat
      BY JobsAssumption
    <2>4. QED
      BY <2>2, <2>3, MinusType DEF KpCod
  <1>d. \A j \in Jobs : j \in written => Offered(j)
    BY DEF Offered, KpWrite
  <1> HIDE DEF written
  <1>4. ASSUME NEW j \in Jobs
        PROVE  /\ job'[j] \in Job /\ base'[j] \in Nat
               /\ job'[j].crew = job[j].crew /\ job'[j].worker = job[j].worker
               /\ RowOK(job'[j], base'[j], done[j], FALSE)
    <2>1. /\ job[j] \in Job /\ base[j] \in Nat /\ RowOK(job[j], base[j], done[j], Offered(j))
          /\ j \in written => Offered(j)
      BY <1>1, <1>d, RowFacts DEF IInv, TypeOK
    <2>2. CASE j \in written
      <3>1. PICK cash \in Nat : cash = KpCod(seen[j], sum[j])
        BY <1>3, <2>2
      <3> DEFINE columns == [job[j] EXCEPT !.quoted = sum[j], !.cod = cash]
      <3>2. job'[j] = columns /\ base'[j] = cash
        BY <1>2, <2>2, <3>1
      <3>s. sum[j] \in Nat
        OBVIOUS
      <3>3. columns \in Job /\ columns.crew = job[j].crew /\ columns.worker = job[j].worker
        BY <2>1, <3>s DEF Job, Amounts
      <3>4. RowOK(columns, cash, done[j], FALSE)
        BY <2>1, <2>2, <3>3 DEF RowOK, TermsOK, VisitOK, CountOK
      <3> HIDE DEF columns
      <3>5. QED
        BY <3>2, <3>3, <3>4
    <2>3. CASE j \notin written
      <3>1. job'[j] = job[j] /\ base'[j] = base[j]
        BY <1>2, <2>3
      <3>2. QED
        BY <2>1, <3>1 DEF RowOK, TermsOK
    <2>4. QED
      BY <2>2, <2>3
  <1>5. calls \in [Procs -> Call]
    BY DEF IInv, TypeOK
  <1>6. TypeOK'
    <2>1. job' \in [Jobs -> Job] /\ base' \in [Jobs -> Amounts]
      BY <1>2, <1>4 DEF Amounts
    <2>2. QED
      BY <1>2, <2>1, IdleOK DEF IInv, TypeOK
  <1>7. \A j \in Jobs : JobOK(j)'
    <2>1. \A j \in Jobs : ~Offered(j)'
      BY <1>1, <1>2, <1>5, IdleOK DEF Offered, At
    <2>2. QED
      BY <1>2, <1>4, <2>1 DEF JobOK, RowOK, TermsOK
  <1>8. ASSUME NEW q \in Procs PROVE CallOK(q)'
    <2>1. CASE q = p
      BY <1>2, <1>5, <2>1, IdleOK DEF CallOK, At
    <2>2. CASE q # p
      <3>1. calls'[q] = calls[q] /\ ~At(q, "kp") /\ calls[q].j \in Jobs
        BY <1>1, <1>2, <1>5, <2>2 DEF Call
      <3>2. At(q, "set_crew") => job[calls[q].j].crew /\ job[calls[q].j].worker = Leader
        BY DEF IInv, CallOK
      <3>3. QED
        BY <1>4, <3>1, <3>2 DEF CallOK, At
    <2>3. QED
      BY <2>1, <2>2
  <1>9. QED
    BY <1>6, <1>7, <1>8 DEF IInv

LEMMA CrewOK ==
  ASSUME IInv, NEW w \in Others, RemoveMember(w) \/ JoinCrew(w) PROVE IInv'
  <1>1. CASE JoinCrew(w)
    BY <1>1 DEF JoinCrew, IInv, TypeOK, JobOK, CallOK, At, Offered
  <1>2. CASE RemoveMember(w)
    <2>1. ASSUME NEW j \in Jobs
          PROVE  /\ job'[j] \in Job
                 /\ job'[j].crew = job[j].crew /\ job'[j].worker = job[j].worker
                 /\ RowOK(job'[j], base[j], done[j], Offered(j))
      <3>1. job[j] \in Job /\ RowOK(job[j], base[j], done[j], Offered(j))
        BY RowFacts
      <3> DEFINE columns == [job[j] EXCEPT !.executors = @ \ {w}]
      <3>2. job'[j] = columns \/ job'[j] = job[j]
        BY <1>2 DEF RemoveMember
      <3>3. columns \in Job /\ columns.crew = job[j].crew /\ columns.worker = job[j].worker
        BY <3>1 DEF Job
      <3>4. columns.executors # {} => job[j].executors # {}
        BY <3>1 DEF Job
      <3>5. RowOK(columns, base[j], done[j], Offered(j))
        BY <3>1, <3>3, <3>4 DEF RowOK, TermsOK, VisitOK, CountOK
      <3> HIDE DEF columns
      <3>6. QED
        BY <3>1, <3>2, <3>3, <3>5
    <2>2. UNCHANGED <<unpriced, calls, base, done>> /\ members' = members \ {w}
      BY <1>2 DEF RemoveMember
    <2>3. job' = [j \in Jobs |-> job'[j]]
      BY <1>2 DEF RemoveMember
    <2>4. TypeOK'
      BY <2>1, <2>2, <2>3 DEF IInv, TypeOK
    <2>5. \A j \in Jobs : JobOK(j)'
      BY <2>1, <2>2 DEF JobOK, Offered, At
    <2>6. ASSUME NEW p \in Procs PROVE CallOK(p)'
      <3>1. calls[p].j \in Jobs
        BY DEF IInv, TypeOK, Call
      <3>2. QED
        BY <2>1, <2>2, <3>1 DEF IInv, CallOK, At
    <2>7. QED
      BY <2>4, <2>5, <2>6 DEF IInv
  <1>3. QED
    BY <1>1, <1>2

\* The order becomes a quotation, which no request is accepting
LEMMA QuoteOK == ASSUME IInv, BecomeQuote PROVE IInv'
  BY DEF BecomeQuote, IInv, TypeOK, JobOK, CallOK, At, Offered

-----------------------------------------------------------------------------
LEMMA StepOK == IInv /\ [Next]_vars => IInv'
  <1> SUFFICES ASSUME IInv, [Next]_vars PROVE IInv'
    OBVIOUS
  <1>1. ASSUME NEW j \in Jobs, ~Locked(j), JobStep(j) PROVE IInv'
    <2>1. CASE \E amount \in {0, Quoted} : UpdateCod(j, amount)
      BY <2>1, UpdateCodOK
    <2>2. CASE \E w \in Workers : AssignWorker(j, w)
      BY <1>1, <2>2, PartnerOK
    <2>3. CASE AssignCrew(j) \/ Cancel(j) \/ Retry(j)
      BY <1>1, <2>3, PartnerOK
    <2>4. CASE \E outcome \in {"confirmed", "rescheduled"} : Schedule(j, outcome)
      BY <1>1, <2>4, PartnerOK
    <2>5. CASE CustomerCancel(j)
      BY <1>1, <2>5, PartnerOK DEF CustomerCancel, Cancel
    <2>6. CASE \E w \in Workers : \/ Accept(w, j) \/ Reject(w, j) \/ Start(w, j)
                                  \/ Arrive(w, j) \/ Begin(w, j) \/ Fail(w, j)
      BY <1>1, <2>6, WorkerOK
    <2>7. CASE \E w \in Workers, amount \in NewPrices : Price(w, j, amount)
      BY <1>1, <2>7, WorkerOK
    <2>8. CASE \E accept \in BOOLEAN : CustomerSchedule(j, accept) \/ AnswerPrice(j, accept)
      BY <1>1, <2>8, CustomerOK
    <2>9. QED
      BY <1>1, <2>1, <2>2, <2>3, <2>4, <2>5, <2>6, <2>7, <2>8 DEF JobStep
  <1>2. ASSUME NEW p \in Procs, CallStep(p) PROVE IInv'
    <2>1. CASE \E j \in Jobs : \E chosen \in SUBSET Others : SetCrewBegin(p, j, chosen)
      BY <2>1, SetCrewBeginOK
    <2>2. CASE \E j \in Jobs : \E w \in Workers, withCode \in BOOLEAN :
                 CompleteBegin(p, w, j, withCode)
      BY <2>2, CompleteBeginOK
    <2>3. CASE \E right \in BOOLEAN : CompareCode(p, right)
      BY <2>3, CompareCodeOK
    <2>4. CASE CompleteApply(p)
      BY <2>4, CompleteApplyOK
    <2>5. CASE SetCrewWrite(p)
      BY <2>5, SetCrewWriteOK
    <2>6. CASE KpBegin(p) \/ \E sum \in [Jobs -> Offers] : KpWrite(p, sum)
      BY <2>6, KpBeginOK, KpWriteOK
    <2>7. CASE SweepBegin(p) \/ Drop(p)
      BY <2>7, SweepBeginOK, DropOK
    <2>8. CASE \E j \in Jobs : SweepJob(p, j)
      BY <2>8, SweepJobOK
    <2>9. QED
      BY <1>2, <2>1, <2>2, <2>3, <2>4, <2>5, <2>6, <2>7, <2>8 DEF CallStep
  <1>3. CASE UNCHANGED vars
    BY <1>3 DEF vars, IInv, TypeOK, JobOK, CallOK, At, Offered
  <1>4. QED
    BY <1>1, <1>2, <1>3, CrewOK, QuoteOK DEF Next

(***************************************************************************)
(* The invariant above holds in every reachable state.                     *)
(***************************************************************************)
THEOREM Inductive == Spec => []IInv
  BY InitOK, StepOK, PTL DEF Spec

(***************************************************************************)
(* The columns of a job, and what a request has read of it, stay within    *)
(* their types under every handler: in particular cash is never negative.  *)
(***************************************************************************)
THEOREM TypeCorrect == Spec => []TypeOK
  <1>1. IInv => TypeOK
    BY DEF IInv
  <1>2. QED
    BY <1>1, Inductive, PTL

(***************************************************************************)
(* Prices asked for on site, answers and retries never lose the first      *)
(* terms.                                                                  *)
(***************************************************************************)
THEOREM TermsCorrect == Spec => []FirstTermsKept
  <1>1. IInv => FirstTermsKept
    BY DEF IInv, JobOK, RowOK, TermsOK, FirstTermsKept
  <1>2. QED
    BY <1>1, Inductive, PTL

(***************************************************************************)
(* A job that waits for its visit has no price of a failed one.            *)
(***************************************************************************)
THEOREM FreshCorrect == Spec => []FreshVisit
  <1>1. IInv => FreshVisit
    BY DEF IInv, JobOK, RowOK, TermsOK, FreshVisit
  <1>2. QED
    BY <1>1, Inductive, PTL

(***************************************************************************)
(* Nobody is on the way at a time that was not agreed to.                  *)
(***************************************************************************)
THEOREM VisitCorrect == Spec => []VisitAtAgreedTime
  <1>1. IInv => VisitAtAgreedTime
    BY DEF IInv, JobOK, RowOK, VisitOK, VisitAtAgreedTime
  <1>2. QED
    BY <1>1, Inductive, PTL

(***************************************************************************)
(* Executors always belong to a job that its crew still has.               *)
(***************************************************************************)
THEOREM CrewCorrect == Spec => []ExecutorsOfACrew
  <1>1. IInv => ExecutorsOfACrew
    BY DEF IInv, JobOK, RowOK, VisitOK, ExecutorsOfACrew
  <1>2. QED
    BY <1>1, Inductive, PTL

(***************************************************************************)
(* However many requests complete a job together, it is counted once.      *)
(***************************************************************************)
THEOREM CountCorrect == Spec => []CountedOnce
  <1>1. IInv => CountedOnce
    BY DEF IInv, JobOK, RowOK, CountOK, CountedOnce
  <1>2. QED
    BY <1>1, Inductive, PTL

-----------------------------------------------------------------------------
\* The step by which job j may come to cost something else
Consent(j) ==
  job'[j].cod # job[j].cod =>
    \/ job[j].status \in Early \cup {"cancelled"}
    \/ job[j].answer = "pending" /\ job'[j].answer \in {"accepted", "rejected"}
    \/ job[j].status = "failed" /\ job'[j].cod = base[j]

\* A write of one row decides about that job alone
LEMMA OthersConsent ==
  ASSUME IInv, NEW j \in Jobs, NEW columns \in Job, Update(j, columns),
         columns.cod # job[j].cod =>
           \/ job[j].status \in Early \cup {"cancelled"}
           \/ job[j].answer = "pending" /\ columns.answer \in {"accepted", "rejected"}
           \/ job[j].status = "failed" /\ columns.cod = base[j]
  PROVE  \A i \in Jobs : Consent(i)
  <1>1. \A i \in Jobs : job'[i] = IF i = j THEN columns ELSE job[i]
    BY DEF IInv, TypeOK, Update
  <1>2. QED
    BY <1>1 DEF Consent

LEMMA SameCash ==
  ASSUME IInv, NEW j \in Jobs, NEW columns, Update(j, columns), columns.cod = job[j].cod
  PROVE  \A i \in Jobs : Consent(i)
  <1>1. \A i \in Jobs : job'[i] = IF i = j THEN columns ELSE job[i]
    BY DEF IInv, TypeOK, Update
  <1>2. QED
    BY <1>1 DEF Consent

LEMMA JobStepConsent ==
  ASSUME IInv, NEW j \in Jobs, JobStep(j) PROVE \A i \in Jobs : Consent(i)
  <1>0. /\ job[j] \in Job /\ RowOK(job[j], base[j], done[j], Offered(j))
    BY RowFacts
  <1>a. \A i \in Jobs \ {j} : (\E columns : Update(j, columns)) => job'[i] = job[i]
    BY DEF IInv, TypeOK, Update
  <1>b. \A columns : Update(j, columns) => job'[j] = columns
    BY DEF IInv, TypeOK, Update
  <1>1. CASE \E amount \in {0, Quoted} : UpdateCod(j, amount)
    BY <1>1, <1>a DEF UpdateCod, Consent
  <1>2. CASE \E w \in Workers : AssignWorker(j, w)
    <2>1. PICK w \in Workers : AssignWorker(j, w)
      BY <1>2
    <2>2. QED
      BY <1>0, <2>1, SameCash DEF AssignWorker, Apply, Job
  <1>3. CASE AssignCrew(j)
    BY <1>0, <1>3, SameCash DEF AssignCrew, Apply, Job
  <1>4. CASE Cancel(j) \/ CustomerCancel(j)
    BY <1>0, <1>4, SameCash DEF Cancel, CustomerCancel, Apply, Job
  <1>5. CASE Retry(j)
    <2>1. job[j].status = "failed" /\ Update(j, [Cleared(j) EXCEPT !.status = "pending"])
      BY <1>5, Rules DEF Retry, Apply
    <2>2. job'[j].cod = (IF job[j].before # Null THEN job[j].before ELSE job[j].cod)
      BY <1>0, <1>b, <2>1, ZenonT(30) DEF Cleared, Job
    <2>3. job'[j].cod = base[j]
      BY <1>0, <2>2 DEF RowOK, TermsOK
    <2>4. QED
      BY <1>a, <2>1, <2>3 DEF Consent
  <1>6. CASE \E outcome \in {"confirmed", "rescheduled"} : Schedule(j, outcome)
    <2>1. PICK outcome \in {"confirmed", "rescheduled"} : Schedule(j, outcome)
      BY <1>6
    <2>2. QED
      BY <1>0, <2>1, SameCash DEF Schedule, Job
  <1>7. CASE \E w \in Workers : Accept(w, j) \/ Arrive(w, j) \/ Begin(w, j) \/ Fail(w, j)
    BY <1>0, <1>7, SameCash DEF Accept, Arrive, Begin, Fail, Apply, Job
  <1>8. CASE \E w \in Workers : Reject(w, j) \/ Start(w, j)
    BY <1>0, <1>8, SameCash DEF Reject, Start, Apply, Job
  <1>9. CASE \E w \in Workers, amount \in NewPrices : Price(w, j, amount)
    <2>1. PICK w \in Workers, amount \in NewPrices : Price(w, j, amount)
      BY <1>9
    <2>2. QED
      BY <1>0, <2>1, SameCash DEF Price, Job
  <1>10. CASE \E accept \in BOOLEAN : CustomerSchedule(j, accept)
    <2>1. PICK accept \in BOOLEAN : CustomerSchedule(j, accept)
      BY <1>10
    <2>2. QED
      BY <1>0, <2>1, SameCash DEF CustomerSchedule, Job
  <1>11. CASE \E accept \in BOOLEAN : AnswerPrice(j, accept)
    <2>1. PICK accept \in BOOLEAN : AnswerPrice(j, accept)
      BY <1>11
    <2>2. PICK cash, answer :
            /\ answer \in {"accepted", "rejected"}
            /\ Update(j, [job[j] EXCEPT !.answer = answer, !.cod = cash])
      BY <2>1 DEF AnswerPrice
    <2>3. job'[j].answer = answer /\ job[j].answer = "pending"
      BY <1>0, <1>b, <2>1, <2>2 DEF Job, AnswerPrice
    <2>4. QED
      BY <1>a, <2>2, <2>3 DEF Consent
  <1>12. QED
    BY <1>1, <1>2, <1>3, <1>4, <1>5, <1>6, <1>7, <1>8, <1>9, <1>10, <1>11 DEF JobStep

LEMMA CallStepConsent ==
  ASSUME IInv, NEW p \in Procs, CallStep(p) PROVE \A i \in Jobs : Consent(i)
  <1>0. calls[p].j \in Jobs /\ \A j \in Jobs : job[j] \in Job
    BY DEF IInv, TypeOK, Call
  <1>1. CASE UNCHANGED job
    BY <1>1 DEF Consent
  <1>2. CASE SetCrewWrite(p)
    BY <1>0, <1>2, SameCash DEF SetCrewWrite, Job
  <1>3. CASE \E right \in BOOLEAN : CompareCode(p, right)
    BY <1>0, <1>1, <1>3, SameCash DEF CompareCode, Job
  <1>4. CASE CompleteApply(p)
    BY <1>0, <1>4, SameCash DEF CompleteApply, Apply, Job
  <1>5. CASE \E sum \in [Jobs -> Offers] : KpWrite(p, sum)
    <2>1. PICK sum \in [Jobs -> Offers] : KpWrite(p, sum)
      BY <1>5
    <2>2. ASSUME NEW i \in Jobs, ~Offered(i) PROVE job'[i] = job[i]
      BY <2>1, <2>2 DEF KpWrite, Offered
    <2>3. ASSUME NEW i \in Jobs, Offered(i) PROVE job[i].status \in Early \cup {"cancelled"}
      BY <2>3, RowFacts DEF RowOK, TermsOK
    <2>4. QED
      BY <2>2, <2>3 DEF Consent
  <1>6. CASE \E j \in Jobs : SweepJob(p, j)
    BY <1>0, <1>6, SameCash DEF SweepJob, Job
  <1>7. QED
    BY <1>1, <1>2, <1>3, <1>4, <1>5, <1>6
    DEF CallStep, SetCrewBegin, CompleteBegin, KpBegin, SweepBegin, Drop

(***************************************************************************)
(* What a customer pays changes by the customer's consent, by the partner  *)
(* before the visit, or back to the first terms when a visit failed.       *)
(***************************************************************************)
THEOREM ConsentCorrect == Spec => PaysOnlyByConsent
  <1>1. ASSUME IInv, [Next]_vars PROVE \A j \in Jobs : Consent(j)
    <2>1. ASSUME NEW w \in Others, RemoveMember(w) \/ JoinCrew(w)
          PROVE  \A j \in Jobs : Consent(j)
      <3> SUFFICES ASSUME NEW j \in Jobs PROVE job'[j].cod = job[j].cod
        BY DEF Consent
      <3>1. job[j] \in Job
        BY <1>1, RowFacts
      <3>2. QED
        BY <2>1, <3>1 DEF RemoveMember, JoinCrew, Job
    <2>2. CASE UNCHANGED vars
      BY <2>2 DEF vars, Consent
    <2>3. CASE BecomeQuote
      BY <2>3 DEF BecomeQuote, Consent
    <2>4. QED
      BY <1>1, <2>1, <2>2, <2>3, JobStepConsent, CallStepConsent DEF Next
  <1>2. IInv /\ [Next]_vars => [\A j \in Jobs : Consent(j)]_vars
    BY <1>1
  <1>3. QED
    BY <1>2, Inductive, PTL DEF Spec, PaysOnlyByConsent, Consent

=============================================================================
