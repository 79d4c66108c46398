--------------------------- MODULE OpenBoard_proofs ---------------------------
(***************************************************************************)
(* Theorems about the board and its timer, for any rows, couriers, runs,   *)
(* distances and limits.                                                   *)
(*                                                                         *)
(* A run writes from instances that may be old, so what keeps the board    *)
(* whole is what every instance and every row satisfies at all times:      *)
(* RowOK says which columns go together, RunOK that a radius in an         *)
(* instance of tickOpen is one that an open row had.  AgeOK adds what the   *)
(* reach needs: an instance is at least as old as the opening that stands. *)
(***************************************************************************)
EXTENDS OpenBoard, FiniteSetTheorems, TLAPS

RowOK(d) ==
  /\ row[d].status = "open" =>
       /\ row[d].mode = "platform"
       /\ row[d].opened # Null
       /\ row[d].radius \in Base .. MaxRadius
  /\ row[d].fee = "proposed" =>
       /\ row[d].status \in {"pending", "cancelled"}
       /\ row[d].status = "pending" => row[d].mode = "platform"
       /\ ~row[d].nudged => reminded[d] = 0
  /\ reminded[d] <= 1

RunOK(r) ==
  run[r].step \in {"open", "warn"} => \A d \in Deliveries :
    run[r].seen[d] # Null => run[r].seen[d].radius = 0 \/ run[r].seen[d].radius >= Base

IInv ==
  /\ TypeOK
  /\ \A d \in Deliveries : RowOK(d)
  /\ \A r \in Runs : RunOK(r)

-----------------------------------------------------------------------------
LEMMA WantType == \A minutes \in Ages : Want(minutes) \in Radii
  BY BoardAssumption DEF Want, Radii, Ages

LEMMA OlderType == \A age \in Ages \cup {Null} : Older(age) \in Ages \cup {Null}
                                              /\ (age # Null => Older(age) # Null)
  BY BoardAssumption DEF Older, Ages

(***************************************************************************)
(* A step of one row: if the new columns are right and the runs are as     *)
(* they were, so is the state.                                             *)
(***************************************************************************)
LEMMA RowStep ==
  ASSUME IInv, NEW d \in Deliveries, NEW columns \in Row,
         row' = [row EXCEPT ![d] = columns],
         reminded' \in [Deliveries -> 0 .. 2],
         \A e \in Deliveries \ {d} : reminded'[e] = reminded[e],
         UNCHANGED run,
         row'[d] = columns => RowOK(d)'
  PROVE  IInv'
  BY ZenonT(30) DEF IInv, TypeOK, RowOK, RunOK

LEMMA InitOK == Init => IInv
  <1> SUFFICES ASSUME Init PROVE IInv
    OBVIOUS
  <1>1. NewRow \in Row
    BY BoardAssumption DEF NewRow, Row, Ages, Radii
  <1>2. IdleRun \in Run
    BY BoardAssumption DEF IdleRun, Run, Nothing, Instance
  <1>3. TypeOK
    BY <1>1, <1>2 DEF Init, TypeOK
  <1>4. ASSUME NEW d \in Deliveries PROVE RowOK(d)
    BY row[d].status = "pending" /\ row[d].fee = "none" /\ reminded[d] = 0
       DEF Init, RowOK, NewRow
  <1>5. \A r \in Runs : RunOK(r)
    BY DEF Init, RunOK, At, IdleRun
  <1>6. QED
    BY <1>3, <1>4, <1>5 DEF IInv

(***************************************************************************)
(* Every request leaves its row right.                                     *)
(***************************************************************************)
LEMMA RequestOK == IInv /\ Request => IInv'
  <1> SUFFICES ASSUME IInv, NEW d \in Deliveries,
                      \/ PublishForStore(d) \/ ProposeToCustomer(d)
                      \/ DecideFee(d, TRUE) \/ DecideFee(d, FALSE) \/ Unpublish(d)
                      \/ Assign(d) \/ Release(d) \/ Reject(d) \/ Retry(d) \/ Cancel(d)
                      \/ \E c \in Couriers : Claim(d, c)
               PROVE  IInv'
    BY DEF Request
  <1> USE BoardAssumption
  <1>0. row[d] \in Row /\ RowOK(d) /\ row \in [Deliveries -> Row]
        /\ reminded \in [Deliveries -> 0 .. 2]
    BY DEF IInv, TypeOK
  <1>z. 0 \in Ages /\ Base \in Radii /\ 0 \in Radii
    BY DEF Ages, Radii
  <1>1. CASE PublishForStore(d)
    <2> DEFINE columns == OnBoard([row[d] EXCEPT !.mode = "platform", !.fee = "none",
                                      !.asked = Null, !.nudged = FALSE])
    <2>1. columns \in Row
      BY <1>0, <1>z DEF OnBoard, Row
    <2>2. /\ columns.status = "open" /\ columns.mode = "platform" /\ columns.fee = "none"
          /\ columns.opened = 0 /\ columns.radius = Base
      BY <1>0 DEF OnBoard, Row
    <2>3. reminded'[d] = 0 /\ reminded' \in [Deliveries -> 0 .. 2]
          /\ \A e \in Deliveries \ {d} : reminded'[e] = reminded[e]
      BY <1>0, <1>1 DEF PublishForStore
    <2>4. row'[d] = columns => RowOK(d)'
      BY <2>2, <2>3 DEF RowOK
    <2>5. row' = [row EXCEPT ![d] = columns] /\ UNCHANGED run
      BY <1>1 DEF PublishForStore, Update
    <2>6. QED
      BY <2>1, <2>3, <2>4, <2>5, RowStep
  <1>2. CASE ProposeToCustomer(d)
    <2> DEFINE columns == [row[d] EXCEPT !.mode = "platform", !.fee = "proposed",
                              !.asked = 0, !.nudged = FALSE]
    <2>1. columns \in Row
      BY <1>0, <1>z DEF Row
    <2>2. row'[d] = columns => RowOK(d)'
      BY <1>0, <1>2, <2>1 DEF ProposeToCustomer, RowOK, Row
    <2>3. /\ row' = [row EXCEPT ![d] = columns] /\ UNCHANGED run
          /\ reminded' \in [Deliveries -> 0 .. 2]
          /\ \A e \in Deliveries \ {d} : reminded'[e] = reminded[e]
      BY <1>0, <1>2 DEF ProposeToCustomer, Update
    <2>4. QED
      BY <2>1, <2>2, <2>3, RowStep
  <1>3. CASE DecideFee(d, TRUE)
    <2> DEFINE columns == OnBoard([row[d] EXCEPT !.fee = "accepted"])
    <2>1. columns \in Row
      BY <1>0, <1>z DEF OnBoard, Row
    <2>2. row'[d] = columns => RowOK(d)'
      BY <1>0, <1>3, <2>1 DEF DecideFee, RowOK, OnBoard, Row
    <2>3. QED
      BY <1>0, <1>3, <2>1, <2>2, RowStep DEF DecideFee, Update
  <1>4. CASE DecideFee(d, FALSE)
    <2> DEFINE columns == [row[d] EXCEPT !.fee = "rejected", !.mode = "self"]
    <2>1. columns \in Row
      BY <1>0 DEF Row
    <2>2. row'[d] = columns => RowOK(d)'
      BY <1>0, <1>4, <2>1 DEF DecideFee, RowOK, Row
    <2>3. QED
      BY <1>0, <1>4, <2>1, <2>2, RowStep DEF DecideFee, Update
  <1>5. CASE Unpublish(d)
    <2> DEFINE columns == [NewRow EXCEPT
          !.opened = IF row[d].status = "open" THEN Null ELSE row[d].opened,
          !.radius = IF row[d].status = "open" THEN 0 ELSE row[d].radius,
          !.warned = IF row[d].status = "open" THEN FALSE ELSE row[d].warned]
    <2>1. columns \in Row
      BY <1>0, <1>z, ZenonT(30) DEF Row, NewRow
    <2>2. row'[d] = columns => RowOK(d)'
      BY <1>0, <1>5, <2>1 DEF Unpublish, RowOK, Row, NewRow
    <2>3. QED
      BY <1>0, <1>5, <2>1, <2>2, RowStep DEF Unpublish, Update
  <1>6. CASE Assign(d)
    <2> DEFINE columns == IF row[d].status = "open"
          THEN [row[d] EXCEPT !.status = "taken", !.opened = Null, !.warned = FALSE]
          ELSE [row[d] EXCEPT !.status = "taken"]
    <2>1. columns \in Row
      BY <1>0 DEF Row
    <2>2. row'[d] = columns => RowOK(d)'
      BY <1>0, <1>6, <2>1 DEF Assign, RowOK, Row
    <2>3. QED
      BY <1>0, <1>6, <2>1, <2>2, RowStep DEF Assign, Update
  <1>7. CASE Release(d)
    <2>1. OnBoard(row[d]) \in Row
      BY <1>0, <1>z DEF OnBoard, Row
    <2>2. row'[d] = OnBoard(row[d]) => RowOK(d)'
      BY <1>0, <1>7, <2>1 DEF Release, RowOK, OnBoard, Row
    <2>3. QED
      BY <1>0, <1>7, <2>1, <2>2, RowStep DEF Release, Update
  <1>8. CASE Reject(d) \/ Retry(d)
    <2> DEFINE columns == [row[d] EXCEPT !.status = "pending"]
    <2>1. columns \in Row
      BY <1>0 DEF Row
    <2>2. row'[d] = columns => RowOK(d)'
      BY <1>0, <1>8, <2>1 DEF Reject, Retry, RowOK, Row
    <2>3. QED
      BY <1>0, <1>8, <2>1, <2>2, RowStep DEF Reject, Retry, Update
  <1>9. CASE Cancel(d)
    <2> DEFINE columns == [NewRow EXCEPT !.status = "cancelled", !.fee = row[d].fee,
                                         !.nudged = row[d].nudged]
    <2>1. columns \in Row
      BY <1>0, <1>z DEF Row, NewRow
    <2>2. row'[d] = columns => RowOK(d)'
      BY <1>0, <1>9, <2>1 DEF Cancel, RowOK, Row, NewRow
    <2>3. QED
      BY <1>0, <1>9, <2>1, <2>2, RowStep DEF Cancel, Update
  <1>10. CASE \E c \in Couriers : Claim(d, c)
    <2> DEFINE columns == [row[d] EXCEPT !.status = "taken", !.opened = Null,
                                         !.warned = FALSE]
    <2>1. columns \in Row
      BY <1>0 DEF Row
    <2>2. row'[d] = columns => RowOK(d)'
      BY <1>0, <1>10, <2>1 DEF Claim, RowOK, Row
    <2>3. QED
      BY <1>0, <1>10, <2>1, <2>2, RowStep DEF Claim, Update
  <1>11. QED
    BY <1>1, <1>2, <1>3, <1>4, <1>5, <1>6, <1>7, <1>8, <1>9, <1>10

(***************************************************************************)
(* A step of the timer: run r goes on from what it has read, and may have  *)
(* written columns that keep a row right.                                  *)
(***************************************************************************)
LEMMA TimerRow ==
  ASSUME IInv, NEW d \in Deliveries, NEW columns \in Row,
         UNCHANGED row \/ row' = [row EXCEPT ![d] = columns],
         reminded' \in [Deliveries -> 0 .. 2],
         \A e \in Deliveries \ {d} : reminded'[e] = reminded[e],
         RowOK(d)',
         run' \in [Runs -> Run], \A r \in Runs : RunOK(r)'
  PROVE  IInv'
  BY DEF IInv, TypeOK, RowOK

LEMMA OnlyRuns ==
  ASSUME IInv, UNCHANGED <<row, reminded>>,
         run' \in [Runs -> Run], \A r \in Runs : RunOK(r)'
  PROVE  IInv'
  BY DEF IInv, TypeOK, RowOK

\* What a run has read of the board or of the proposals is an instance of each
LEMMA StartRunOK ==
  ASSUME IInv, NEW r \in Runs, StartRun(r)
  PROVE  IInv'
  <1> DEFINE read(d) == [age |-> row[d].opened, radius |-> row[d].radius,
                         sent |-> row[d].warned]
             onList(d) == row[d].status = "open" /\ row[d].mode = "platform"
                            /\ row[d].opened # Null
             list == [d \in Deliveries |-> IF onList(d) THEN read(d) ELSE Null]
             entry == [run[r] EXCEPT !.step = "open", !.seen = list]
  <1>1. row \in [Deliveries -> Row] /\ run \in [Runs -> Run]
    BY DEF IInv, TypeOK
  <1>2. ASSUME NEW d \in Deliveries, onList(d)
        PROVE  read(d) \in Instance /\ read(d).radius >= Base
    BY <1>1, <1>2 DEF IInv, RowOK, Row, Instance
  <1>3. list \in [Deliveries -> Instance \cup {Null}]
    BY <1>2
  <1>4. entry \in Run
    BY <1>1, <1>3 DEF Run
  <1>5. run' = [run EXCEPT ![r] = entry] /\ UNCHANGED <<row, reminded>>
    BY <1>1 DEF StartRun
  <1>6. \A q \in Runs : RunOK(q)'
    BY <1>1, <1>2, <1>5 DEF IInv, RunOK, At, Run
  <1>7. QED
    BY <1>1, <1>4, <1>5, <1>6, OnlyRuns

LEMMA ListProposalsOK ==
  ASSUME IInv, NEW r \in Runs, ListProposals(r)
  PROVE  IInv'
  <1> DEFINE read(d) == [age |-> row[d].asked, radius |-> 0, sent |-> row[d].nudged]
             onList(d) == row[d].status = "pending" /\ row[d].fee = "proposed"
                            /\ row[d].asked # Null
             list == [d \in Deliveries |-> IF onList(d) THEN read(d) ELSE Null]
             entry == [run[r] EXCEPT !.step = "fees", !.seen = list]
  <1>1. row \in [Deliveries -> Row] /\ run \in [Runs -> Run]
    BY DEF IInv, TypeOK
  <1>2. ASSUME NEW d \in Deliveries, onList(d)
        PROVE  read(d) \in Instance
    BY <1>1, <1>2, BoardAssumption DEF Row, Instance, Radii
  <1>3. list \in [Deliveries -> Instance \cup {Null}]
    BY <1>2
  <1>4. entry \in Run
    BY <1>1, <1>3 DEF Run
  <1>5. run' = [run EXCEPT ![r] = entry] /\ UNCHANGED <<row, reminded>>
    BY <1>1 DEF ListProposals
  <1>6. \A q \in Runs : RunOK(q)'
    BY <1>1, <1>5 DEF IInv, RunOK, At, Run
  <1>7. QED
    BY <1>1, <1>4, <1>5, <1>6, OnlyRuns

\* The end of a run, or a failure in it
LEMMA EndOK ==
  ASSUME IInv, NEW r \in Runs, EndRun(r) \/ RunFails(r)
  PROVE  IInv'
  <1> DEFINE failed == [IdleRun EXCEPT !.step = "failed"]
  <1>1. run \in [Runs -> Run]
    BY DEF IInv, TypeOK
  <1>2. IdleRun \in Run /\ failed \in Run /\ IdleRun.step = "idle" /\ failed.step = "failed"
    BY BoardAssumption DEF IdleRun, Run, Nothing
  <1>3. /\ run' = [run EXCEPT ![r] = IdleRun] \/ run' = [run EXCEPT ![r] = failed]
        /\ UNCHANGED <<row, reminded>>
    BY DEF EndRun, RunFails
  <1>4. run' \in [Runs -> Run] /\ \A q \in Runs : RunOK(q)'
    BY <1>1, <1>2, <1>3 DEF IInv, RunOK, At
  <1>5. QED
    BY <1>3, <1>4, OnlyRuns

(***************************************************************************)
(* Widen: what is written is more than an instance's radius, so at least   *)
(* the base, and never above the maximum.                                  *)
(***************************************************************************)
LEMMA WidenOK ==
  ASSUME IInv, NEW r \in Runs, NEW d \in Deliveries, Widen(r, d)
  PROVE  IInv'
  <1> DEFINE was == run[r].seen[d]
             cur == IF was.radius = 0 THEN Base ELSE was.radius
             wider == [row[d] EXCEPT !.radius = Want(was.age)]
             entry == [run[r] EXCEPT !.step = "warn", !.seen = [run[r].seen EXCEPT ![d] = Null],
                          !.d = d, !.late = was.age >= WarnAfter /\ ~was.sent]
  <1>1. /\ row \in [Deliveries -> Row] /\ run \in [Runs -> Run]
        /\ reminded \in [Deliveries -> 0 .. 2] /\ RowOK(d) /\ RunOK(r)
    BY DEF IInv, TypeOK
  <1>2. was \in Instance /\ cur \in Nat /\ cur >= Base
    BY <1>1, BoardAssumption DEF Widen, RunOK, At, Run, Instance, Radii
  <1>3. Want(was.age) \in Radii
    BY <1>2, WantType DEF Instance
  <1>4. wider \in Row
    BY <1>1, <1>3 DEF Row
  <1>5. run' = [run EXCEPT ![r] = entry]
    BY <1>1 DEF Widen, Turn, Run
  <1>6. /\ entry \in Run /\ run[r].step = "open"
        /\ \A e \in Deliveries : entry.seen[e] # Null => entry.seen[e] = run[r].seen[e]
    BY <1>1, <1>2 DEF Run, Widen, At
  <1>7. run' \in [Runs -> Run] /\ \A q \in Runs : RunOK(q)'
    BY <1>1, <1>5, <1>6 DEF IInv, RunOK
  <1>8. CASE Want(was.age) > cur
    <2>1. row' = [row EXCEPT ![d] = wider] /\ UNCHANGED reminded
      BY <1>8 DEF Widen, Update
    <2>2. wider.radius \in Base .. MaxRadius
      BY <1>1, <1>2, <1>3, <1>8, BoardAssumption DEF Radii, Row
    <2>3. RowOK(d)'
      BY <1>1, <2>1, <2>2 DEF RowOK, Row
    <2>4. QED
      BY <1>1, <1>4, <1>7, <2>1, <2>3, TimerRow
  <1>9. CASE ~(Want(was.age) > cur)
    BY <1>7, <1>9, OnlyRuns DEF Widen
  <1>10. QED
    BY <1>8, <1>9

\* Warn: only open_warned_at is written
LEMMA WarnOK ==
  ASSUME IInv, NEW r \in Runs, Warn(r)
  PROVE  IInv'
  <1> DEFINE entry == [run[r] EXCEPT !.step = "open", !.late = FALSE]
  <1>1. /\ row \in [Deliveries -> Row] /\ run \in [Runs -> Run]
        /\ reminded \in [Deliveries -> 0 .. 2]
    BY DEF IInv, TypeOK
  <1>2. PICK d \in Deliveries : d = run[r].d
    BY <1>1 DEF Run
  <1> DEFINE warned == [row[d] EXCEPT !.warned = TRUE]
  <1>3. row[d] \in Row /\ warned \in Row
    BY <1>1, ZenonT(30) DEF Row
  <1>4. /\ entry \in Run /\ run' = [run EXCEPT ![r] = entry]
        /\ run[r].step = "warn" /\ entry.seen = run[r].seen
    BY <1>1 DEF Warn, Run, At
  <1>5. run' \in [Runs -> Run] /\ \A q \in Runs : RunOK(q)'
    BY <1>1, <1>4 DEF IInv, RunOK
  <1>6. (UNCHANGED row \/ row' = [row EXCEPT ![d] = warned]) /\ UNCHANGED reminded
    BY <1>2 DEF Warn, Update
  <1>7. RowOK(d)'
    BY <1>1, <1>3, <1>6 DEF IInv, RowOK, Row
  <1>8. QED
    BY <1>1, <1>3, <1>5, <1>6, <1>7, TimerRow

(***************************************************************************)
(* Expire and Remind look at the row again: the condition under the lock,  *)
(* or in the WHERE clause, is what they rest on.                           *)
(***************************************************************************)
LEMMA OfferOK ==
  ASSUME IInv, NEW r \in Runs, NEW d \in Deliveries, Offer(r, d)
  PROVE  run' \in [Runs -> Run] /\ \A q \in Runs : RunOK(q)'
  <1> DEFINE entry == [run[r] EXCEPT !.seen = [run[r].seen EXCEPT ![d] = Null]]
  <1>1. run \in [Runs -> Run] /\ run[r].step = "fees"
    BY DEF IInv, TypeOK, Offer, At
  <1>2. entry \in Run /\ entry.step = "fees" /\ run' = [run EXCEPT ![r] = entry]
    BY <1>1 DEF Offer, Run
  <1>3. QED
    BY <1>1, <1>2 DEF IInv, RunOK

LEMMA ExpireOK ==
  ASSUME IInv, NEW r \in Runs, NEW d \in Deliveries, Expire(r, d)
  PROVE  IInv'
  <1> DEFINE expired == [row[d] EXCEPT !.fee = "expired", !.mode = "self"]
  <1>1. /\ row \in [Deliveries -> Row] /\ row[d] \in Row /\ RowOK(d)
        /\ reminded \in [Deliveries -> 0 .. 2] /\ UNCHANGED reminded
    BY DEF IInv, TypeOK, Expire
  <1>2. expired \in Row
    BY <1>1 DEF Row
  <1>3. CASE UNCHANGED row
    BY <1>1, <1>3, OfferOK, OnlyRuns DEF Expire
  <1>4. CASE row[d].status = "pending" /\ row' = [row EXCEPT ![d] = expired]
    <2>1. /\ expired.status = "pending" /\ expired.fee = "expired" /\ row'[d] = expired
      BY <1>1, <1>4 DEF Row
    <2>2. RowOK(d)'
      BY <1>1, <2>1 DEF RowOK
    <2>3. QED
      BY <1>1, <1>2, <1>4, <2>2, OfferOK, TimerRow DEF Expire
  <1>5. QED
    BY <1>3, <1>4 DEF Expire, Update

LEMMA RemindOK ==
  ASSUME IInv, NEW r \in Runs, NEW d \in Deliveries, Remind(r, d)
  PROVE  IInv'
  <1> DEFINE nudged == [row[d] EXCEPT !.nudged = TRUE]
  <1>1. /\ row \in [Deliveries -> Row] /\ row[d] \in Row /\ RowOK(d)
        /\ reminded \in [Deliveries -> 0 .. 2]
    BY DEF IInv, TypeOK
  <1>2. nudged \in Row
    BY <1>1 DEF Row
  <1>3. CASE UNCHANGED <<row, reminded>>
    BY <1>3, OfferOK, OnlyRuns DEF Remind
  <1>4. CASE row[d].fee = "proposed" /\ ~row[d].nudged /\ Nudge(d)
    <2>1. reminded[d] = 0
      BY <1>1, <1>4 DEF RowOK
    <2>2. /\ row' = [row EXCEPT ![d] = nudged]
          /\ reminded' = [reminded EXCEPT ![d] = 1]
      BY <1>1, <1>4, <2>1 DEF Nudge, Update
    <2>3. RowOK(d)'
      BY <1>1, <2>2 DEF RowOK, Row
    <2>4. reminded' \in [Deliveries -> 0 .. 2]
          /\ \A e \in Deliveries \ {d} : reminded'[e] = reminded[e]
      BY <1>1, <2>2
    <2>5. QED
      BY <1>2, <2>2, <2>3, <2>4, OfferOK, TimerRow DEF Remind
  <1>5. QED
    BY <1>3, <1>4 DEF Remind

\* Time changes ages alone, and null stays null
LEMMA TickOK == ASSUME IInv, Tick PROVE IInv'
  <1> DEFINE entry(r) ==
        [run[r] EXCEPT !.seen = [d \in Deliveries |-> OlderInstance(run[r].seen[d])]]
  <1>1. row \in [Deliveries -> Row] /\ run \in [Runs -> Run]
        /\ reminded \in [Deliveries -> 0 .. 2]
    BY DEF IInv, TypeOK
  <1>2. ASSUME NEW d \in Deliveries PROVE OlderRow(row[d]) \in Row /\ RowOK(d)'
    <2>1. row[d] \in Row /\ row'[d] = OlderRow(row[d]) /\ UNCHANGED reminded
      BY <1>1 DEF Tick
    <2>2. QED
      BY <2>1, OlderType, ZenonT(30) DEF IInv, RowOK, OlderRow, Row
  <1>3. ASSUME NEW i \in Instance 
        PROVE  OlderInstance(i) \in Instance /\ OlderInstance(i).radius = i.radius
    BY OlderType, BoardAssumption DEF OlderInstance, Instance, Ages
  <1>4. ASSUME NEW r \in Runs PROVE entry(r) \in Run /\ run'[r] = entry(r) /\ RunOK(r)'
    <2>1. /\ run[r] \in Run /\ run[r].seen \in [Deliveries -> Instance \cup {Null}]
          /\ run'[r] = entry(r)
      <3>1. run[r] \in Run /\ run[r].seen \in [Deliveries -> Instance \cup {Null}]
        BY <1>1 DEF Run
      <3>2. run'[r] = entry(r)
        BY DEF Tick
      <3>3. QED
        BY <3>1, <3>2
    <2>2. entry(r) \in Run
      BY <1>3, <2>1 DEF OlderInstance, Run
    <2>3. run'[r].step = run[r].step
          /\ \A d \in Deliveries : run'[r].seen[d] = OlderInstance(run[r].seen[d])
      BY <2>1 DEF Run
    <2>4. RunOK(r)'
      BY <1>3, <2>1, <2>3 DEF OlderInstance, IInv, RunOK
    <2>5. QED
      BY <2>1, <2>2, <2>4
  <1>5. QED
    BY <1>1, <1>2, <1>4 DEF IInv, TypeOK, Tick

LEMMA StepOK == IInv /\ [Next]_vars => IInv'
  <1>1. IInv /\ UNCHANGED vars => IInv'
    BY DEF IInv, TypeOK, RowOK, RunOK, vars
  <1>2. QED
    BY <1>1, RequestOK, StartRunOK, WidenOK, WarnOK, ListProposalsOK, ExpireOK, RemindOK,
       EndOK, TickOK DEF Next, TimerStep

-----------------------------------------------------------------------------
(***************************************************************************)
(* The inductive invariant: types, rows and instances are right whatever   *)
(* runs and requests overlap.                                              *)
(***************************************************************************)
THEOREM Inductive == Spec => []IInv
  BY InitOK, StepOK, PTL DEF Spec

(***************************************************************************)
(* Every column, run and counter keeps its type; no radius exceeds         *)
(* open_delivery_max_radius_km.                                            *)
(***************************************************************************)
THEOREM TypeCorrect == Spec => []TypeOK
  <1>1. IInv => TypeOK
    BY DEF IInv
  <1>2. QED
    BY <1>1, Inductive, PTL

(***************************************************************************)
(* The board is whole: published, timed, within its radii, and settled.    *)
(***************************************************************************)
THEOREM BoardCorrect == Spec => []BoardIsWhole
  <1>1. IInv => BoardIsWhole
    BY DEF IInv, RowOK, BoardIsWhole
  <1>2. QED
    BY <1>1, Inductive, PTL

(***************************************************************************)
(* One reminder for one proposal, however many runs there are.             *)
(***************************************************************************)
THEOREM ReminderCorrect == Spec => []RemindedOnce
  <1>1. IInv => RemindedOnce
    BY DEF IInv, RowOK, RemindedOnce
  <1>2. QED
    BY <1>1, Inductive, PTL

-----------------------------------------------------------------------------
(* The reach of an open row                                                *)

\* What a run holds of a row was read of this opening, or of an earlier one
AgeOK(r, d) ==
  run[r].step \in {"open", "warn"} /\ run[r].seen[d] # Null /\ row[d].opened # Null =>
    row[d].opened <= run[r].seen[d].age

AgesOK == \A r \in Runs, d \in Deliveries : AgeOK(r, d)

\* Powers of two grow: a set has no fewer subsets than a part of it
LEMMA PowersGrow ==
  ASSUME NEW m \in Nat, NEW n \in Nat, m <= n
  PROVE  2 ^ m \in Nat /\ 2 ^ n \in Nat /\ 2 ^ m <= 2 ^ n
  <1> DEFINE S == SUBSET (1 .. m)
             T == SUBSET (1 .. n)
  <1>1. /\ IsFiniteSet(1 .. m) /\ Cardinality(1 .. m) = m
        /\ IsFiniteSet(1 .. n) /\ Cardinality(1 .. n) = n
    BY FS_Interval
  <1>2. /\ IsFiniteSet(S) /\ Cardinality(S) = 2 ^ m
        /\ IsFiniteSet(T) /\ Cardinality(T) = 2 ^ n
    BY <1>1, FS_SUBSET
  <1>3. S \in SUBSET T
    OBVIOUS
  <1> HIDE DEF S, T
  <1>4. Cardinality(S) <= Cardinality(T) /\ Cardinality(S) \in Nat /\ Cardinality(T) \in Nat
    BY <1>2, <1>3, FS_Subset, FS_CardinalityType
  <1>5. QED
    BY <1>2, <1>4

\* What an opening deserves never shrinks while it waits
LEMMA WantGrows ==
  ASSUME NEW a \in Ages, NEW b \in Ages, a <= b
  PROVE  Want(a) <= Want(b)
  <1> DEFINE m == a \div ExpandAfter
             n == b \div ExpandAfter
  <1>1. m \in Nat /\ n \in Nat /\ m <= n
    BY BoardAssumption DEF Ages
  <1> HIDE DEF m, n
  <1>2. PICK x \in Nat, y \in Nat : x = 2 ^ m /\ y = 2 ^ n /\ x <= y
    BY <1>1, PowersGrow
  <1>3. Base * x \in Nat /\ Base * y \in Nat /\ Base * x <= Base * y
    BY <1>2, BoardAssumption
  <1>4. /\ Want(a) = IF Base * x \in Radii THEN Base * x ELSE MaxRadius
        /\ Want(b) = IF Base * y \in Radii THEN Base * y ELSE MaxRadius
    BY <1>2 DEF Want, m, n
  <1>5. QED
    BY <1>3, <1>4, BoardAssumption DEF Radii

\* Openings are as they were, begin anew or end, and runs hold nothing new of the board
LEMMA AgesStay ==
  ASSUME IInv, IInv', AgesOK,
         \A d \in Deliveries : row'[d].opened \in {row[d].opened, 0, Null},
         \A r \in Runs : run'[r].step \in {"open", "warn"} =>
           /\ run[r].step \in {"open", "warn"}
           /\ \A d \in Deliveries : run'[r].seen[d] \in {run[r].seen[d], Null}
  PROVE  AgesOK'
  <1> SUFFICES ASSUME NEW r \in Runs, NEW d \in Deliveries,
                      run'[r].step \in {"open", "warn"}, run'[r].seen[d] # Null,
                      row'[d].opened # Null
               PROVE  row'[d].opened <= run'[r].seen[d].age
    BY DEF AgesOK, AgeOK
  <1>1. run'[r].seen[d] = run[r].seen[d] /\ run[r].step \in {"open", "warn"}
    OBVIOUS
  <1>2. run[r].seen[d] \in Instance
    BY <1>1 DEF IInv, TypeOK, Run
  <1>3. 0 <= run[r].seen[d].age
    BY <1>2 DEF Instance, Ages
  <1>4. QED
    BY <1>1, <1>3 DEF AgesOK, AgeOK

\* A request writes one row; it lets the opening stand, begins one or ends it
Requested(d) ==
  /\ run' = run
  /\ \A e \in Deliveries \ {d} : row'[e] = row[e]
  /\ row'[d].opened \in {row[d].opened, 0, Null}
  /\ row[d].status = "open" /\ row'[d].status = "open" => row'[d].radius = row[d].radius

LEMMA RequestWrites ==
  ASSUME IInv, NEW d \in Deliveries,
         \/ PublishForStore(d) \/ ProposeToCustomer(d)
         \/ DecideFee(d, TRUE) \/ DecideFee(d, FALSE) \/ Unpublish(d)
         \/ Assign(d) \/ Release(d) \/ Reject(d) \/ Retry(d) \/ Cancel(d)
         \/ \E c \in Couriers : Claim(d, c)
  PROVE  Requested(d)
  <1> USE DEF Requested
  <1>0. row \in [Deliveries -> Row] /\ row[d] \in Row
    BY DEF IInv, TypeOK
  <1>1. CASE PublishForStore(d)
    BY <1>0, <1>1 DEF PublishForStore, OnBoard, Update, Row
  <1>2. CASE ProposeToCustomer(d)
    BY <1>0, <1>2 DEF ProposeToCustomer, Update, Row
  <1>3. CASE DecideFee(d, TRUE)
    BY <1>0, <1>3 DEF DecideFee, OnBoard, Update, Row
  <1>4. CASE DecideFee(d, FALSE)
    BY <1>0, <1>4 DEF DecideFee, Update, Row
  <1>5. CASE Unpublish(d)
    BY <1>0, <1>5 DEF Unpublish, NewRow, Update, Row
  <1>6. CASE Assign(d)
    BY <1>0, <1>6 DEF Assign, Update, Row
  <1>7. CASE Release(d)
    BY <1>0, <1>7 DEF Release, OnBoard, Update, Row
  <1>8. CASE Reject(d)
    BY <1>0, <1>8 DEF Reject, Update, Row
  <1>9. CASE Retry(d)
    BY <1>0, <1>9 DEF Retry, Update, Row
  <1>10. CASE Cancel(d)
    BY <1>0, <1>10 DEF Cancel, NewRow, Update, Row
  <1>11. CASE \E c \in Couriers : Claim(d, c)
    BY <1>0, <1>11 DEF Claim, Update, Row
  <1>12. QED
    BY <1>1, <1>2, <1>3, <1>4, <1>5, <1>6, <1>7, <1>8, <1>9, <1>10, <1>11

\* A run goes on with what it holds, and no opening changes
LEMMA RunHolds ==
  ASSUME IInv, NEW r \in Runs, TimerStep(r) \/ RunFails(r)
  PROVE  /\ \A q \in Runs \ {r} : run'[q] = run[q]
         /\ run'[r].step \in {"open", "warn"} =>
              /\ run[r].step \in {"open", "warn"}
              /\ \A d \in Deliveries : run'[r].seen[d] \in {run[r].seen[d], Null}
         /\ \A d \in Deliveries : row'[d].opened = row[d].opened
  <1>0. /\ row \in [Deliveries -> Row] /\ run \in [Runs -> Run] /\ run[r] \in Run
    BY DEF IInv, TypeOK
  <1>1. ASSUME NEW d \in Deliveries, Widen(r, d) PROVE run' = [run EXCEPT ![r] =
               [run[r] EXCEPT !.step = "warn", !.seen = [run[r].seen EXCEPT ![d] = Null],
                              !.d = d, !.late = run[r].seen[d].age >= WarnAfter
                                                  /\ ~run[r].seen[d].sent]]
    BY <1>0, <1>1 DEF Widen, Turn, Run
  <1>2. CASE \E d \in Deliveries : Widen(r, d)
    <2>1. PICK d \in Deliveries : Widen(r, d)
      BY <1>2
    <2>2. run[r].step = "open" /\ run' = [run EXCEPT ![r] =
               [run[r] EXCEPT !.step = "warn", !.seen = [run[r].seen EXCEPT ![d] = Null],
                              !.d = d, !.late = run[r].seen[d].age >= WarnAfter
                                                  /\ ~run[r].seen[d].sent]]
      BY <1>1, <2>1 DEF Widen, At
    <2>3. /\ \A q \in Runs \ {r} : run'[q] = run[q]
          /\ run'[r].seen = [run[r].seen EXCEPT ![d] = Null]
      BY <1>0, <2>2 DEF Run
    <2>4. \A e \in Deliveries : run'[r].seen[e] \in {run[r].seen[e], Null}
      BY <1>0, <2>3 DEF Run
    <2>5. row' = row \/ row' = [row EXCEPT ![d] = [row[d] EXCEPT !.radius = Want(run[r].seen[d].age)]]
      BY <2>1 DEF Widen, Update
    <2>6. \A e \in Deliveries : row'[e].opened = row[e].opened
      BY <1>0, <2>5 DEF Row
    <2>7. QED
      BY <2>2, <2>3, <2>4, <2>6
  <1>3. CASE \E d \in Deliveries : Expire(r, d) \/ Remind(r, d)
    <2>1. PICK d \in Deliveries : Expire(r, d) \/ Remind(r, d)
      BY <1>3
    <2>2. run[r].step = "fees" /\ run' = [run EXCEPT ![r].seen[d] = Null]
      BY <2>1 DEF Expire, Remind, Offer, At
    <2>3. run'[r].step = "fees" /\ \A q \in Runs \ {r} : run'[q] = run[q]
      BY <1>0, <2>2 DEF Run
    <2>4. \/ row' = row
          \/ row' = [row EXCEPT ![d] = [row[d] EXCEPT !.fee = "expired", !.mode = "self"]]
          \/ row' = [row EXCEPT ![d] = [row[d] EXCEPT !.nudged = TRUE]]
      BY <2>1 DEF Expire, Remind, Nudge, Update
    <2>5. \A e \in Deliveries : row'[e].opened = row[e].opened
      <3>1. CASE row' = row
        BY <3>1
      <3>2. CASE row' = [row EXCEPT ![d] = [row[d] EXCEPT !.fee = "expired", !.mode = "self"]]
        <4>1. row[d] \in Row
          BY <1>0
        <4>2. [row[d] EXCEPT !.fee = "expired", !.mode = "self"].opened = row[d].opened
          BY <4>1 DEF Row
        <4>3. QED
          BY <1>0, <3>2, <4>2
      <3>3. CASE row' = [row EXCEPT ![d] = [row[d] EXCEPT !.nudged = TRUE]]
        BY <1>0, <3>3 DEF Row
      <3>4. QED
        BY <2>4, <3>1, <3>2, <3>3
    <2>6. QED
      BY <2>3, <2>5
  <1>4. CASE Warn(r)
    <2>1. /\ run' = [run EXCEPT ![r] = [run[r] EXCEPT !.step = "open", !.late = FALSE]]
          /\ run[r].step = "warn"
      BY <1>0, <1>4 DEF Warn, At, Run
    <2>2. /\ run'[r].step = "open" /\ run'[r].seen = run[r].seen
          /\ \A q \in Runs \ {r} : run'[q] = run[q]
      BY <1>0, <2>1 DEF Run
    <2>3. PICK d \in Deliveries : d = run[r].d
      BY <1>0 DEF Run
    <2>4. row' = row \/ row' = [row EXCEPT ![d] = [row[d] EXCEPT !.warned = TRUE]]
      BY <1>4, <2>3 DEF Warn, Update
    <2>5. \A e \in Deliveries : row'[e].opened = row[e].opened
      BY <1>0, <2>4 DEF Row
    <2>6. QED
      BY <2>1, <2>2, <2>5
  <1>5. CASE ListProposals(r) \/ EndRun(r) \/ RunFails(r)
    <2>1. UNCHANGED row
      BY <1>5 DEF ListProposals, EndRun, RunFails
    <2>2. /\ run'[r].step \notin {"open", "warn"}
          /\ \A q \in Runs \ {r} : run'[q] = run[q]
      BY <1>0, <1>5 DEF ListProposals, EndRun, RunFails, IdleRun, Run
    <2>3. QED
      BY <2>1, <2>2
  <1>6. QED
    BY <1>2, <1>3, <1>4, <1>5 DEF TimerStep

LEMMA AgesStep ==
  ASSUME IInv, IInv', AgesOK, [Next]_vars
  PROVE  AgesOK'
  <1>0. /\ row \in [Deliveries -> Row] /\ run \in [Runs -> Run]
    BY DEF IInv, TypeOK
  <1>1. CASE UNCHANGED vars
    BY <1>1 DEF vars, AgesOK, AgeOK
  <1>2. CASE Request
    BY <1>2, RequestWrites, AgesStay DEF Request, Requested
  <1>3. ASSUME NEW r \in Runs, TimerStep(r) \/ RunFails(r) PROVE AgesOK'
    BY <1>3, RunHolds, AgesStay
  <1>4. ASSUME NEW r \in Runs, StartRun(r) PROVE AgesOK'
    <2> DEFINE read(d) == [age |-> row[d].opened, radius |-> row[d].radius,
                           sent |-> row[d].warned]
    <2>1. /\ row' = row /\ \A q \in Runs \ {r} : run'[q] = run[q]
          /\ \A d \in Deliveries : run'[r].seen[d] # Null => run'[r].seen[d] = read(d)
      BY <1>0, <1>4 DEF StartRun, Run
    <2>2. ASSUME NEW d \in Deliveries PROVE AgeOK(r, d)'
      <3>0. read(d).age = row[d].opened
        OBVIOUS
      <3>1. run'[r].seen[d] # Null => run'[r].seen[d].age = row[d].opened
        BY <2>1, <3>0, Zenon
      <3>2. row[d].opened # Null => row[d].opened <= row[d].opened
        BY <1>0, BoardAssumption DEF Row, Ages
      <3>3. QED
        BY <2>1, <3>1, <3>2 DEF AgeOK
    <2>3. QED
      BY <2>1, <2>2 DEF AgesOK, AgeOK
  <1>5. CASE Tick
    <2> SUFFICES ASSUME NEW r \in Runs, NEW d \in Deliveries,
                        run'[r].step \in {"open", "warn"}, run'[r].seen[d] # Null,
                        row'[d].opened # Null
                 PROVE  row'[d].opened <= run'[r].seen[d].age
      BY DEF AgesOK, AgeOK
    <2>1. row[d] \in Row /\ run[r] \in Run
      BY <1>0
    <2>2. row'[d].opened = Older(row[d].opened)
      BY <1>5, <2>1 DEF Tick, OlderRow, Row
    <2>3. run'[r] = [run[r] EXCEPT !.seen = [e \in Deliveries |-> OlderInstance(run[r].seen[e])]]
      BY <1>5 DEF Tick
    <2>4. run'[r].step = run[r].step /\ run'[r].seen[d] = OlderInstance(run[r].seen[d])
      BY <2>1, <2>3 DEF Run
    <2>5. run[r].seen[d] # Null /\ run[r].seen[d] \in Instance
      BY <2>1, <2>4 DEF OlderInstance, Run
    <2>6. run'[r].seen[d].age = Older(run[r].seen[d].age)
      BY <2>4, <2>5 DEF OlderInstance, Instance
    <2>7. row[d].opened # Null /\ row[d].opened <= run[r].seen[d].age
      BY <2>2, <2>4, <2>5 DEF Older, AgesOK, AgeOK
    <2>8. PICK a \in Ages, b \in Ages : a = row[d].opened /\ b = run[r].seen[d].age /\ a <= b
      BY <2>1, <2>5, <2>7 DEF Row, Instance
    <2>9. Older(a) <= Older(b)
      BY <2>8, BoardAssumption DEF Older, Ages
    <2>10. QED
      BY <2>2, <2>6, <2>8, <2>9
  <1>6. QED
    BY <1>1, <1>2, <1>3, <1>4, <1>5 DEF Next

\* An opening never holds more than is recorded of it: AgesOK always holds
LEMMA AgesCorrect == Spec => []AgesOK
  <1>1. Init => AgesOK
    BY DEF Init, AgesOK, AgeOK, IdleRun
  <1>2. IInv /\ IInv' /\ AgesOK /\ [Next]_vars => AgesOK'
    BY AgesStep
  <1>3. QED
    BY <1>1, <1>2, Inductive, PTL DEF Spec

LEMMA ReachStep ==
  ASSUME IInv, AgesOK, Next, NEW d \in Deliveries,
         row[d].status = "open", row'[d].status = "open", row'[d].radius < row[d].radius
  PROVE  row'[d].radius >= Want(row'[d].opened)
  <1>0. /\ row \in [Deliveries -> Row] /\ run \in [Runs -> Run] /\ row[d] \in Row
        /\ row[d].opened \in Ages
    BY DEF IInv, TypeOK, RowOK, Row
  <1>1. row'[d].radius # row[d].radius
    BY <1>0, BoardAssumption DEF Row, Radii
  <1>2. ~Request
    <2>1. ASSUME NEW e \in Deliveries, Requested(e) PROVE row'[d].radius = row[d].radius
      BY <2>1 DEF Requested
    <2>2. QED
      BY <1>1, <2>1, RequestWrites DEF Request
  <1>3. ~Tick
    <2>1. OlderRow(row[d]).radius = row[d].radius
      BY <1>0 DEF OlderRow, Row
    <2>2. QED
      BY <1>1, <2>1 DEF Tick
  <1>4. ASSUME NEW r \in Runs, NEW e \in Deliveries, Widen(r, e)
        PROVE  row'[d].radius >= Want(row'[d].opened)
    <2> DEFINE was == run[r].seen[e]
    <2>1. /\ run[r].step = "open" /\ was # Null
          /\ row' = row \/ row' = [row EXCEPT ![e] = [row[e] EXCEPT !.radius = Want(was.age)]]
      BY <1>4 DEF Widen, Update, At
    <2>2. e = d /\ row'[d].radius = Want(was.age) /\ row'[d].opened = row[d].opened
      BY <1>0, <1>1, <2>1 DEF Row
    <2>3. was \in Instance
      BY <1>0, <2>1 DEF Run
    <2>4. row[d].opened <= was.age
      BY <1>0, <2>1, <2>2, BoardAssumption DEF AgesOK, AgeOK, Ages
    <2>5. was.age \in Ages
      BY <2>3 DEF Instance
    <2> HIDE DEF was
    <2>6. Want(row[d].opened) <= Want(was.age)
      BY <1>0, <2>4, <2>5, WantGrows
    <2>7. Want(row[d].opened) \in Nat /\ Want(was.age) \in Nat
      BY <1>0, <2>5, WantType, BoardAssumption DEF Radii
    <2>8. QED
      BY <2>2, <2>6, <2>7
  <1>5. ASSUME NEW r \in Runs, NEW e \in Deliveries, Expire(r, e) \/ Remind(r, e)
        PROVE  FALSE
    BY <1>0, <1>1, <1>5 DEF Expire, Remind, Nudge, Update, Row
  <1>6. ASSUME NEW r \in Runs, Warn(r) PROVE FALSE
    <2>1. PICK e \in Deliveries : e = run[r].d
      BY <1>0 DEF Run
    <2>2. row' = row \/ row' = [row EXCEPT ![e] = [row[e] EXCEPT !.warned = TRUE]]
      BY <1>6, <2>1 DEF Warn, Update
    <2>3. QED
      BY <1>0, <1>1, <2>2 DEF Row
  <1>7. ASSUME NEW r \in Runs,
               StartRun(r) \/ ListProposals(r) \/ EndRun(r) \/ RunFails(r)
        PROVE  FALSE
    BY <1>1, <1>7 DEF StartRun, ListProposals, EndRun, RunFails
  <1>8. QED
    BY <1>2, <1>3, <1>4, <1>5, <1>6, <1>7 DEF Next, TimerStep

(***************************************************************************)
(* No run of tickOpen, however old what it read, takes an open row's reach *)
(* back below what its waiting time deserves.                              *)
(***************************************************************************)
THEOREM ReachCorrect == Spec => ReachNotTakenBack
  <1>1. IInv /\ AgesOK /\ [Next]_vars =>
          [\A d \in Deliveries :
             (row[d].status = "open" /\ row'[d].status = "open"
                /\ row'[d].radius < row[d].radius)
               => row'[d].radius >= Want(row'[d].opened)]_vars
    BY ReachStep
  <1>2. QED
    BY <1>1, Inductive, AgesCorrect, PTL DEF Spec, ReachNotTakenBack
=============================================================================
