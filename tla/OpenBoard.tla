------------------------------ MODULE OpenBoard ------------------------------
(***************************************************************************)
(* The board of open deliveries and its timer (deliveries.module.ts,       *)
(* tickOpen, tickFeeOffers and notifyOpen of deliveries.service.ts): the   *)
(* radius in which an open delivery is offered grows with its waiting      *)
(* time, the store is warned when nobody takes it, a customer who does not *)
(* answer a proposed fee is reminded and then the proposal expires.        *)
(*                                                                         *)
(* A run of the timer reads the rows once and works through these          *)
(* instances; the interval starts a run whether or not the previous one    *)
(* has ended.  Time is the age of a timestamp: a clock step adds one to    *)
(* every age, those held in instances too, up to MaxAge.                   *)
(***************************************************************************)
EXTENDS Naturals

CONSTANTS
  Deliveries,   \* delivery rows
  Couriers,     \* free couriers of the platform
  Runs,         \* runs of the timer that may be under way together
  Distance,     \* Distance[c]: from courier c to the pickup point
  Base,         \* open_delivery_radius_km
  MaxRadius,    \* open_delivery_max_radius_km
  ExpandAfter,  \* open_delivery_expand_minutes
  WarnAfter,    \* open_delivery_warn_minutes
  RemindAfter,  \* delivery_fee_remind_minutes
  ExpireAfter,  \* delivery_fee_expire_minutes
  MaxAge,       \* bound: ages are not told apart from here on
  Null          \* a timestamp that is not set

ASSUME BoardAssumption ==
  /\ Deliveries # {}
  /\ Distance \in [Couriers -> Nat]
  /\ Base \in Nat \ {0} /\ MaxRadius \in Nat /\ Base <= MaxRadius
  /\ ExpandAfter \in Nat \ {0}
  /\ {WarnAfter, RemindAfter, ExpireAfter} \subseteq 1 .. MaxAge
  /\ RemindAfter < ExpireAfter
  /\ MaxAge \in Nat /\ Null \notin Nat

VARIABLES
  row,      \* row[d]: the columns the timer reads and writes
  run,      \* run[r]: how far a run is, and the instances it holds
  reminded  \* history: reminders the customer got for the standing proposal

vars == <<row, run, reminded>>

Ages == 0 .. MaxAge
Radii == 0 .. MaxRadius

(***************************************************************************)
(* `taken` is any status with a courier, failed too; `opened`, `asked` are the ages of *)
(* opened_at and fee_proposed_at; radius 0 is null; `warned` and `nudged`  *)
(* tell whether open_warned_at and fee_reminded_at are set.                *)
(***************************************************************************)
Row == [status : {"pending", "open", "taken", "cancelled"},
        mode   : {"self", "platform"},
        opened : Ages \cup {Null},
        radius : Radii,
        warned : BOOLEAN,
        fee    : {"none", "proposed", "accepted", "rejected", "expired"},
        asked  : Ages \cup {Null},
        nudged : BOOLEAN]

(***************************************************************************)
(* What a run has read of a row: the age of opened_at or fee_proposed_at,  *)
(* the radius, and whether the warning or the reminder was already sent.   *)
(* seen[d] is Null when d is not on the run's list, or done with; `late`:  *)
(* the row d at hand waited too long, unwarned, when its turn came.        *)
(***************************************************************************)
Instance == [age : Ages, radius : Radii, sent : BOOLEAN]

Run == [step : {"idle", "open", "warn", "failed", "fees"},
        seen : [Deliveries -> Instance \cup {Null}],
        d    : Deliveries,
        late : BOOLEAN]

TypeOK ==
  /\ row \in [Deliveries -> Row]
  /\ run \in [Runs -> Run]
  /\ reminded \in [Deliveries -> 0 .. 2]

NewRow == [status |-> "pending", mode |-> "self", opened |-> Null, radius |-> 0,
           warned |-> FALSE, fee |-> "none", asked |-> Null, nudged |-> FALSE]

Nothing == [d \in Deliveries |-> Null]

IdleRun == [step |-> "idle", seen |-> Nothing,
            d |-> CHOOSE d \in Deliveries : TRUE, late |-> FALSE]

Init ==
  /\ row = [d \in Deliveries |-> NewRow]
  /\ run = [r \in Runs |-> IdleRun]
  /\ reminded = [d \in Deliveries |-> 0]

Update(d, columns) == row' = [row EXCEPT ![d] = columns]

-----------------------------------------------------------------------------
(* Requests: each is one transaction on the locked row                     *)

\* A row that goes on the board, whoever puts it there
OnBoard(columns) ==
  [columns EXCEPT !.status = "open", !.opened = 0, !.radius = Base, !.warned = FALSE]

\* publish with fee_payer = store
PublishForStore(d) ==
  /\ row[d].status = "pending"
  /\ Update(d, OnBoard([row[d] EXCEPT !.mode = "platform", !.fee = "none",
                                      !.asked = Null, !.nudged = FALSE]))
  /\ reminded' = [reminded EXCEPT ![d] = 0]
  /\ UNCHANGED run

\* publish with fee_payer = customer; it may replace a standing proposal
ProposeToCustomer(d) ==
  /\ row[d].status = "pending"
  /\ Update(d, [row[d] EXCEPT !.mode = "platform", !.fee = "proposed",
                              !.asked = 0, !.nudged = FALSE])
  /\ reminded' = [reminded EXCEPT ![d] = 0]
  /\ UNCHANGED run

\* decideFee: the customer accepts or rejects the standing proposal
DecideFee(d, accept) ==
  /\ row[d].status = "pending"
  /\ row[d].fee = "proposed"
  /\ Update(d, IF accept
                 THEN OnBoard([row[d] EXCEPT !.fee = "accepted"])
                 ELSE [row[d] EXCEPT !.fee = "rejected", !.mode = "self"])
  /\ UNCHANGED <<run, reminded>>

\* unpublish: a proposal is withdrawn, or an open row taken back
Unpublish(d) ==
  /\ \/ row[d].status = "pending" /\ row[d].fee = "proposed"
     \/ row[d].status = "open"
  /\ Update(d, [NewRow EXCEPT
        !.opened = IF row[d].status = "open" THEN Null ELSE row[d].opened,
        !.radius = IF row[d].status = "open" THEN 0 ELSE row[d].radius,
        !.warned = IF row[d].status = "open" THEN FALSE ELSE row[d].warned])
  /\ UNCHANGED <<run, reminded>>

\* claim: a courier within the radius takes the row off the board
Claim(d, c) ==
  /\ row[d].status = "open" /\ row[d].mode = "platform"
  /\ Distance[c] <= row[d].radius
  /\ Update(d, [row[d] EXCEPT !.status = "taken", !.opened = Null, !.warned = FALSE])
  /\ UNCHANGED <<run, reminded>>

\* assign: the store or a superadmin gives the row to a courier
Assign(d) ==
  /\ row[d].status \in {"pending", "open"}
  /\ row[d].fee # "proposed"
  /\ Update(d, IF row[d].status = "open"
                 THEN [row[d] EXCEPT !.status = "taken", !.opened = Null, !.warned = FALSE]
                 ELSE [row[d] EXCEPT !.status = "taken"])
  /\ UNCHANGED <<run, reminded>>

\* reject by a courier of the platform: back on the board, as if just opened
Release(d) ==
  /\ row[d].status = "taken" /\ row[d].mode = "platform"
  /\ Update(d, OnBoard(row[d]))
  /\ UNCHANGED <<run, reminded>>

\* reject by the store's own courier
Reject(d) ==
  /\ row[d].status = "taken" /\ row[d].mode = "self"
  /\ Update(d, [row[d] EXCEPT !.status = "pending"])
  /\ UNCHANGED <<run, reminded>>

\* retry after a failed trip: waiting again, with the mode and fee it had
Retry(d) ==
  /\ row[d].status = "taken"
  /\ Update(d, [row[d] EXCEPT !.status = "pending"])
  /\ UNCHANGED <<run, reminded>>

\* cancel, of the delivery or of its order; a proposal stays as it stood, and
\* what the row says of its opening is not told apart any more
Cancel(d) ==
  /\ row[d].status # "cancelled"
  /\ Update(d, [NewRow EXCEPT !.status = "cancelled", !.fee = row[d].fee,
                              !.nudged = row[d].nudged])
  /\ UNCHANGED <<run, reminded>>

-----------------------------------------------------------------------------
(* The timer                                                               *)

At(r, s) == run[r].step = s

\* What an opening `minutes` old deserves: the base doubled per interval
Want(minutes) ==
  LET grown == Base * 2 ^ (minutes \div ExpandAfter)
  IN  IF grown \in Radii THEN grown ELSE MaxRadius

\* setInterval fires: tickOpen lists the board, whatever other runs do
StartRun(r) ==
  /\ At(r, "idle")
  /\ run' = [run EXCEPT ![r].step = "open",
       ![r].seen = [d \in Deliveries |->
          IF row[d].status = "open" /\ row[d].mode = "platform" /\ row[d].opened # Null
            THEN [age |-> row[d].opened, radius |-> row[d].radius, sent |-> row[d].warned]
            ELSE Null]]
  /\ UNCHANGED <<row, reminded>>

\* Mutant (SilentIsWarned): the warning belongs to the branch that widens
TurnOnlyWidened(r, d, was) ==
  run' = [run EXCEPT ![r].step = "warn", ![r].seen[d] = Null, ![r].d = d,
                     ![r].late = was.age >= WarnAfter /\ ~was.sent
                                   /\ Want(was.age) > was.radius]

\* The turn of row d, of which the run holds the instance `was`
Turn(r, d, was) ==
  run' = [run EXCEPT ![r].step = "warn", ![r].seen[d] = Null, ![r].d = d,
                     ![r].late = was.age >= WarnAfter /\ ~was.sent]

\* Mutant (ReachNotTakenBack): doubles the radius it has read
WidenByDoubling(r, d) ==
  /\ At(r, "open") /\ run[r].seen[d] # Null
  /\ LET was == run[r].seen[d]
         twice == IF 2 * was.radius < MaxRadius THEN 2 * was.radius ELSE MaxRadius
     IN  /\ Turn(r, d, was)
         /\ IF Want(was.age) > was.radius
              THEN Update(d, [row[d] EXCEPT !.radius = twice])
              ELSE UNCHANGED row
  /\ UNCHANGED reminded

\* Mutant (EndsAtFullReach): a row it is time to warn of is not widened
WidenUntilLate(r, d) ==
  /\ At(r, "open") /\ run[r].seen[d] # Null
  /\ LET was == run[r].seen[d]
     IN  /\ Turn(r, d, was)
         /\ IF Want(was.age) > was.radius /\ was.age < WarnAfter
              THEN Update(d, [row[d] EXCEPT !.radius = Want(was.age)])
              ELSE UNCHANGED row
  /\ UNCHANGED reminded

(***************************************************************************)
(* The head of the loop's body: the age of the opening the run has read,   *)
(* and a wider radius if that age deserves more than the radius read.  The *)
(* row itself is not looked at again.                                      *)
(***************************************************************************)
Widen(r, d) ==
  /\ At(r, "open") /\ run[r].seen[d] # Null
  /\ LET was == run[r].seen[d]
         cur == IF was.radius = 0 THEN Base ELSE was.radius
     IN  /\ Turn(r, d, was)
         /\ IF Want(was.age) > cur
              THEN Update(d, [row[d] EXCEPT !.radius = Want(was.age)])
              ELSE UNCHANGED row
  /\ UNCHANGED reminded

(***************************************************************************)
(* After notifyOpen has asked every courier in turn, other handlers        *)
(* running meanwhile: the warning to the store and the superadmins.        *)
(***************************************************************************)
Warn(r) ==
  /\ At(r, "warn")
  /\ run' = [run EXCEPT ![r].step = "open", ![r].late = FALSE]
  /\ IF run[r].late
       THEN Update(run[r].d, [row[run[r].d] EXCEPT !.warned = TRUE])
       ELSE UNCHANGED row
  /\ UNCHANGED reminded

\* tickOpen is through: tickFeeOffers lists the unanswered proposals
ListProposals(r) ==
  /\ run[r].step \in {"open", "failed"} /\ run[r].seen = Nothing
  /\ run' = [run EXCEPT ![r].step = "fees",
       ![r].seen = [d \in Deliveries |->
          IF row[d].status = "pending" /\ row[d].fee = "proposed" /\ row[d].asked # Null
            THEN [age |-> row[d].asked, radius |-> 0, sent |-> row[d].nudged]
            ELSE Null]]
  /\ UNCHANGED <<row, reminded>>

\* The turn of proposal d
Offer(r, d) ==
  /\ At(r, "fees") /\ run[r].seen[d] # Null
  /\ run' = [run EXCEPT ![r].seen[d] = Null]

\* Mutant (BoardIsWhole): the row is not looked at again under its lock
ExpireUnchecked(r, d) ==
  /\ Offer(r, d) /\ run[r].seen[d].age >= ExpireAfter
  /\ Update(d, [row[d] EXCEPT !.fee = "expired", !.mode = "self"])
  /\ UNCHANGED reminded

\* Mutant (ProposalEnds): only a proposal that was reminded of before it was read
ExpireUnlessReminded(r, d) ==
  /\ Offer(r, d) /\ run[r].seen[d].age >= ExpireAfter
  /\ IF row[d].status = "pending" /\ row[d].fee = "proposed" /\ ~run[r].seen[d].sent
       THEN Update(d, [row[d] EXCEPT !.fee = "expired", !.mode = "self"])
       ELSE UNCHANGED row
  /\ UNCHANGED reminded

\* An instance past its time expires if the row, locked, is still proposed
Expire(r, d) ==
  /\ Offer(r, d) /\ run[r].seen[d].age >= ExpireAfter
  /\ IF row[d].status = "pending" /\ row[d].fee = "proposed"
       THEN Update(d, [row[d] EXCEPT !.fee = "expired", !.mode = "self"])
       ELSE UNCHANGED row
  /\ UNCHANGED reminded

\* The reminder is written and sent
Nudge(d) ==
  /\ Update(d, [row[d] EXCEPT !.nudged = TRUE])
  /\ reminded' = [reminded EXCEPT ![d] = IF @ < 2 THEN @ + 1 ELSE 2]

\* Mutant (RemindedOnce): trusts the instance, without the condition in WHERE
RemindUnconditionally(r, d) ==
  /\ Offer(r, d) /\ run[r].seen[d].age < ExpireAfter
  /\ IF run[r].seen[d].age >= RemindAfter /\ ~run[r].seen[d].sent
       THEN Nudge(d)
       ELSE UNCHANGED <<row, reminded>>

\* One reminder: UPDATE ... WHERE proposed AND fee_reminded_at IS NULL
Remind(r, d) ==
  /\ Offer(r, d) /\ run[r].seen[d].age < ExpireAfter
  /\ IF /\ run[r].seen[d].age >= RemindAfter /\ ~run[r].seen[d].sent
        /\ row[d].fee = "proposed" /\ ~row[d].nudged
       THEN Nudge(d)
       ELSE UNCHANGED <<row, reminded>>

EndRun(r) ==
  /\ At(r, "fees") /\ run[r].seen = Nothing
  /\ run' = [run EXCEPT ![r] = IdleRun]
  /\ UNCHANGED <<row, reminded>>

\* An error in tickOpen is logged and tickFeeOffers runs; one there ends the run
RunFails(r) ==
  /\ \/ /\ run[r].step \in {"open", "warn"}
        /\ run' = [run EXCEPT ![r] = [IdleRun EXCEPT !.step = "failed"]]
     \/ /\ At(r, "fees") /\ run[r].seen # Nothing
        /\ run' = [run EXCEPT ![r] = IdleRun]
  /\ UNCHANGED <<row, reminded>>

-----------------------------------------------------------------------------
Older(age) == IF age = Null \/ age = MaxAge THEN age ELSE age + 1
OlderRow(columns) == [columns EXCEPT !.opened = Older(@), !.asked = Older(@)]
OlderInstance(was) == IF was = Null THEN Null ELSE [was EXCEPT !.age = Older(@)]

\* The clock: every stored timestamp is a unit older, in the instances too
Tick ==
  /\ row' = [d \in Deliveries |-> OlderRow(row[d])]
  /\ run' = [r \in Runs |->
       [run[r] EXCEPT !.seen = [d \in Deliveries |-> OlderInstance(run[r].seen[d])]]]
  /\ UNCHANGED reminded

Request ==
  \E d \in Deliveries :
    \/ PublishForStore(d) \/ ProposeToCustomer(d)
    \/ DecideFee(d, TRUE) \/ DecideFee(d, FALSE) \/ Unpublish(d)
    \/ Assign(d) \/ Release(d) \/ Reject(d) \/ Retry(d) \/ Cancel(d)
    \/ \E c \in Couriers : Claim(d, c)

TimerStep(r) ==
  \/ \E d \in Deliveries : Widen(r, d) \/ Expire(r, d) \/ Remind(r, d)
  \/ Warn(r) \/ ListProposals(r) \/ EndRun(r)

Next ==
  \/ Request
  \/ \E r \in Runs : StartRun(r) \/ TimerStep(r) \/ RunFails(r)
  \/ Tick

Spec == Init /\ [][Next]_vars

(***************************************************************************)
(* The interval never stops while the service runs, a run goes on to its   *)
(* end, and time passes.  Nobody has to publish, answer, claim or release. *)
(***************************************************************************)
FairSpec ==
  /\ Spec
  /\ \A r \in Runs : WF_vars(StartRun(r)) /\ WF_vars(TimerStep(r))
  /\ WF_vars(Tick)

-----------------------------------------------------------------------------
(***************************************************************************)
(* A row on the board is published on the platform, knows when it was      *)
(* opened and how far it reaches, and its fee is nobody's open question:   *)
(* what a late expiry (tickFeeOffers) must not undo.                       *)
(***************************************************************************)
BoardIsWhole ==
  \A d \in Deliveries : row[d].status = "open" =>
    /\ row[d].mode = "platform"
    /\ row[d].opened # Null
    /\ row[d].radius \in Base .. MaxRadius
    /\ row[d].fee # "proposed"

(***************************************************************************)
(* A customer is reminded at most once of one proposal, however many runs  *)
(* of tickFeeOffers have read it before the reminder was written.          *)
(***************************************************************************)
RemindedOnce == \A d \in Deliveries : reminded[d] <= 1

(***************************************************************************)
(* Runs overlap, and one of an earlier opening may have widened this one   *)
(* too early; but no run of tickOpen, however old what it read, takes an   *)
(* open row's reach back below what its waiting time deserves.             *)
(***************************************************************************)
ReachNotTakenBack ==
  [][\A d \in Deliveries :
       (row[d].status = "open" /\ row'[d].status = "open"
          /\ row'[d].radius < row[d].radius)
         => row'[d].radius >= Want(row'[d].opened)]_vars

\* Runs that never stop failing are outside what the timer can promise
FailsForever == []<><<\E r \in Runs : RunFails(r)>>_vars

(***************************************************************************)
(* tickOpen: an open row reaches the largest radius unless it leaves the   *)
(* board, although runs overlap and write from old instances.              *)
(***************************************************************************)
EndsAtFullReach ==
  \A d \in Deliveries :
    \/ FailsForever
    \/ (row[d].status = "open" ~> row[d].status # "open" \/ row[d].radius = MaxRadius)

(***************************************************************************)
(* tickOpen: nobody takes an open row and the store comes to be warned.    *)
(***************************************************************************)
SilentIsWarned ==
  \A d \in Deliveries :
    \/ FailsForever
    \/ (row[d].status = "open" ~> row[d].status # "open" \/ row[d].warned)

(***************************************************************************)
(* tickFeeOffers: a proposed fee does not wait for the customer for ever,  *)
(* unless the store keeps renewing it or the delivery is cancelled.        *)
(***************************************************************************)
ProposalEnds ==
  \A d \in Deliveries :
    \/ FailsForever
    \/ []<><<ProposeToCustomer(d)>>_vars
    \/ (row[d].fee = "proposed"
          ~> row[d].fee # "proposed" \/ row[d].status = "cancelled")

=============================================================================
