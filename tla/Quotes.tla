-------------------------------- MODULE Quotes --------------------------------
(***************************************************************************)
(* Requests for quotation (orders/quotes.service.ts): every store of an    *)
(* order prices its lines in versions (send, issueSiteQuote), the customer *)
(* accepts what is ready and the rest moves to a follow-up order (accept), *)
(* refuses (reject) or asks again when an offer has expired                *)
(* (requestAgain); a job on every replica reminds slow stores and gives    *)
(* them up (sweepSections).                                                *)
(*                                                                         *)
(* Only send locks the order, and only while it writes.  Every handler     *)
(* checks what it read before its transaction, so each is two actions;     *)
(* send has a third, after its transaction, that marks and notifies.       *)
(*                                                                         *)
(* The lines of one store in one order are priced and moved together, so   *)
(* a store stands for its lines and price[s] for their prices.             *)
(***************************************************************************)
EXTENDS Naturals, FiniteSets

CONSTANTS
  Stores,     \* stores with lines in the first order
  Orders,     \* the first order and the follow-ups there may be
  First,      \* the first order
  Prices,     \* what a store may ask for its lines
  Procs,      \* requests that may be between two database accesses
  Replicas,   \* processes that run QuoteSectionJobs
  MaxVersion, \* bound on the versions of one store's offer
  MaxAge,     \* bound on the age of a section; 2 is all the code tells apart
  Null        \* a column that is null

VARIABLES
  order,   \* order[o]: the row of order o
  at,      \* at[s]: the order that the lines of store s are in
  price,   \* price[s]: "order-items".price, Null until the store gives one
  quotes,  \* the rows of order_quotes
  section, \* section[s]: the row of order_quote_sections; it is in order at[s]
  calls,   \* calls[p]: the handler p is in the middle of, and what it has read
  run,     \* run[r]: what the sweep of replica r has read
  told     \* history: told[s], reminders and timeouts pushed for section s

vars == <<order, at, price, quotes, section, calls, run, told>>

\* total: whether totalAmount is known; accepted: quote_accepted_version;
\* recent: whether createdAt is within three times SECTION_TIMEOUT_MS
OrderRow == [status   : {"none", "new", "quote_sent", "cancelled"},
             kind     : {"quote", "order"},
             total    : BOOLEAN,
             accepted : 0 .. MaxVersion,
             recent   : BOOLEAN]

Quote == [order : Orders, store : Stores, version : 1 .. MaxVersion,
          price : Prices, expired : BOOLEAN]

\* age: 0, 1 after SECTION_REMIND_MS, 2 after SECTION_TIMEOUT_MS
Section == [age : 0 .. 2, reminded : BOOLEAN, timed_out : BOOLEAN,
            ready : BOOLEAN, accepted : 0 .. MaxVersion]

Call == [step    : {"idle", "send", "mark", "issue", "accept", "reject", "again"},
         order   : Orders,
         store   : Stores \cup {Null},
         price   : Prices \cup {Null},
         was     : {"new", "quote_sent"},
         ready   : SUBSET Quote,
         pending : SUBSET Stores]

\* A row that is due, for what its columns and the time of the run call for
Row == [order : Orders, what : {"reminder", "timeout"}]
\* What sectionsOf found in an order: stores that have lines in it, ready ones
Seen == [here : SUBSET Stores, ready : SUBSET Stores]
Run == [due : [Stores -> Row \cup {Null}], seen : [Orders -> Seen \cup {Null}]]

ASSUME QuotesAssumption ==
  /\ First \in Orders /\ Stores # {}
  /\ Prices \subseteq Nat \ {0} /\ Prices # {} /\ MaxVersion \in Nat \ {0}
  /\ MaxAge \in 0 .. 2
  /\ Null \notin Prices \cup Orders \cup Section

TypeOK ==
  /\ order \in [Orders -> OrderRow]
  /\ at \in [Stores -> Orders]
  /\ price \in [Stores -> Prices \cup {Null}]
  /\ quotes \subseteq Quote
  /\ section \in [Stores -> Section \cup {Null}]
  /\ calls \in [Procs -> Call]
  /\ \A p \in Procs : calls[p].step = "send" => /\ calls[p].store \in Stores
                                               /\ calls[p].price \in Prices
  /\ run \in [Replicas -> Run]
  /\ told \in [Stores -> [reminder : 0 .. 2, timeout : 0 .. 2]]

IdleCall == [step |-> "idle", order |-> First, store |-> Null, price |-> Null,
             was |-> "new", ready |-> {}, pending |-> {}]
IdleRun == [due |-> [s \in Stores |-> Null], seen |-> [o \in Orders |-> Null]]

\* ensureSections: a new row; a row that is there keeps its requested_at
NewSection == [age |-> 0, reminded |-> FALSE, timed_out |-> FALSE,
               ready |-> FALSE, accepted |-> 0]

\* An order of kind quote whose lines are there, some priced by the site
Init ==
  /\ at = [s \in Stores |-> First]
  /\ price \in [Stores -> {Null, CHOOSE x \in Prices : TRUE}]
  /\ order = [o \in Orders |-> [status |-> IF o = First THEN "new" ELSE "none",
                                kind |-> "quote", total |-> FALSE, accepted |-> 0,
                                recent |-> TRUE]]
  /\ quotes = {}
  /\ section \in [Stores -> {Null, NewSection}]
  /\ calls = [p \in Procs |-> IdleCall]
  /\ run = [r \in Replicas |-> IdleRun]
  /\ told = [s \in Stores |-> [reminder |-> 0, timeout |-> 0]]

-----------------------------------------------------------------------------
At(p, step) == calls[p].step = step
Begin(p, call) == At(p, "idle") /\ calls' = [calls EXCEPT ![p] = call]
End(p) == calls' = [calls EXCEPT ![p] = IdleCall]
More(n) == IF n < 2 THEN n + 1 ELSE 2

StoresOf(o) == {s \in Stores : at[s] = o}
QuotesOf(o, s) == {q \in quotes : q.order = o /\ q.store = s}
Version(o, s) == IF QuotesOf(o, s) = {} THEN 0
                 ELSE CHOOSE v \in 1 .. MaxVersion :
                        /\ \E q \in QuotesOf(o, s) : q.version = v
                        /\ \A q \in QuotesOf(o, s) : q.version <= v
Latest(o, s) == CHOOSE q \in QuotesOf(o, s) : q.version = Version(o, s)

\* sectionsOf: the lines are priced and there is an offer with those prices
Ready(s) == section[s] # Null /\ price[s] # Null /\ QuotesOf(at[s], s) # {}

\* ensureSections for the lines of order o
Ensured(o) == [s \in Stores |-> IF at[s] = o /\ section[s] = Null THEN NewSection
                                                                  ELSE section[s]]

\* markReady in order o for stores S, those that sectionsOf found to be ready
MarkedOf(o, S) == [s \in Stores |-> IF at[s] = o /\ s \in S THEN [section[s] EXCEPT !.ready = TRUE]
                                                            ELSE section[s]]

\* recomputeTotal: a sum when there are lines and all of them are priced
Total(S, p) == S # {} /\ \A s \in S : p[s] # Null

Open(o) == order[o].kind = "quote" /\ order[o].status \in {"new", "quote_sent"}

-----------------------------------------------------------------------------
(* The stores and the site                                                 *)

\* send reads the order and its lines, and ensures the sections
SendBegin(p, s, x) ==
  LET o == at[s] IN
  /\ Open(o)
  /\ Begin(p, [IdleCall EXCEPT !.step = "send", !.order = o, !.store = s,
                               !.price = x, !.was = order[o].status])
  /\ section' = Ensured(o)
  /\ UNCHANGED <<order, at, price, quotes, run, told>>

\* The transaction of send locks the order: its version is the next one
Send(p) ==
  LET c == calls[p]
      version == Version(c.order, c.store) + 1
  IN /\ At(p, "send")
     /\ version <= MaxVersion
     /\ price' = [price EXCEPT ![c.store] = c.price]
     /\ quotes' = quotes \cup {[order |-> c.order, store |-> c.store, version |-> version,
                                price |-> c.price, expired |-> FALSE]}
     /\ order' = [order EXCEPT
          ![c.order].status = IF c.was # "quote_sent" THEN "quote_sent" ELSE @,
          ![c.order].total = Total(StoresOf(c.order), price')]
     /\ calls' = [calls EXCEPT ![p].step = "mark"]
     /\ UNCHANGED <<at, section, run, told>>

\* After the transaction the ready sections are marked; the notices are left out
SendMark(p) ==
  /\ At(p, "mark")
  /\ section' = MarkedOf(calls[p].order, {s \in Stores : Ready(s)})
  /\ End(p)
  /\ UNCHANGED <<order, at, price, quotes, run, told>>

\* issueSiteQuote: version 1 at the site's prices, when there is no offer yet
IssueBegin(p, o) ==
  /\ Open(o)
  /\ \A s \in Stores : QuotesOf(o, s) = {}
  /\ StoresOf(o) # {}
  /\ Begin(p, [IdleCall EXCEPT !.step = "issue", !.order = o, !.was = order[o].status,
                               !.ready = {[order |-> o, store |-> s, version |-> 1,
                                           price |-> price[s], expired |-> FALSE] :
                                          s \in {s \in StoresOf(o) : price[s] # Null}}])
  /\ UNCHANGED <<order, at, price, quotes, section, run, told>>

\* The index order_quotes_order_store_version: the transaction fails without it
Unique(Q) ==
  \A x \in Q : ~\E q \in quotes : q.order = x.order /\ q.store = x.store /\ q.version = x.version

Issue(p) ==
  LET c == calls[p] IN
  /\ At(p, "issue")
  /\ Unique(c.ready)
  /\ quotes' = quotes \cup c.ready
  /\ section' = Ensured(c.order)
  /\ order' = [order EXCEPT
       ![c.order].status = IF c.ready # {} /\ c.was # "quote_sent" THEN "quote_sent" ELSE @,
       ![c.order].total = Total(StoresOf(c.order), price)]
  /\ calls' = [calls EXCEPT ![p] = [IdleCall EXCEPT !.step = "mark", !.order = c.order,
                                                    !.was = "quote_sent"]]
  /\ UNCHANGED <<at, price, run, told>>

\* valid_until passes; nothing asks for the one of an earlier version
Expire(q) ==
  /\ q \in quotes /\ ~q.expired /\ q.version = Version(q.order, q.store)
  /\ quotes' = (quotes \ {q}) \cup {[q EXCEPT !.expired = TRUE]}
  /\ UNCHANGED <<order, at, price, section, calls, run, told>>

-----------------------------------------------------------------------------
(* The customer                                                            *)

\* accept, up to its transaction; what the customer saw are the latest versions
AcceptBegin(p, o) ==
  LET ready == {s \in StoresOf(o) : Ready(s)} IN
  /\ ready # {}
  /\ order[o].status = "quote_sent"
  /\ \A s \in ready : ~Latest(o, s).expired
  /\ Begin(p, [IdleCall EXCEPT !.step = "accept", !.order = o,
                               !.ready = {Latest(o, s) : s \in ready},
                               !.pending = StoresOf(o) \ ready])
  /\ section' = Ensured(o)
  /\ UNCHANGED <<order, at, price, quotes, run, told>>

\* Mutant (AcceptedHasDocument): the offers stay behind
MoveLinesOnly(o, S, c) ==
  /\ at' = [s \in Stores |-> IF s \in S /\ at[s] = o THEN c ELSE at[s]]
  /\ UNCHANGED quotes

\* The lines, the section and the offers of stores S move from order o to order c
Move(o, S, c) ==
  /\ at' = [s \in Stores |-> IF s \in S /\ at[s] = o THEN c ELSE at[s]]
  /\ quotes' = {IF q.order = o /\ q.store \in S THEN [q EXCEPT !.order = c] ELSE q : q \in quotes}

(***************************************************************************)
(* The transaction of accept: what has no price yet goes to a follow-up    *)
(* order, and the quotation becomes an order.                              *)
(***************************************************************************)
AcceptInto(p, S, child) ==
  LET c == calls[p]
      v == CHOOSE w \in 1 .. MaxVersion :
             (\E q \in c.ready : q.version = w) /\ \A q \in c.ready : q.version <= w
  IN /\ At(p, "accept")
     /\ IF S = {} THEN child = Null /\ UNCHANGED <<at, quotes>>
                  ELSE child # Null /\ order[child].status = "none" /\ Move(c.order, S, child)
     /\ order' = [o \in Orders |->
          IF o = c.order THEN [order[o] EXCEPT !.status = "new", !.kind = "order", !.accepted = v,
                                 !.total = Total({s \in Stores : at'[s] = o}, price)]
          ELSE IF o = child THEN [order[o] EXCEPT !.status = "new",
                                    !.total = Total({s \in Stores : at'[s] = o}, price)]
          ELSE order[o]]
     /\ section' = [s \in Stores |->
          IF at'[s] = c.order /\ \E q \in c.ready : q.store = s
            THEN [section[s] EXCEPT !.accepted = (CHOOSE q \in c.ready : q.store = s).version]
            ELSE section[s]]
     /\ End(p)
     /\ UNCHANGED <<price, run, told>>

\* Mutant (AcceptedIsPriced): everything stays in the accepted order
AcceptAll(p, child) == AcceptInto(p, {}, child)

Accept(p, child) == AcceptInto(p, calls[p].pending, child)

RejectBegin(p, o) ==
  /\ order[o].status = "quote_sent"
  /\ Begin(p, [IdleCall EXCEPT !.step = "reject", !.order = o])
  /\ UNCHANGED <<order, at, price, quotes, section, run, told>>

Reject(p) ==
  /\ At(p, "reject")
  /\ order' = [order EXCEPT ![calls[p].order].status = "cancelled"]
  /\ End(p)
  /\ UNCHANGED <<at, price, quotes, section, run, told>>

\* requestAgain: one of the latest offers has expired
AgainBegin(p, o) ==
  /\ order[o].status = "quote_sent"
  /\ \E s \in Stores : QuotesOf(o, s) # {} /\ Latest(o, s).expired
  /\ Begin(p, [IdleCall EXCEPT !.step = "again", !.order = o])
  /\ UNCHANGED <<order, at, price, quotes, section, run, told>>

Again(p) ==
  /\ At(p, "again")
  /\ order' = [order EXCEPT ![calls[p].order].status = "new"]
  /\ End(p)
  /\ UNCHANGED <<at, price, quotes, section, run, told>>

\* A call ends early: refused at a later check, or its process died
Drop(p) ==
  /\ ~At(p, "idle")
  /\ End(p)
  /\ UNCHANGED <<order, at, price, quotes, section, run, told>>

-----------------------------------------------------------------------------
(* The sweep                                                               *)

\* requested_at grows older
Age(s) ==
  /\ section[s] # Null /\ section[s].age < MaxAge
  /\ section' = [section EXCEPT ![s].age = @ + 1]
  /\ UNCHANGED <<order, at, price, quotes, calls, run, told>>

\* createdAt grows older, which only SweepInsert asks about
OrderAges(o) ==
  /\ order[o].recent
  /\ \E s \in Stores : at[s] = o /\ section[s] = Null
  /\ order' = [order EXCEPT ![o].recent = FALSE]
  /\ UNCHANGED <<at, price, quotes, section, calls, run, told>>

NeedsTimeout(s) == ~section[s].timed_out /\ section[s].age = 2
NeedsReminder(s) == ~section[s].reminded /\ section[s].age >= 1

\* Mutant (SlowStoreIsGivenUp): a section that was reminded is not read again
IsDueOnce(s) ==
  /\ section[s] # Null /\ Open(at[s])
  /\ section[s].accepted = 0 /\ ~section[s].ready
  /\ NeedsReminder(s)

IsDue(s) ==
  /\ section[s] # Null /\ Open(at[s])
  /\ section[s].accepted = 0 /\ ~section[s].ready
  /\ NeedsReminder(s) \/ NeedsTimeout(s)

\* The first statement of a sweep: recent requests that are open and have no
\* section get one, which is as old as the order
SweepInsert(s) ==
  /\ section[s] = Null /\ Open(at[s]) /\ order[at[s]].recent
  /\ \E a \in 0 .. MaxAge : section' = [section EXCEPT ![s] = [NewSection EXCEPT !.age = a]]
  /\ UNCHANGED <<order, at, price, quotes, calls, run, told>>

\* Then the rows that are due are read
SweepRead(r) ==
  /\ run[r] = IdleRun
  /\ \E s \in Stores : IsDue(s)
  /\ run' = [run EXCEPT ![r].due = [s \in Stores |->
       IF IsDue(s)
         THEN [order |-> at[s], what |-> IF NeedsTimeout(s) THEN "timeout" ELSE "reminder"]
         ELSE Null]]
  /\ UNCHANGED <<order, at, price, quotes, section, calls, told>>

\* The sections of the row's order, read once in a run (cache)
SeenIn(r, o) == IF run[r].seen[o] # Null THEN run[r].seen[o]
                ELSE [here |-> {s \in StoresOf(o) : section[s] # Null},
                      ready |-> {s \in StoresOf(o) : Ready(s)}]

\* Mutant (ToldOnce): what the row said is taken for granted
MarkTimeoutUnconditionally(s) ==
  /\ section' = [section EXCEPT ![s].timed_out = TRUE, ![s].reminded = TRUE]
  /\ told' = [told EXCEPT ![s].timeout = More(@)]

\* UPDATE ... WHERE timed_out_at IS NULL RETURNING id, and the push
MarkTimeout(s) ==
  IF section[s].timed_out THEN UNCHANGED <<section, told>>
  ELSE /\ section' = [section EXCEPT ![s].timed_out = TRUE, ![s].reminded = TRUE]
       /\ told' = [told EXCEPT ![s].timeout = More(@)]

MarkReminder(s) ==
  IF section[s].reminded THEN UNCHANGED <<section, told>>
  ELSE /\ section' = [section EXCEPT ![s].reminded = TRUE]
       /\ told' = [told EXCEPT ![s].reminder = More(@)]

\* One row; what the run has read is kept for its later rows of the same order
SweepRow(r, s) ==
  LET row  == run[r].due[s]
      seen == SeenIn(r, row.order)
      rest == [run[r].due EXCEPT ![s] = Null]
  IN /\ row # Null
     /\ IF s \notin seen.here THEN UNCHANGED <<section, told>>
        ELSE IF s \in seen.ready
          THEN section' = MarkedOf(row.order, seen.ready) /\ UNCHANGED told
        ELSE IF row.what = "timeout" THEN MarkTimeout(s)
        ELSE MarkReminder(s)
     /\ run' = [run EXCEPT ![r] =
          [due |-> rest,
           seen |-> [o \in Orders |->
             IF \A z \in Stores : rest[z] = Null \/ rest[z].order # o THEN Null
             ELSE IF o = row.order THEN seen ELSE run[r].seen[o]]]]
     /\ UNCHANGED <<order, at, price, quotes, calls>>

\* The process of a replica ends in the middle of a sweep
SweepDies(r) ==
  /\ run[r] # IdleRun
  /\ run' = [run EXCEPT ![r] = IdleRun]
  /\ UNCHANGED <<order, at, price, quotes, section, calls, told>>

-----------------------------------------------------------------------------
Request(p) ==
  \/ \E s \in Stores, x \in Prices : SendBegin(p, s, x)
  \/ \E o \in Orders : IssueBegin(p, o) \/ AcceptBegin(p, o) \/ RejectBegin(p, o)
                       \/ AgainBegin(p, o)

Answer(p) ==
  \/ Send(p) \/ SendMark(p) \/ Issue(p) \/ Reject(p) \/ Again(p) \/ Drop(p)
  \/ \E child \in Orders \cup {Null} : Accept(p, child)

Sweep(r) == SweepRead(r) \/ \E s \in Stores : SweepRow(r, s)

Next ==
  \/ \E p \in Procs : Request(p) \/ Answer(p)
  \/ \E q \in quotes : Expire(q)
  \/ \E s \in Stores : Age(s) \/ SweepInsert(s)
  \/ \E o \in Orders : OrderAges(o)
  \/ \E r \in Replicas : Sweep(r) \/ SweepDies(r)

Spec == Init /\ [][Next]_vars

(***************************************************************************)
(* Time passes; every replica's timer sweeps again and again, and a sweep  *)
(* comes to each row it read unless its process ends, which it does not    *)
(* always do.                                                              *)
(***************************************************************************)
FairSpec ==
  /\ Spec
  /\ \A s \in Stores : WF_vars(Age(s)) /\ WF_vars(SweepInsert(s))
  /\ \A r \in Replicas : SF_vars(SweepRead(r)) /\ \A s \in Stores : SF_vars(SweepRow(r, s))

-----------------------------------------------------------------------------
(***************************************************************************)
(* An accepted order has lines, a price for every one of them, and so a    *)
(* total, whatever was sent, accepted and moved to follow-ups meanwhile.   *)
(***************************************************************************)
AcceptedIsPriced ==
  \A o \in Orders : order[o].kind = "order" =>
    order[o].total /\ Total(StoresOf(o), price)

(***************************************************************************)
(* The version of the offer that was accepted is with the lines it is for, *)
(* also after a second acceptance under way has moved them.                *)
(***************************************************************************)
AcceptedHasDocument ==
  \A s \in Stores : section[s] # Null /\ section[s].accepted # 0 =>
    \E q \in quotes : /\ q.order = at[s] /\ q.store = s
                      /\ q.version = section[s].accepted

(***************************************************************************)
(* A store is reminded once and given up once, although every replica      *)
(* sweeps and a sweep may die half way.                                    *)
(***************************************************************************)
ToldOnce == \A s \in Stores : told[s].reminder <= 1 /\ told[s].timeout <= 1

(***************************************************************************)
(* A store that does not price an open request is given up, and the buyer  *)
(* told: the safety net finds lines without a section, and neither other   *)
(* handlers nor dying sweeps keep a section from its deadline.  Lines that *)
(* have no section yet when their order is three timeouts old are the      *)
(* exception: the safety net does not look at them any more.               *)
(***************************************************************************)
SlowStoreIsGivenUp ==
  \A s \in Stores :
    Open(at[s]) /\ ~Ready(s)
      ~> \/ Ready(s) \/ ~Open(at[s])
         \/ section[s] # Null /\ section[s].timed_out
         \/ section[s] = Null /\ ~order[at[s]].recent

=============================================================================
