---------------------------- MODULE Quotes_proofs ----------------------------
(***************************************************************************)
(* Theorems about quotations, for any stores, orders, prices, requests and *)
(* replicas.                                                               *)
(*                                                                         *)
(* accept works from what it read before its transaction, so what makes it *)
(* right is AcceptOK: what was ready then is ready still, with the same    *)
(* document, unless another acceptance has moved it; and one line at least *)
(* is in no acceptance's way to a follow-up order.                         *)
(***************************************************************************)
EXTENDS Quotes, WellFoundedInduction, TLAPS

HasDoc(o, s, v) == \E q \in quotes : q.order = o /\ q.store = s /\ q.version = v

\* Lines are in an order there is, and a new row is a request
OrdersOK ==
  /\ \A s \in Stores : order[at[s]].status # "none"
  /\ \A o \in Orders : order[o].status = "none" => order[o].kind = "quote"

Accepting(p, o) == At(p, "accept") /\ calls[p].order = o

\* Lines of order o that no acceptance under way will move
Stays(s, o) ==
  at[s] = o /\ \A p \in Procs : Accepting(p, o) => s \notin calls[p].pending

AcceptOK(p, o) ==
  Accepting(p, o) =>
    /\ order[o].status # "none" /\ calls[p].ready # {}
    /\ \A s \in Stores : at[s] = o /\ s \notin calls[p].pending => Ready(s)
    /\ \A q \in calls[p].ready :
         section[q.store] # Null /\ (at[q.store] = o => HasDoc(o, q.store, q.version))
    /\ \E s \in Stores : Stays(s, o)

\* A push goes with the column that says so
ToldOK(s) ==
  /\ told[s].reminder <= 1 /\ told[s].timeout <= 1
  /\ section[s] = Null => told[s].reminder = 0 /\ told[s].timeout = 0
  /\ section[s] # Null /\ ~section[s].reminded => told[s].reminder = 0
  /\ section[s] # Null /\ ~section[s].timed_out => told[s].timeout = 0

\* What a sweep remembers of an order are sections there are
RunOK(r) ==
  \A o \in Orders : run[r].seen[o] # Null =>
    \A s \in run[r].seen[o].here \cup run[r].seen[o].ready : section[s] # Null

Acceptances == \A p \in Procs, o \in Orders : AcceptOK(p, o)

IInv ==
  /\ TypeOK /\ OrdersOK /\ AcceptedIsPriced /\ AcceptedHasDocument /\ Acceptances
  /\ \A s \in Stores : ToldOK(s)
  /\ \A r \in Replicas : RunOK(r)

-----------------------------------------------------------------------------
(* Versions                                                                *)

\* A set of numbers has a least element
LEMMA LeastElement ==
  ASSUME NEW T, T \subseteq Nat, T # {}
  PROVE  \E x \in T : \A y \in T : x <= y
<1> DEFINE R == {ss \in Nat \X Nat : ss[1] < ss[2]}
<1>1. IsWellFoundedOn(R, Nat)
  BY NatLessThanWellFounded DEF OpToRel
<1> HIDE DEF R
<1>2. PICK x \in T : \A y \in T : ~ (<<y, x>> \in R)
  BY <1>1, WFMin
<1>3. ASSUME NEW y \in T, ~(x <= y) PROVE FALSE
  <2>1. <<y, x>> \in Nat \X Nat /\ y < x
    BY <1>3
  <2>2. <<y, x>> \in R
    BY <2>1 DEF R
  <2>3. QED
    BY <2>2, <1>2
<1>4. QED
  BY <1>3

\* and a greatest one if it is bounded: the least of its bounds
LEMMA GreatestElement ==
  ASSUME NEW N \in Nat, NEW T, T \subseteq 0 .. N, T # {}
  PROVE  \E x \in T : \A y \in T : y <= x
<1> DEFINE U == {n \in Nat : \A y \in T : y <= n}
<1>1. N \in U
  OBVIOUS
<1>2. PICK n \in U : \A m \in U : n <= m
  <2> HIDE DEF U
  <2>1. U \subseteq Nat
    BY DEF U
  <2>2. QED
    BY <1>1, <2>1, LeastElement
<1>3. CASE n \in T
  BY <1>2, <1>3
<1>4. CASE n \notin T
  <2>1. n # 0
    <3>1. PICK y \in T : y <= n
      BY <1>2
    <3>2. QED
      BY <1>4, <3>1
  <2>2. n - 1 \in U
    BY <1>2, <1>4, <2>1
  <2>3. QED
    BY <1>2, <2>2
<1>5. QED
  BY <1>3, <1>4

\* The version to be counted on from, and the offer that has it
LEMMA LatestIs ==
  ASSUME TypeOK, NEW o, NEW s, QuotesOf(o, s) # {}
  PROVE  Version(o, s) \in 1 .. MaxVersion /\ Latest(o, s) \in QuotesOf(o, s)
<1> DEFINE T == {q.version : q \in QuotesOf(o, s)}
<1>1. T \subseteq 1 .. MaxVersion /\ T \subseteq 0 .. MaxVersion /\ T # {} /\ MaxVersion \in Nat
  BY QuotesAssumption DEF TypeOK, QuotesOf, Quote
<1>2. PICK v \in T : \A w \in T : w <= v
  <2> HIDE DEF T
  <2>1. QED
    BY <1>1, GreatestElement
<1>3. /\ v \in 1 .. MaxVersion
      /\ \E q \in QuotesOf(o, s) : q.version = v
      /\ \A q \in QuotesOf(o, s) : q.version <= v
  BY <1>1, <1>2
<1>4. /\ Version(o, s) \in 1 .. MaxVersion
      /\ \E q \in QuotesOf(o, s) : q.version = Version(o, s)
  BY <1>3 DEF Version
<1>5. QED
  BY <1>4 DEF Latest

LEMMA VersionType ==
  ASSUME TypeOK, NEW o, NEW s
  PROVE  Version(o, s) \in 0 .. MaxVersion
<1>1. CASE QuotesOf(o, s) = {}
  BY <1>1, QuotesAssumption DEF Version
<1>2. CASE QuotesOf(o, s) # {}
  BY <1>2, LatestIs, QuotesAssumption
<1>3. QED
  BY <1>1, <1>2

\* The greatest version among offers that were accepted together
LEMMA GreatestOf ==
  ASSUME NEW Q \in SUBSET Quote, Q # {}
  PROVE  (CHOOSE w \in 1 .. MaxVersion :
            (\E q \in Q : q.version = w) /\ \A q \in Q : q.version <= w) \in 0 .. MaxVersion
<1> DEFINE T == {q.version : q \in Q}
<1>1. T \subseteq 1 .. MaxVersion /\ T \subseteq 0 .. MaxVersion /\ T # {} /\ MaxVersion \in Nat
  BY QuotesAssumption DEF Quote
<1>2. PICK v \in T : \A w \in T : w <= v
  <2> HIDE DEF T
  <2>1. QED
    BY <1>1, GreatestElement
<1>3. QED
  BY <1>1, <1>2

-----------------------------------------------------------------------------
(* What steps keep                                                         *)

(***************************************************************************)
(* Prices, sections and orders stay; lines move only to a new order, and   *)
(* only by an acceptance that found them unpriced; and wherever they are,  *)
(* their documents are with them.                                          *)
(***************************************************************************)
Grows ==
  /\ \A s \in Stores :
       /\ price[s] # Null => price'[s] # Null
       /\ section[s] # Null => section'[s] # Null
       /\ \/ at'[s] = at[s]
          \/ /\ order[at'[s]].status = "none" /\ order'[at'[s]].status # "none"
             /\ \E p \in Procs : Accepting(p, at[s]) /\ s \in calls[p].pending
       /\ \A v \in 1 .. MaxVersion : HasDoc(at[s], s, v) => HasDoc(at[s], s, v)'
  /\ \A o \in Orders : order'[o].status = "none" =>
       order[o].status = "none" /\ order'[o].kind = order[o].kind

LEMMA OrdersKept ==
  ASSUME IInv, TypeOK', Grows
  PROVE  OrdersOK'
<1>1. ASSUME NEW s \in Stores PROVE order'[at'[s]].status # "none"
  <2>1. at[s] \in Orders /\ order[at[s]].status # "none"
    BY DEF IInv, TypeOK, OrdersOK
  <2>2. QED
    BY <2>1 DEF Grows
<1>2. ASSUME NEW o \in Orders, order'[o].status = "none" PROVE order'[o].kind = "quote"
  BY <1>2 DEF IInv, OrdersOK, Grows
<1>3. QED
  BY <1>1, <1>2 DEF OrdersOK

LEMMA AcceptancesKept ==
  ASSUME IInv, Grows, \A p \in Procs : At(p, "accept")' => calls'[p] = calls[p]
  PROVE  Acceptances'
<1> SUFFICES ASSUME NEW p \in Procs, NEW o \in Orders, Accepting(p, o)'
             PROVE  AcceptOK(p, o)'
  BY DEF Acceptances, AcceptOK
<1>1. calls'[p] = calls[p] /\ Accepting(p, o)
  BY DEF Accepting, At
<1>2. AcceptOK(p, o)
  BY DEF IInv, Acceptances
<1>3. order'[o].status # "none" /\ calls'[p].ready # {}
  BY <1>1, <1>2 DEF AcceptOK, Grows
<1>4. \A s \in Stores : at'[s] = o => at[s] = o
  BY <1>1, <1>2 DEF AcceptOK, Grows
<1>5. ASSUME NEW s \in Stores, at'[s] = o, s \notin calls'[p].pending PROVE Ready(s)'
  <2>1. Ready(s)
    BY <1>1, <1>2, <1>4, <1>5 DEF AcceptOK
  <2>2. PICK v \in 1 .. MaxVersion : HasDoc(at[s], s, v)
    BY <2>1 DEF Ready, QuotesOf, HasDoc, IInv, TypeOK, Quote
  <2>3. HasDoc(at[s], s, v)' /\ price'[s] # Null /\ section'[s] # Null
    BY <2>1, <2>2 DEF Grows, Ready
  <2>4. QED
    BY <2>3 DEF Ready, QuotesOf, HasDoc
<1>6. ASSUME NEW q \in calls'[p].ready
      PROVE  section'[q.store] # Null /\ (at'[q.store] = o => HasDoc(o, q.store, q.version)')
  <2>1. q.store \in Stores /\ q.version \in 1 .. MaxVersion
    BY <1>1 DEF IInv, TypeOK, Call, Quote
  <2>2. section[q.store] # Null /\ (at[q.store] = o => HasDoc(o, q.store, q.version))
    BY <1>1, <1>2, <1>6 DEF AcceptOK
  <2>3. ASSUME at'[q.store] = o PROVE HasDoc(o, q.store, q.version)'
    <3>1. at[q.store] = o
      BY <1>4, <2>1, <2>3
    <3>2. HasDoc(at[q.store], q.store, q.version)'
      BY <2>1, <2>2, <3>1 DEF Grows
    <3>3. QED
      BY <2>3, <3>2 DEF HasDoc
  <2>4. QED
    BY <2>1, <2>2, <2>3 DEF Grows
<1>7. \E s \in Stores : Stays(s, o)'
  <2>1. PICK s \in Stores : Stays(s, o)
    BY <1>1, <1>2 DEF AcceptOK
  <2>2. at'[s] = o
    BY <2>1 DEF Grows, Stays
  <2>3. \A r \in Procs : Accepting(r, o)' => calls'[r] = calls[r] /\ Accepting(r, o)
    BY DEF Accepting, At
  <2>4. QED
    BY <2>1, <2>2, <2>3 DEF Stays
<1>8. QED
  BY <1>3, <1>5, <1>6, <1>7 DEF AcceptOK

\* The document of an acceptance is an old one that has moved along, or is there
LEMMA DocumentsKept ==
  ASSUME IInv, TypeOK', Grows,
         \A s \in Stores, v \in 1 .. MaxVersion :
           section'[s] # Null /\ section'[s].accepted = v =>
             (section[s] # Null /\ section[s].accepted = v) \/ HasDoc(at[s], s, v)'
  PROVE  AcceptedHasDocument'
<1> SUFFICES ASSUME NEW s \in Stores, section'[s] # Null, section'[s].accepted # 0
             PROVE  \E q \in quotes' : /\ q.order = at'[s] /\ q.store = s
                                       /\ q.version = section'[s].accepted
  BY DEF AcceptedHasDocument
<1>1. PICK v \in 1 .. MaxVersion : section'[s].accepted = v
  BY QuotesAssumption DEF TypeOK, Section
<1>2. CASE section[s] # Null /\ section[s].accepted = v
  <2>1. HasDoc(at[s], s, v)
    BY <1>2 DEF IInv, AcceptedHasDocument, HasDoc
  <2>2. HasDoc(at[s], s, v)'
    BY <2>1 DEF Grows
  <2>3. QED
    BY <1>1, <2>2 DEF HasDoc
<1>3. CASE HasDoc(at[s], s, v)'
  BY <1>1, <1>3 DEF HasDoc
<1>4. QED
  BY <1>1, <1>2, <1>3

\* An order that was accepted keeps a line, and every line it keeps has a price
LEMMA PricesKept ==
  ASSUME IInv, Grows, NEW o \in Orders, order[o].kind = "order"
  PROVE  Total(StoresOf(o), price)'
<1>1. order[o].status # "none" /\ Total(StoresOf(o), price)
  BY DEF IInv, OrdersOK, AcceptedIsPriced
<1>2. \A s \in Stores : at'[s] = o => at[s] = o /\ price'[s] # Null
  BY <1>1 DEF Grows, Total, StoresOf
<1>3. PICK s \in Stores : at'[s] = o
  <2>1. CASE \E p \in Procs : Accepting(p, o)
    <3>1. PICK s \in Stores : Stays(s, o)
      BY <2>1 DEF IInv, Acceptances, AcceptOK
    <3>2. QED
      BY <3>1 DEF Grows, Stays
  <2>2. CASE ~\E p \in Procs : Accepting(p, o)
    BY <1>1, <2>2 DEF Grows, Total, StoresOf
  <2>3. QED
    BY <2>1, <2>2
<1>4. QED
  BY <1>2, <1>3 DEF Total, StoresOf

LEMMA PricedKept ==
  ASSUME IInv, Grows,
         \A o \in Orders : order'[o].kind = "order" =>
           \/ /\ order[o].kind = "order"
              /\ order'[o].total = order[o].total \/ order'[o].total = Total(StoresOf(o), price)'
           \/ order'[o].total /\ Total(StoresOf(o), price)'
  PROVE  AcceptedIsPriced'
<1> SUFFICES ASSUME NEW o \in Orders, order[o].kind = "order", order'[o].kind = "order",
                    order'[o].total = order[o].total \/ order'[o].total = Total(StoresOf(o), price)'
             PROVE  order'[o].total /\ Total(StoresOf(o), price)'
  BY DEF AcceptedIsPriced
<1>1. Total(StoresOf(o), price)'
  BY PricesKept
<1>2. order[o].total
  BY DEF IInv, AcceptedIsPriced
<1>3. QED
  BY <1>1, <1>2

-----------------------------------------------------------------------------
(* Sections                                                                *)

\* A row that nothing has happened to yet
Untouched(x) == x \in Section /\ ~x.reminded /\ ~x.timed_out /\ x.accepted = 0

\* The row stays, is inserted, or changes columns no property depends on
SameSection(s) ==
  \/ section'[s] = section[s]
  \/ section[s] = Null /\ Untouched(section'[s])
  \/ /\ section[s] # Null /\ section'[s] \in Section
     /\ section'[s].accepted = section[s].accepted
     /\ section'[s].reminded = section[s].reminded
     /\ section'[s].timed_out = section[s].timed_out

LEMMA NewSectionType ==
  /\ NewSection \in Section /\ Null \notin Section
  /\ \A a \in 0 .. 2 : Untouched([NewSection EXCEPT !.age = a])
  /\ Untouched(NewSection)
<1>1. NewSection \in Section /\ Null \notin Section
  BY QuotesAssumption DEF NewSection, Section
<1>2. ~NewSection.reminded /\ ~NewSection.timed_out /\ NewSection.accepted = 0
  BY DEF NewSection
<1>3. \A a \in 0 .. 2 : Untouched([NewSection EXCEPT !.age = a])
  BY <1>1, <1>2 DEF Section, Untouched
<1>4. QED
  BY <1>1, <1>2, <1>3 DEF Untouched

LEMMA SectionsKept ==
  ASSUME IInv, \A s \in Stores : SameSection(s), UNCHANGED told,
         section' = [s \in Stores |-> section'[s]]
  PROVE  /\ section' \in [Stores -> Section \cup {Null}]
         /\ \A s \in Stores : ToldOK(s)'
         /\ \A s \in Stores : section[s] # Null => section'[s] # Null
         /\ \A s \in Stores, v \in 1 .. MaxVersion :
              section'[s] # Null /\ section'[s].accepted = v =>
                section[s] # Null /\ section[s].accepted = v
<1>1. ASSUME NEW s \in Stores
      PROVE  /\ section'[s] \in Section \cup {Null}
             /\ section[s] # Null => section'[s] # Null
             /\ ToldOK(s)'
  <2>1. section[s] \in Section \cup {Null} /\ ToldOK(s) /\ SameSection(s) /\ told'[s] = told[s]
    BY DEF IInv, TypeOK
  <2>2. CASE section'[s] = section[s]
    BY <2>1, <2>2 DEF ToldOK
  <2>3. CASE section[s] = Null /\ Untouched(section'[s])
    BY <2>1, <2>3, NewSectionType DEF ToldOK, Untouched
  <2>4. CASE /\ section[s] # Null /\ section'[s] \in Section
             /\ section'[s].reminded = section[s].reminded
             /\ section'[s].timed_out = section[s].timed_out
    BY <2>1, <2>4, NewSectionType DEF ToldOK
  <2>5. QED
    BY <2>1, <2>2, <2>3, <2>4 DEF SameSection
<1>2. ASSUME NEW s \in Stores, NEW v \in 1 .. MaxVersion,
             section'[s] # Null, section'[s].accepted = v
      PROVE  section[s] # Null /\ section[s].accepted = v
  BY <1>2 DEF SameSection, Untouched
<1>3. QED
  BY <1>1, <1>2

LEMMA EnsuredSame ==
  ASSUME IInv, NEW o, section' = Ensured(o)
  PROVE  (\A s \in Stores : SameSection(s)) /\ section' = [s \in Stores |-> section'[s]]
  BY NewSectionType DEF Ensured, SameSection

LEMMA MarkedSame ==
  ASSUME IInv, NEW o, NEW S, \A s \in S \cap Stores : section[s] # Null,
         section' = MarkedOf(o, S)
  PROVE  (\A s \in Stores : SameSection(s)) /\ section' = [s \in Stores |-> section'[s]]
<1>1. ASSUME NEW s \in Stores PROVE SameSection(s)
  <2>1. section[s] \in Section \cup {Null}
    BY DEF IInv, TypeOK
  <2>2. CASE at[s] = o /\ s \in S
    <3>1. section[s] \in Section /\ section'[s] = [section[s] EXCEPT !.ready = TRUE]
      BY <2>1, <2>2 DEF MarkedOf
    <3>2. QED
      BY <3>1, NewSectionType DEF SameSection, Section
  <2>3. CASE ~(at[s] = o /\ s \in S)
    BY <2>3 DEF MarkedOf, SameSection
  <2>4. QED
    BY <2>2, <2>3
<1>2. QED
  BY <1>1 DEF MarkedOf

LEMMA RunsKept ==
  ASSUME IInv, \A s \in Stores : section[s] # Null => section'[s] # Null,
         \A r \in Replicas, o \in Orders :
           run'[r].seen[o] # Null => run'[r].seen[o] = run[r].seen[o],
         TypeOK'
  PROVE  \A r \in Replicas : RunOK(r)'
<1> SUFFICES ASSUME NEW r \in Replicas, NEW o \in Orders, run'[r].seen[o] # Null,
                    NEW s \in run'[r].seen[o].here \cup run'[r].seen[o].ready
             PROVE  section'[s] # Null
  BY DEF RunOK
<1>1. s \in Stores
  BY DEF TypeOK, Run, Seen
<1>2. section[s] # Null
  BY DEF IInv, RunOK
<1>3. QED
  BY <1>1, <1>2

-----------------------------------------------------------------------------
(* Steps that neither read nor write an acceptance                         *)

Frame ==
  /\ at' = at
  /\ \A s \in Stores : price[s] # Null => price'[s] # Null
  /\ \A o \in Orders, s \in Stores, v \in 1 .. MaxVersion : HasDoc(o, s, v) => HasDoc(o, s, v)'
  /\ \A o \in Orders :
       \/ order'[o] = order[o]
       \/ /\ order'[o].status # "none" \/ order'[o].status = order[o].status
          /\ order'[o].kind = order[o].kind
          /\ order'[o].total = order[o].total \/ order'[o].total = Total(StoresOf(o), price)'
  /\ \A p \in Procs : At(p, "accept")' => calls'[p] = calls[p]

LEMMA FrameGrows ==
  ASSUME IInv, Frame, \A s \in Stores : section[s] # Null => section'[s] # Null
  PROVE  Grows
<1>1. ASSUME NEW s \in Stores, NEW v \in 1 .. MaxVersion, HasDoc(at[s], s, v)
      PROVE  HasDoc(at[s], s, v)'
  <2>1. at[s] \in Orders
    BY DEF IInv, TypeOK
  <2>2. PICK o \in Orders : o = at[s] /\ HasDoc(o, s, v)
    BY <1>1, <2>1
  <2>3. HasDoc(o, s, v)'
    BY <2>2 DEF Frame
  <2>4. QED
    BY <2>2, <2>3 DEF HasDoc, Frame
<1>2. QED
  BY <1>1 DEF Grows, Frame

LEMMA FrameOK ==
  ASSUME IInv, TypeOK', Frame,
         \A s \in Stores : section[s] # Null => section'[s] # Null,
         \A s \in Stores, v \in 1 .. MaxVersion :
           section'[s] # Null /\ section'[s].accepted = v =>
             section[s] # Null /\ section[s].accepted = v,
         \A s \in Stores : ToldOK(s)',
         \A r \in Replicas : RunOK(r)'
  PROVE  IInv'
<1>1. Grows
  BY FrameGrows
<1>2. OrdersOK'
  BY <1>1, OrdersKept
<1>3. AcceptedHasDocument'
  BY <1>1, DocumentsKept
<1>4. Acceptances'
  BY <1>1, AcceptancesKept DEF Frame
<1>5. AcceptedIsPriced'
  <2>1. \A o \in Orders : order'[o].kind = "order" =>
          /\ order[o].kind = "order"
          /\ order'[o].total = order[o].total \/ order'[o].total = Total(StoresOf(o), price)'
    BY DEF Frame
  <2>2. QED
    BY <1>1, <2>1, PricedKept
<1>6. QED
  BY <1>2, <1>3, <1>4, <1>5 DEF IInv

\* The same, for a step that leaves told and what sweeps have read
LEMMA PlainOK ==
  ASSUME IInv, TypeOK', Frame, UNCHANGED <<run, told>>,
         \A s \in Stores : SameSection(s), section' = [s \in Stores |-> section'[s]]
  PROVE  IInv'
  BY SectionsKept, RunsKept, FrameOK

LEMMA IdleType == IdleCall \in Call /\ IdleCall.step = "idle"
  BY QuotesAssumption DEF IdleCall, Call

CallsTyped ==
  /\ calls \in [Procs -> Call]
  /\ \A p \in Procs : calls[p].step = "send" => /\ calls[p].store \in Stores
                                               /\ calls[p].price \in Prices

LEMMA CallSet ==
  ASSUME TypeOK, NEW p \in Procs, NEW c \in Call, c.step # "accept",
         c.step = "send" => c.store \in Stores /\ c.price \in Prices,
         calls' = [calls EXCEPT ![p] = c]
  PROVE  /\ CallsTyped'
         /\ \A q \in Procs : At(q, "accept")' => calls'[q] = calls[q]
  BY DEF TypeOK, At, CallsTyped

LEMMA CallEnded ==
  ASSUME TypeOK, NEW p \in Procs, End(p)
  PROVE  /\ CallsTyped'
         /\ \A q \in Procs : At(q, "accept")' => calls'[q] = calls[q]
  BY IdleType, CallSet DEF End

\* Only a section is written, and the handler goes on or ends
LEMMA SectionStep ==
  ASSUME IInv, UNCHANGED <<order, at, price, quotes, run, told>>,
         CallsTyped',
         \A p \in Procs : At(p, "accept")' => calls'[p] = calls[p],
         \A s \in Stores : SameSection(s), section' = [s \in Stores |-> section'[s]]
  PROVE  IInv'
<1>1. TypeOK'
  BY SectionsKept DEF IInv, TypeOK, CallsTyped
<1>2. Frame
  BY DEF Frame, HasDoc
<1>3. QED
  BY <1>1, <1>2, PlainOK

LEMMA SectionStays ==
  ASSUME IInv, UNCHANGED section
  PROVE  (\A s \in Stores : SameSection(s)) /\ section' = [s \in Stores |-> section'[s]]
  BY DEF SameSection, IInv, TypeOK

LEMMA SendBeginOK ==
  ASSUME IInv, NEW p \in Procs, NEW s \in Stores, NEW x \in Prices, SendBegin(p, s, x)
  PROVE  IInv'
<1> DEFINE c == [IdleCall EXCEPT !.step = "send", !.order = at[s], !.store = s,
                                 !.price = x, !.was = order[at[s]].status]
<1>1. c \in Call /\ c.step = "send" /\ c.store = s /\ c.price = x
  BY IdleType DEF SendBegin, Open, IInv, TypeOK, Call
<1>2. calls' = [calls EXCEPT ![p] = c] /\ section' = Ensured(at[s])
      /\ UNCHANGED <<order, at, price, quotes, run, told>>
  BY DEF SendBegin, Begin
<1> HIDE DEF c
<1>3. QED
  BY <1>1, <1>2, CallSet, EnsuredSame, SectionStep DEF IInv

LEMMA SendOK ==
  ASSUME IInv, NEW p \in Procs, Send(p)
  PROVE  IInv'
<1> DEFINE c == calls[p]
           version == Version(c.order, c.store) + 1
           new == [order |-> c.order, store |-> c.store, version |-> version,
                   price |-> c.price, expired |-> FALSE]
<1>1. c \in Call /\ c.order \in Orders /\ c.store \in Stores /\ c.price \in Prices
  BY DEF IInv, TypeOK, Call, Send, At
<1>2. version \in 1 .. MaxVersion
  BY VersionType, QuotesAssumption DEF IInv, Send
<1>3. new \in Quote
  BY <1>1, <1>2 DEF Quote
<1>4. /\ price' = [price EXCEPT ![c.store] = c.price] /\ quotes' = quotes \cup {new}
      /\ order' = [order EXCEPT
           ![c.order].status = IF c.was # "quote_sent" THEN "quote_sent" ELSE @,
           ![c.order].total = Total(StoresOf(c.order), price')]
      /\ calls' = [calls EXCEPT ![p].step = "mark"]
      /\ UNCHANGED <<at, section, run, told>>
  BY DEF Send
<1>5. CallsTyped' /\ \A q \in Procs : At(q, "accept")' => calls'[q] = calls[q]
  <2>1. calls' = [calls EXCEPT ![p] = [c EXCEPT !.step = "mark"]]
    BY <1>4
  <2>2. [c EXCEPT !.step = "mark"] \in Call /\ [c EXCEPT !.step = "mark"].step = "mark"
    BY <1>1 DEF Call
  <2>3. QED
    BY <2>1, <2>2, CallSet DEF IInv
<1>6. order \in [Orders -> OrderRow] /\ Total(StoresOf(c.order), price') \in BOOLEAN
  BY DEF IInv, TypeOK, Total
<1> HIDE DEF version, new
<1>7. order' \in [Orders -> OrderRow] /\ price' \in [Stores -> Prices \cup {Null}]
  <2> DEFINE to == [order[c.order] EXCEPT
                      !.status = IF c.was # "quote_sent" THEN "quote_sent" ELSE @,
                      !.total = Total(StoresOf(c.order), price')]
  <2>1. to \in OrderRow
    <3>1. ASSUME NEW total \in BOOLEAN, NEW status \in {"quote_sent", order[c.order].status}
          PROVE  [order[c.order] EXCEPT !.status = status, !.total = total] \in OrderRow
      BY <1>1, <1>6 DEF OrderRow
    <3>2. QED
      BY <1>6, <3>1, Zenon
  <2>2. order' = [order EXCEPT ![c.order] = to]
    BY <1>1, <1>4, <1>6 DEF OrderRow
  <2> HIDE DEF to
  <2>3. QED
    BY <1>1, <1>4, <1>6, <2>1, <2>2 DEF IInv, TypeOK
<1>8. TypeOK'
  BY <1>3, <1>4, <1>5, <1>7 DEF IInv, TypeOK, CallsTyped
<1>9. Frame
  <2>1. \A s \in Stores : price[s] # Null => price'[s] # Null
    BY <1>1, <1>4, QuotesAssumption DEF IInv, TypeOK
  <2>2. ASSUME NEW o \in Orders
        PROVE  \/ order'[o] = order[o]
               \/ /\ order'[o].kind = order[o].kind
                  /\ order'[o].total = Total(StoresOf(o), price)'
                  /\ order'[o].status # "none" \/ order'[o].status = order[o].status
    <3>1. CASE o = c.order
      <4>1. /\ order'[o].kind = order[o].kind
            /\ order'[o].total = Total(StoresOf(o), price')
            /\ order'[o].status \in {"quote_sent", order[o].status}
        BY <1>1, <1>4, <1>6, <3>1 DEF OrderRow
      <4>2. QED
        <5>1. Total(StoresOf(o), price') = Total(StoresOf(o), price)'
          BY <1>4 DEF Total, StoresOf
        <5>2. QED
          BY <4>1, <5>1
    <3>2. CASE o # c.order
      BY <1>4, <1>6, <3>2
    <3>3. QED
      BY <3>1, <3>2
  <2>3. QED
    BY <1>4, <1>5, <2>1, <2>2 DEF Frame, HasDoc
<1>10. QED
  BY <1>4, <1>8, <1>9, SectionStays, PlainOK

LEMMA SendMarkOK ==
  ASSUME IInv, NEW p \in Procs, SendMark(p)
  PROVE  IInv'
<1>1. /\ section' = MarkedOf(calls[p].order, {s \in Stores : Ready(s)})
      /\ UNCHANGED <<order, at, price, quotes, run, told>> /\ End(p)
  BY DEF SendMark
<1>2. \A s \in {s \in Stores : Ready(s)} \cap Stores : section[s] # Null
  BY DEF Ready
<1>3. QED
  BY <1>1, <1>2, CallEnded, MarkedSame, SectionStep DEF IInv

\* A first look at an order, by a handler other than send and accept
LEMMA BeginOK ==
  ASSUME IInv, NEW p \in Procs, NEW c \in Call, c.step \notin {"accept", "send"}, Begin(p, c),
         UNCHANGED <<order, at, price, quotes, section, run, told>>
  PROVE  IInv'
  BY CallSet, SectionStays, SectionStep DEF IInv, Begin

LEMMA RequestOK ==
  ASSUME IInv, NEW p \in Procs, NEW o \in Orders,
         IssueBegin(p, o) \/ RejectBegin(p, o) \/ AgainBegin(p, o)
  PROVE  IInv'
<1>1. CASE IssueBegin(p, o)
  <2> DEFINE R == {[order |-> o, store |-> s, version |-> 1, price |-> price[s],
                    expired |-> FALSE] : s \in {s \in StoresOf(o) : price[s] # Null}}
             c == [IdleCall EXCEPT !.step = "issue", !.order = o, !.was = order[o].status,
                                   !.ready = R]
  <2>1. R \subseteq Quote
    <3>1. ASSUME NEW s \in Stores, price[s] # Null
          PROVE  [order |-> o, store |-> s, version |-> 1, price |-> price[s],
                  expired |-> FALSE] \in Quote
      BY <3>1, QuotesAssumption DEF IInv, TypeOK, Quote
    <3>2. QED
      BY <3>1 DEF StoresOf
  <2>2. Begin(p, c) /\ UNCHANGED <<order, at, price, quotes, section, run, told>>
        /\ order[o].status \in {"new", "quote_sent"}
    BY <1>1 DEF IssueBegin, Open
  <2> HIDE DEF R
  <2>3. c \in Call /\ c.step \notin {"accept", "send"}
    BY <2>1, <2>2, IdleType DEF Call
  <2> HIDE DEF c
  <2>4. QED
    BY <2>2, <2>3, BeginOK
<1>2. CASE RejectBegin(p, o)
  <2> DEFINE c == [IdleCall EXCEPT !.step = "reject", !.order = o]
  <2>1. c \in Call /\ c.step \notin {"accept", "send"}
    BY IdleType DEF Call
  <2>2. Begin(p, c) /\ UNCHANGED <<order, at, price, quotes, section, run, told>>
    BY <1>2 DEF RejectBegin
  <2> HIDE DEF c
  <2>3. QED
    BY <2>1, <2>2, BeginOK
<1>3. CASE AgainBegin(p, o)
  <2> DEFINE c == [IdleCall EXCEPT !.step = "again", !.order = o]
  <2>1. c \in Call /\ c.step \notin {"accept", "send"}
    BY IdleType DEF Call
  <2>2. Begin(p, c) /\ UNCHANGED <<order, at, price, quotes, section, run, told>>
    BY <1>3 DEF AgainBegin
  <2> HIDE DEF c
  <2>3. QED
    BY <2>1, <2>2, BeginOK
<1>4. QED
  BY <1>1, <1>2, <1>3

\* A handler that only sets the status of its order and ends
LEMMA StatusOK ==
  ASSUME IInv, NEW p \in Procs, Reject(p) \/ Again(p) \/ Drop(p)
  PROVE  IInv'
<1>1. /\ UNCHANGED <<at, price, quotes, section, run, told>> /\ End(p)
      /\ \/ order' = order
         \/ \E status \in {"cancelled", "new"} :
              order' = [order EXCEPT ![calls[p].order].status = status]
  BY DEF Reject, Again, Drop
<1>2. order \in [Orders -> OrderRow]
  BY DEF IInv, TypeOK
<1>3. order' \in [Orders -> OrderRow]
  BY <1>1, <1>2 DEF OrderRow
<1>4. \A o \in Orders : \/ order'[o] = order[o]
                        \/ /\ order'[o].status # "none" /\ order'[o].kind = order[o].kind
                           /\ order'[o].total = order[o].total
  BY <1>1, <1>2 DEF OrderRow
<1>5. TypeOK'
  BY <1>1, <1>3, CallEnded DEF IInv, TypeOK, CallsTyped
<1>6. Frame
  BY <1>1, <1>4, CallEnded DEF Frame, HasDoc, IInv
<1>7. QED
  BY <1>1, <1>5, <1>6, SectionStays, PlainOK

LEMMA IssueOK ==
  ASSUME IInv, NEW p \in Procs, Issue(p)
  PROVE  IInv'
<1> DEFINE c == calls[p]
           next == [IdleCall EXCEPT !.step = "mark", !.order = c.order, !.was = "quote_sent"]
<1>1. c \in Call /\ c.order \in Orders /\ c.ready \subseteq Quote
  BY DEF IInv, TypeOK, Call
<1>2. PICK total \in BOOLEAN, status \in {"quote_sent", order[c.order].status} :
        /\ total = Total(StoresOf(c.order), price)
        /\ order' = [order EXCEPT ![c.order].status = status, ![c.order].total = total]
  <2>1. Total(StoresOf(c.order), price) \in BOOLEAN
    BY DEF Total
  <2>2. order' = [order EXCEPT
          ![c.order].status = IF c.ready # {} /\ c.was # "quote_sent" THEN "quote_sent" ELSE @,
          ![c.order].total = Total(StoresOf(c.order), price)]
    BY DEF Issue
  <2>3. QED
    BY <2>1, <2>2
<1>3. /\ quotes' = quotes \cup c.ready /\ section' = Ensured(c.order)
      /\ calls' = [calls EXCEPT ![p] = next]
      /\ UNCHANGED <<at, price, run, told>>
  BY DEF Issue
<1>4. CallsTyped' /\ \A q \in Procs : At(q, "accept")' => calls'[q] = calls[q]
  <2>1. next \in Call /\ next.step = "mark"
    BY <1>1, IdleType DEF Call
  <2> HIDE DEF next
  <2>2. QED
    BY <1>3, <2>1, CallSet DEF IInv
<1>5. order \in [Orders -> OrderRow]
  BY DEF IInv, TypeOK
<1>6. order' \in [Orders -> OrderRow]
  BY <1>1, <1>2, <1>5 DEF OrderRow
<1> HIDE DEF next
<1>7. /\ \A s \in Stores : SameSection(s)
      /\ section' = [s \in Stores |-> section'[s]]
  BY <1>3, EnsuredSame
<1>8. TypeOK'
  BY <1>1, <1>3, <1>4, <1>6, <1>7, SectionsKept DEF IInv, TypeOK, CallsTyped
<1>9. Frame
  <2>1. ASSUME NEW o \in Orders
        PROVE  \/ order'[o] = order[o]
               \/ /\ order'[o].kind = order[o].kind
                  /\ order'[o].total = Total(StoresOf(o), price)'
                  /\ order'[o].status # "none" \/ order'[o].status = order[o].status
    <3>1. CASE o = c.order
      <4>1. /\ order'[o].kind = order[o].kind /\ order'[o].total = total
            /\ order'[o].status \in {"quote_sent", order[o].status}
        BY <1>1, <1>2, <1>5, <3>1 DEF OrderRow
      <4>2. Total(StoresOf(o), price) = Total(StoresOf(o), price)'
        BY <1>3 DEF Total, StoresOf
      <4>3. QED
        BY <1>2, <3>1, <4>1, <4>2
    <3>2. CASE o # c.order
      BY <1>2, <1>5, <3>2
    <3>3. QED
      BY <3>1, <3>2
  <2>2. QED
    BY <1>3, <1>4, <2>1 DEF Frame, HasDoc
<1>10. QED
  BY <1>3, <1>7, <1>8, <1>9, PlainOK

\* Time: an offer is not valid any more, a section is older
LEMMA TimeOK ==
  ASSUME IInv,
         \/ \E q \in quotes : Expire(q)
         \/ \E s \in Stores : Age(s) \/ SweepInsert(s)
         \/ \E o \in Orders : OrderAges(o)
  PROVE  IInv'
<1>1. ASSUME NEW q \in quotes, Expire(q) PROVE IInv'
  <2> DEFINE over == [q EXCEPT !.expired = TRUE]
  <2>1. /\ q \in Quote /\ over \in Quote
        /\ over.order = q.order /\ over.store = q.store /\ over.version = q.version
    BY DEF IInv, TypeOK, Quote
  <2>2. /\ quotes' = (quotes \ {q}) \cup {over}
        /\ UNCHANGED <<order, at, price, section, calls, run, told>>
    BY <1>1 DEF Expire
  <2> HIDE DEF over
  <2>3. TypeOK'
    BY <2>1, <2>2 DEF IInv, TypeOK
  <2>4. \A o \in Orders, s \in Stores, v \in 1 .. MaxVersion : HasDoc(o, s, v) => HasDoc(o, s, v)'
    BY <2>1, <2>2 DEF HasDoc
  <2>5. Frame
    BY <2>2, <2>4 DEF Frame
  <2>6. QED
    BY <2>2, <2>3, <2>5, SectionStays, PlainOK
<1>2. ASSUME NEW s \in Stores, Age(s) \/ SweepInsert(s) PROVE IInv'
  <2>1. /\ UNCHANGED <<order, at, price, quotes, calls, run, told>>
        /\ section \in [Stores -> Section \cup {Null}]
    BY <1>2 DEF Age, SweepInsert, IInv, TypeOK
  <2>2. /\ \A z \in Stores : SameSection(z)
        /\ section' = [z \in Stores |-> section'[z]]
    <3>1. CASE Age(s)
      <4>1. section[s] # Null /\ section[s] \in Section /\ section[s].age < 2
        BY <2>1, <3>1, QuotesAssumption DEF Age, Section
      <4>2. section' = [section EXCEPT ![s] = [section[s] EXCEPT !.age = section[s].age + 1]]
        BY <3>1 DEF Age
      <4>3. [section[s] EXCEPT !.age = section[s].age + 1] \in Section
        BY <4>1 DEF Section
      <4>4. SameSection(s)
        BY <2>1, <4>1, <4>2, <4>3 DEF SameSection, Section
      <4>5. QED
        BY <2>1, <4>2, <4>4 DEF SameSection
    <3>2. CASE SweepInsert(s)
      <4>1. PICK a \in 0 .. MaxAge : section' = [section EXCEPT ![s] = [NewSection EXCEPT !.age = a]]
        BY <3>2 DEF SweepInsert
      <4>2. a \in 0 .. 2 /\ section[s] = Null
        BY <3>2, QuotesAssumption DEF SweepInsert
      <4>3. Untouched(section'[s])
        BY <2>1, <4>1, <4>2, NewSectionType
      <4>4. SameSection(s)
        BY <4>2, <4>3 DEF SameSection
      <4>5. QED
        BY <2>1, <4>1, <4>4 DEF SameSection
    <3>3. QED
      BY <1>2, <3>1, <3>2
  <2>3. CallsTyped' /\ \A p \in Procs : At(p, "accept")' => calls'[p] = calls[p]
    BY <2>1 DEF IInv, TypeOK, CallsTyped
  <2>4. QED
    BY <2>1, <2>2, <2>3, SectionStep
<1>3. ASSUME NEW o \in Orders, OrderAges(o) PROVE IInv'
  <2>1. /\ order' = [order EXCEPT ![o].recent = FALSE]
        /\ UNCHANGED <<at, price, quotes, section, calls, run, told>>
    BY <1>3 DEF OrderAges
  <2>2. order \in [Orders -> OrderRow]
    BY DEF IInv, TypeOK
  <2>3. order' \in [Orders -> OrderRow]
    BY <2>1, <2>2 DEF OrderRow
  <2>4. order[o].status # "none"
    BY <1>3, <2>2 DEF OrderAges, IInv, OrdersOK, TypeOK
  <2>5. \A d \in Orders : \/ order'[d] = order[d]
                          \/ /\ order'[d].status # "none" /\ order'[d].kind = order[d].kind
                             /\ order'[d].total = order[d].total
    BY <2>1, <2>2, <2>4 DEF OrderRow
  <2>6. CallsTyped' /\ \A p \in Procs : At(p, "accept")' => calls'[p] = calls[p]
    BY <2>1 DEF IInv, TypeOK, CallsTyped, At
  <2>7. TypeOK'
    BY <2>1, <2>3, <2>6 DEF IInv, TypeOK, CallsTyped
  <2>8. Frame
    BY <2>1, <2>5, <2>6 DEF Frame, HasDoc
  <2>9. QED
    BY <2>1, <2>7, <2>8, SectionStays, PlainOK
<1>4. QED
  BY <1>1, <1>2, <1>3

-----------------------------------------------------------------------------
(* The sweep                                                               *)

LEMMA RunType == IdleRun \in Run
  BY DEF IdleRun, Run

\* The conditional update of a sweep and its push
LEMMA ToldOnceMore ==
  ASSUME IInv, NEW s \in Stores, section[s] # Null, MarkTimeout(s) \/ MarkReminder(s)
  PROVE  /\ section' \in [Stores -> Section \cup {Null}]
         /\ told' \in [Stores -> [reminder : 0 .. 2, timeout : 0 .. 2]]
         /\ \A z \in Stores : ToldOK(z)'
         /\ \A z \in Stores : section[z] # Null => section'[z] # Null
         /\ \A z \in Stores, v \in 1 .. MaxVersion :
              section'[z] # Null /\ section'[z].accepted = v =>
                section[z] # Null /\ section[z].accepted = v
<1>0. /\ section \in [Stores -> Section \cup {Null}] /\ section[s] \in Section
      /\ told \in [Stores -> [reminder : 0 .. 2, timeout : 0 .. 2]]
      /\ \A z \in Stores : ToldOK(z)
  BY DEF IInv, TypeOK
<1>1. CASE UNCHANGED <<section, told>>
  BY <1>0, <1>1 DEF ToldOK
<1>2. CASE MarkTimeout(s) /\ ~section[s].timed_out
  <2> DEFINE row == [section[s] EXCEPT !.timed_out = TRUE, !.reminded = TRUE]
             push == [told[s] EXCEPT !.timeout = 1]
  <2>1. told[s].timeout = 0
    BY <1>0, <1>2 DEF ToldOK
  <2>2. section' = [section EXCEPT ![s] = row] /\ told' = [told EXCEPT ![s] = push]
    <3>1. /\ section' = [section EXCEPT ![s].timed_out = TRUE, ![s].reminded = TRUE]
          /\ told' = [told EXCEPT ![s].timeout = More(@)]
      BY <1>2 DEF MarkTimeout
    <3>2. section' = [section EXCEPT ![s] = row]
      BY <1>0, <3>1 DEF Section
    <3>3. More(told[s].timeout) = 1
      BY <2>1 DEF More
    <3>4. told' = [told EXCEPT ![s] = push]
      BY <1>0, <3>1, <3>3
    <3>5. QED
      BY <3>2, <3>4
  <2>3. /\ row \in Section /\ row # Null /\ row.timed_out /\ row.reminded
        /\ row.accepted = section[s].accepted
    BY <1>0, NewSectionType DEF Section
  <2>4. /\ push \in [reminder : 0 .. 2, timeout : 0 .. 2]
        /\ push.timeout = 1 /\ push.reminder = told[s].reminder
    BY <1>0
  <2> HIDE DEF row, push
  <2>5. ToldOK(s)'
    BY <1>0, <2>2, <2>3, <2>4 DEF ToldOK
  <2>6. QED
    BY <1>0, <2>2, <2>3, <2>4, <2>5 DEF ToldOK
<1>3. CASE MarkReminder(s) /\ ~section[s].reminded
  <2> DEFINE row == [section[s] EXCEPT !.reminded = TRUE]
             push == [told[s] EXCEPT !.reminder = 1]
  <2>1. told[s].reminder = 0
    BY <1>0, <1>3 DEF ToldOK
  <2>2. section' = [section EXCEPT ![s] = row] /\ told' = [told EXCEPT ![s] = push]
    BY <1>0, <1>3, <2>1 DEF MarkReminder, More
  <2>3. /\ row \in Section /\ row # Null /\ row.reminded
        /\ row.timed_out = section[s].timed_out
        /\ row.accepted = section[s].accepted
    BY <1>0, NewSectionType DEF Section
  <2>4. /\ push \in [reminder : 0 .. 2, timeout : 0 .. 2]
        /\ push.reminder = 1 /\ push.timeout = told[s].timeout
    BY <1>0
  <2> HIDE DEF row, push
  <2>5. ToldOK(s)'
    BY <1>0, <2>2, <2>3, <2>4 DEF ToldOK
  <2>6. QED
    BY <1>0, <2>2, <2>3, <2>4, <2>5 DEF ToldOK
<1>4. QED
  BY <1>1, <1>2, <1>3 DEF MarkTimeout, MarkReminder

LEMMA SeenInOK ==
  ASSUME IInv, NEW r \in Replicas, NEW o \in Orders
  PROVE  /\ SeenIn(r, o) \in Seen
         /\ \A s \in SeenIn(r, o).here \cup SeenIn(r, o).ready : section[s] # Null
<1>1. run[r].seen[o] \in Seen \cup {Null} /\ RunOK(r)
  BY DEF IInv, TypeOK, Run
<1>2. CASE run[r].seen[o] # Null
  BY <1>1, <1>2 DEF SeenIn, RunOK
<1>3. CASE run[r].seen[o] = Null
  <2>1. SeenIn(r, o) = [here |-> {s \in StoresOf(o) : section[s] # Null},
                        ready |-> {s \in StoresOf(o) : Ready(s)}]
    BY <1>3 DEF SeenIn
  <2>2. QED
    BY <2>1 DEF Seen, StoresOf, Ready
<1>4. QED
  BY <1>2, <1>3

LEMMA SweepRowOK ==
  ASSUME IInv, NEW r \in Replicas, NEW s \in Stores, SweepRow(r, s)
  PROVE  IInv'
<1> DEFINE row  == run[r].due[s]
           seen == SeenIn(r, row.order)
           rest == [run[r].due EXCEPT ![s] = Null]
           later == [due |-> rest,
                     seen |-> [o \in Orders |->
                       IF \A z \in Stores : rest[z] = Null \/ rest[z].order # o THEN Null
                       ELSE IF o = row.order THEN seen ELSE run[r].seen[o]]]
<1>1. row \in Row /\ row.order \in Orders
  BY DEF SweepRow, IInv, TypeOK, Run, Row
<1>2. seen \in Seen /\ \A z \in seen.here \cup seen.ready : section[z] # Null
  BY <1>1, SeenInOK
<1>3. /\ IF s \notin seen.here THEN UNCHANGED <<section, told>>
         ELSE IF s \in seen.ready
           THEN section' = MarkedOf(row.order, seen.ready) /\ UNCHANGED told
         ELSE MarkTimeout(s) \/ MarkReminder(s)
      /\ run' = [run EXCEPT ![r] = later]
      /\ UNCHANGED <<order, at, price, quotes, calls>>
  BY DEF SweepRow
<1> HIDE DEF seen
<1>4. later \in Run
  <2>1. rest \in [Stores -> Row \cup {Null}]
    BY DEF IInv, TypeOK, Run
  <2>2. run[r].seen \in [Orders -> Seen \cup {Null}]
    BY DEF IInv, TypeOK, Run
  <2> HIDE DEF rest
  <2>3. [o \in Orders |->
           IF \A z \in Stores : rest[z] = Null \/ rest[z].order # o THEN Null
           ELSE IF o = row.order THEN seen ELSE run[r].seen[o]] \in [Orders -> Seen \cup {Null}]
    BY <1>2, <2>2
  <2>4. QED
    BY <2>1, <2>3 DEF Run
<1>5. \A o \in Orders : later.seen[o] # Null => later.seen[o] = seen \/ later.seen[o] = run[r].seen[o]
  OBVIOUS
<1> HIDE DEF later
<1>6. /\ section' \in [Stores -> Section \cup {Null}]
      /\ told' \in [Stores -> [reminder : 0 .. 2, timeout : 0 .. 2]]
      /\ \A z \in Stores : ToldOK(z)'
      /\ \A z \in Stores : section[z] # Null => section'[z] # Null
      /\ \A z \in Stores, v \in 1 .. MaxVersion :
           section'[z] # Null /\ section'[z].accepted = v =>
             section[z] # Null /\ section[z].accepted = v
  <2>1. CASE UNCHANGED <<section, told>>
    BY <2>1, SectionStays, SectionsKept DEF IInv, TypeOK
  <2>2. CASE section' = MarkedOf(row.order, seen.ready) /\ UNCHANGED told
    BY <1>2, <2>2, MarkedSame, SectionsKept DEF IInv, TypeOK
  <2>3. CASE s \in seen.here /\ (MarkTimeout(s) \/ MarkReminder(s))
    BY <1>2, <2>3, ToldOnceMore
  <2>4. QED
    BY <1>3, <2>1, <2>2, <2>3
<1>7. TypeOK'
  BY <1>3, <1>4, <1>6 DEF IInv, TypeOK
<1>8. Frame
  BY <1>3 DEF Frame, HasDoc
<1>9. ASSUME NEW q \in Replicas, NEW o \in Orders, run'[q].seen[o] # Null,
             NEW z \in run'[q].seen[o].here \cup run'[q].seen[o].ready
      PROVE  section'[z] # Null
  <2>1. z \in Stores
    BY <1>7, <1>9 DEF TypeOK, Run, Seen
  <2>2. \/ run'[q].seen[o] = seen
        \/ run'[q].seen[o] = run[q].seen[o]
    BY <1>3, <1>5, <1>9 DEF IInv, TypeOK
  <2>3. section[z] # Null
    BY <1>2, <1>9, <2>2 DEF IInv, RunOK
  <2>4. QED
    BY <1>6, <2>1, <2>3
<1>10. \A q \in Replicas : RunOK(q)'
  BY <1>9 DEF RunOK
<1>11. QED
  BY <1>6, <1>7, <1>8, <1>10, FrameOK

LEMMA SweepOK ==
  ASSUME IInv, NEW r \in Replicas, SweepRead(r) \/ SweepDies(r)
  PROVE  IInv'
<1>1. PICK later \in Run : /\ run' = [run EXCEPT ![r] = later]
                           /\ \A o \in Orders : later.seen[o] # Null => later.seen[o] = run[r].seen[o]
  <2>0. run[r] \in Run
    BY DEF IInv, TypeOK
  <2>1. CASE SweepRead(r)
    <3> DEFINE due == [s \in Stores |->
                 IF IsDue(s)
                   THEN [order |-> at[s], what |-> IF NeedsTimeout(s) THEN "timeout" ELSE "reminder"]
                   ELSE Null]
               later == [run[r] EXCEPT !.due = due]
    <3>1. due \in [Stores -> Row \cup {Null}]
      BY DEF IInv, TypeOK, Row
    <3>2. run' = [run EXCEPT ![r] = later]
      BY <2>1 DEF SweepRead
    <3> HIDE DEF due
    <3>3. later \in Run /\ later.seen = run[r].seen
      BY <2>0, <3>1 DEF Run
    <3>4. QED
      BY <3>2, <3>3
  <2>2. CASE SweepDies(r)
    BY <2>2, RunType DEF SweepDies, IdleRun
  <2>3. QED
    BY <2>1, <2>2
<1>2. UNCHANGED <<order, at, price, quotes, section, calls, told>>
  BY DEF SweepRead, SweepDies
<1>3. TypeOK'
  BY <1>1, <1>2 DEF IInv, TypeOK
<1>4. Frame
  BY <1>2 DEF Frame, HasDoc
<1>5. \A q \in Replicas, o \in Orders :
        run'[q].seen[o] # Null => run'[q].seen[o] = run[q].seen[o]
  BY <1>1 DEF IInv, TypeOK
<1>6. QED
  BY <1>2, <1>3, <1>4, <1>5, SectionStays, SectionsKept, RunsKept, FrameOK

-----------------------------------------------------------------------------
(* The acceptance                                                          *)

\* accept reads what is ready, and no other acceptance has it in its way
LEMMA AcceptBeginOK ==
  ASSUME IInv, NEW p \in Procs, NEW o \in Orders, AcceptBegin(p, o)
  PROVE  IInv'
<1> DEFINE R == {s \in StoresOf(o) : Ready(s)}
           docs == {Latest(o, s) : s \in R}
           c == [IdleCall EXCEPT !.step = "accept", !.order = o, !.ready = docs,
                                 !.pending = StoresOf(o) \ R]
<1>1. /\ R # {} /\ order[o].status = "quote_sent" /\ section' = Ensured(o)
      /\ calls' = [calls EXCEPT ![p] = c] /\ calls[p].step = "idle"
      /\ UNCHANGED <<order, at, price, quotes, run, told>>
  BY DEF AcceptBegin, Begin, At
<1>2. ASSUME NEW s \in R
      PROVE  /\ Latest(o, s) \in quotes /\ Latest(o, s) \in Quote
             /\ Latest(o, s).order = o /\ Latest(o, s).store = s
  <2>1. QuotesOf(o, s) # {}
    BY DEF Ready, StoresOf
  <2>2. Latest(o, s) \in QuotesOf(o, s)
    BY <2>1, LatestIs DEF IInv
  <2>3. QED
    BY <2>2 DEF QuotesOf, IInv, TypeOK
<1>3. /\ docs \in SUBSET Quote /\ docs # {}
      /\ \A q \in docs : /\ q \in quotes /\ q.order = o /\ q.store \in R
  BY <1>1, <1>2
<1>4. R \subseteq Stores /\ \A s \in R : at[s] = o /\ Ready(s) /\ section[s] # Null
  BY DEF StoresOf, Ready
<1> HIDE DEF docs
<1>5. /\ c \in Call /\ c.step = "accept" /\ c.order = o
      /\ c.ready = docs /\ c.pending = StoresOf(o) \ R
  <2>1. StoresOf(o) \ R \in SUBSET Stores
    BY DEF StoresOf
  <2> HIDE DEF R
  <2>2. QED
    BY <1>3, <2>1, IdleType DEF Call
<1> HIDE DEF c
<1>6. /\ CallsTyped'
      /\ \A q \in Procs : calls'[q] = IF q = p THEN c ELSE calls[q]
  BY <1>1, <1>5 DEF IInv, TypeOK, CallsTyped
<1>7. /\ section' \in [Stores -> Section \cup {Null}]
      /\ \A s \in Stores : ToldOK(s)'
      /\ \A s \in Stores : section[s] # Null => section'[s] # Null
      /\ \A s \in Stores, v \in 1 .. MaxVersion :
           section'[s] # Null /\ section'[s].accepted = v =>
             section[s] # Null /\ section[s].accepted = v
  BY <1>1, EnsuredSame, SectionsKept
<1>8. TypeOK'
  BY <1>1, <1>6, <1>7 DEF IInv, TypeOK, CallsTyped
<1>9. Grows
  BY <1>1, <1>7 DEF Grows, HasDoc
<1>10. OrdersOK' /\ AcceptedHasDocument'
  BY <1>7, <1>8, <1>9, OrdersKept, DocumentsKept
<1>11. AcceptedIsPriced'
  BY <1>1, <1>9, PricedKept
<1>12. \A r \in Replicas : RunOK(r)'
  BY <1>1, <1>7, <1>8, RunsKept
<1>13. \A s \in Stores : Ready(s) => Ready(s)'
  BY <1>1, <1>7 DEF Ready, QuotesOf
<1>14. ASSUME NEW q \in Procs, NEW d \in Orders, Accepting(q, d)'
       PROVE  \E s \in Stores : Stays(s, d)'
  <2>1. CASE d = o
    <3>1. PICK s \in R : \A r \in Procs : Accepting(r, o) => s \notin calls[r].pending
      <4>1. CASE \E r \in Procs : Accepting(r, o)
        <5>1. PICK r \in Procs : Accepting(r, o)
          BY <4>1
        <5>2. AcceptOK(r, o)
          BY <5>1 DEF IInv, Acceptances
        <5>3. PICK s \in Stores : Stays(s, o)
          BY <5>1, <5>2 DEF AcceptOK
        <5>4. at[s] = o /\ s \notin calls[r].pending
          BY <5>1, <5>3 DEF Stays
        <5>5. Ready(s)
          BY <5>1, <5>2, <5>4 DEF AcceptOK
        <5>6. QED
          BY <5>3, <5>4, <5>5 DEF Stays, StoresOf
      <4>2. CASE ~\E r \in Procs : Accepting(r, o)
        BY <1>1, <4>2
      <4>3. QED
        BY <4>1, <4>2
    <3>2. at'[s] = o /\ s \in Stores
      BY <1>1, <1>4
    <3>3. ASSUME NEW r \in Procs, Accepting(r, o)' PROVE s \notin calls'[r].pending
      <4>1. CASE r = p
        BY <1>5, <1>6, <4>1
      <4>2. CASE r # p
        BY <1>6, <3>1, <3>3, <4>2 DEF Accepting, At
      <4>3. QED
        BY <4>1, <4>2
    <3>4. QED
      BY <2>1, <3>2, <3>3 DEF Stays
  <2>2. CASE d # o
    <3>1. \A r \in Procs : Accepting(r, d)' => r # p /\ Accepting(r, d) /\ calls'[r] = calls[r]
      BY <1>5, <1>6, <2>2 DEF Accepting, At
    <3>2. PICK s \in Stores : Stays(s, d)
      BY <1>14, <3>1 DEF IInv, Acceptances, AcceptOK
    <3>3. QED
      BY <1>1, <3>1, <3>2 DEF Stays
  <2>3. QED
    BY <2>1, <2>2
<1>15. ASSUME NEW q \in Procs, NEW d \in Orders, Accepting(q, d)'
       PROVE  AcceptOK(q, d)'
  <2>1. CASE q = p
    <3>1. d = o /\ calls'[q] = c
      BY <1>5, <1>6, <1>15, <2>1 DEF Accepting
    <3>2. order'[d].status # "none" /\ calls'[q].ready # {}
      BY <1>1, <1>3, <1>5, <3>1
    <3>3. ASSUME NEW s \in Stores, at'[s] = d, s \notin calls'[q].pending PROVE Ready(s)'
      BY <1>1, <1>5, <1>13, <3>1, <3>3 DEF StoresOf
    <3>4. ASSUME NEW x \in calls'[q].ready
          PROVE  section'[x.store] # Null /\ HasDoc(d, x.store, x.version)'
      <4>1. x \in quotes /\ x.order = d /\ x.store \in R
        BY <1>3, <1>5, <3>1
      <4>2. QED
        BY <1>1, <1>4, <1>7, <4>1 DEF HasDoc
    <3>5. QED
      BY <1>14, <1>15, <3>2, <3>3, <3>4 DEF AcceptOK
  <2>2. CASE q # p
    <3>1. calls'[q] = calls[q] /\ Accepting(q, d)
      BY <1>6, <1>15, <2>2 DEF Accepting, At
    <3>2. AcceptOK(q, d)
      BY DEF IInv, Acceptances
    <3>3. \A x \in calls[q].ready : x.store \in Stores
      BY DEF IInv, TypeOK, Call, Quote
    <3>4. \A x \in calls[q].ready :
            section'[x.store] # Null /\ (at'[x.store] = d => HasDoc(d, x.store, x.version)')
      BY <1>1, <1>7, <3>1, <3>2, <3>3 DEF AcceptOK, HasDoc
    <3>5. \A s \in Stores : at'[s] = d /\ s \notin calls'[q].pending => Ready(s)'
      BY <1>1, <1>13, <3>1, <3>2 DEF AcceptOK
    <3>6. order'[d].status # "none" /\ calls'[q].ready # {}
      BY <1>1, <3>1, <3>2 DEF AcceptOK
    <3>7. QED
      BY <1>14, <1>15, <3>1, <3>4, <3>5, <3>6 DEF AcceptOK
  <2>3. QED
    BY <2>1, <2>2
<1>16. Acceptances'
  BY <1>15 DEF Acceptances, AcceptOK
<1>17. QED
  BY <1>7, <1>8, <1>10, <1>11, <1>12, <1>16 DEF IInv

\* The row of an order whose quotation was accepted
LEMMA AcceptedRow ==
  ASSUME NEW r \in OrderRow, NEW w \in 0 .. MaxVersion, NEW t \in BOOLEAN, NEW x,
         x = [r EXCEPT !.status = "new", !.kind = "order", !.accepted = w, !.total = t]
  PROVE  x \in OrderRow
  BY DEF OrderRow

(***************************************************************************)
(* The transaction of accept.  Lines stay with their documents, those that *)
(* stay in the order were ready when accept looked, and one stays.         *)
(***************************************************************************)
LEMMA AcceptOKs ==
  ASSUME IInv, NEW p \in Procs, NEW child \in Orders \cup {Null}, Accept(p, child)
  PROVE  IInv'
<1>o. PICK o \in Orders : o = calls[p].order
  BY DEF IInv, TypeOK, Call
<1> DEFINE c == calls[p]
           S == c.pending
           v == CHOOSE w \in 1 .. MaxVersion :
                  (\E q \in c.ready : q.version = w) /\ \A q \in c.ready : q.version <= w
           total(d) == Total({s \in Stores : at'[s] = d}, price)
<1>0. /\ c \in Call /\ S \subseteq Stores /\ c.ready \in SUBSET Quote
      /\ at \in [Stores -> Orders] /\ quotes \subseteq Quote /\ order \in [Orders -> OrderRow]
      /\ section \in [Stores -> Section \cup {Null}] /\ price \in [Stores -> Prices \cup {Null}]
  BY DEF IInv, TypeOK, Call
<1>1. /\ At(p, "accept")
      /\ IF S = {} THEN child = Null /\ UNCHANGED <<at, quotes>>
                   ELSE child # Null /\ order[child].status = "none" /\ Move(o, S, child)
      /\ order' = [d \in Orders |->
           IF d = o THEN [order[d] EXCEPT !.status = "new", !.kind = "order", !.accepted = v,
                            !.total = total(d)]
           ELSE IF d = child THEN [order[d] EXCEPT !.status = "new", !.total = total(d)]
           ELSE order[d]]
      /\ section' = [s \in Stores |->
           IF at'[s] = o /\ \E q \in c.ready : q.store = s
             THEN [section[s] EXCEPT !.accepted = (CHOOSE q \in c.ready : q.store = s).version]
             ELSE section[s]]
      /\ End(p)
      /\ UNCHANGED <<price, run, told>>
  <2>1. /\ At(p, "accept")
        /\ IF S = {} THEN child = Null /\ UNCHANGED <<at, quotes>>
                     ELSE child # Null /\ order[child].status = "none" /\ Move(o, S, child)
        /\ section' = [s \in Stores |->
             IF at'[s] = o /\ \E q \in c.ready : q.store = s
               THEN [section[s] EXCEPT !.accepted = (CHOOSE q \in c.ready : q.store = s).version]
               ELSE section[s]]
        /\ End(p)
        /\ UNCHANGED <<price, run, told>>
    BY <1>o DEF Accept, AcceptInto
  <2>2. order' = [d \in Orders |->
          IF d = c.order THEN [order[d] EXCEPT !.status = "new", !.kind = "order", !.accepted = v,
                                 !.total = total(d)]
          ELSE IF d = child THEN [order[d] EXCEPT !.status = "new", !.total = total(d)]
          ELSE order[d]]
    BY DEF Accept, AcceptInto
  <2>3. c.order = o
    BY <1>o
  <2> HIDE DEF c, v, total
  <2>4. QED
    BY <2>1, <2>2, <2>3
<1>2. AcceptOK(p, o) /\ Accepting(p, o)
  BY <1>o, <1>1 DEF IInv, Acceptances, Accepting
<1>3. /\ order[o].status # "none" /\ c.ready # {}
      /\ \A s \in Stores : at[s] = o /\ s \notin S => Ready(s)
      /\ \A q \in c.ready :
           section[q.store] # Null /\ (at[q.store] = o => HasDoc(o, q.store, q.version))
      /\ \E s \in Stores : Stays(s, o)
  BY <1>2 DEF AcceptOK
<1>4. v \in 0 .. MaxVersion
  BY <1>0, <1>3, GreatestOf
<1> HIDE DEF v
<1>5. S # {} => child \in Orders /\ child # o /\ order[child].kind = "quote"
  BY <1>0, <1>1, <1>3 DEF IInv, OrdersOK
<1>6. ASSUME NEW s \in Stores
      PROVE  at'[s] = IF s \in S /\ at[s] = o THEN child ELSE at[s]
  BY <1>0, <1>1 DEF Move
<1>7. at' \in [Stores -> Orders] /\ quotes' \subseteq Quote
  <2>1. CASE S = {}
    BY <1>0, <1>1, <2>1
  <2>2. CASE S # {}
    <3>1. child \in Orders /\ Move(o, S, child)
      BY <1>1, <1>5, <2>2
    <3>2. \A q \in quotes : [q EXCEPT !.order = child] \in Quote
      BY <1>0, <3>1 DEF Quote
    <3>3. QED
      BY <1>0, <3>1, <3>2 DEF Move
  <2>3. QED
    BY <2>1, <2>2
<1>8. ASSUME NEW s \in Stores, NEW w \in 1 .. MaxVersion, HasDoc(at[s], s, w)
      PROVE  HasDoc(at[s], s, w)'
  <2>1. PICK q \in quotes : q.order = at[s] /\ q.store = s /\ q.version = w
    BY <1>8 DEF HasDoc
  <2>2. CASE S = {}
    BY <1>1, <2>1, <2>2 DEF HasDoc
  <2>3. CASE S # {} /\ s \in S /\ at[s] = o
    <3>1. [q EXCEPT !.order = child] \in quotes'
      BY <1>1, <2>1, <2>3 DEF Move
    <3>2. /\ [q EXCEPT !.order = child].order = child
          /\ [q EXCEPT !.order = child].store = s
          /\ [q EXCEPT !.order = child].version = w
      BY <1>0, <2>1 DEF Quote
    <3>3. at'[s] = child
      BY <1>6, <2>3
    <3>4. QED
      BY <3>1, <3>2, <3>3 DEF HasDoc
  <2>4. CASE S # {} /\ ~(s \in S /\ at[s] = o)
    <3>1. q \in quotes'
      BY <1>1, <2>1, <2>4 DEF Move
    <3>2. at'[s] = at[s]
      BY <1>6, <2>4
    <3>3. QED
      BY <2>1, <3>1, <3>2 DEF HasDoc
  <2>5. QED
    BY <2>2, <2>3, <2>4
<1>9. ASSUME NEW s \in Stores
      PROVE  \/ section'[s] = section[s]
             \/ /\ at'[s] = o /\ section[s] # Null /\ section'[s] \in Section
                /\ section'[s].reminded = section[s].reminded
                /\ section'[s].timed_out = section[s].timed_out
                /\ \E q \in c.ready : q.store = s /\ section'[s].accepted = q.version
  <2>1. CASE at'[s] = o /\ \E q \in c.ready : q.store = s
    <3>1. PICK q \in c.ready : /\ q.store = s
                               /\ q = CHOOSE x \in c.ready : x.store = s
      BY <2>1
    <3>2. section'[s] = [section[s] EXCEPT !.accepted = q.version]
      BY <1>1, <2>1, <3>1
    <3>3. section[s] \in Section /\ section[s] # Null /\ q.version \in 1 .. MaxVersion
      BY <1>0, <1>3, <3>1 DEF Quote
    <3>4. q.version \in 0 .. MaxVersion
      BY <3>3, QuotesAssumption
    <3>5. /\ section'[s] \in Section /\ section'[s].accepted = q.version
          /\ section'[s].reminded = section[s].reminded
          /\ section'[s].timed_out = section[s].timed_out
      BY <3>2, <3>3, <3>4 DEF Section
    <3>6. QED
      BY <2>1, <3>1, <3>3, <3>5
  <2>2. CASE ~(at'[s] = o /\ \E q \in c.ready : q.store = s)
    BY <1>1, <2>2
  <2>3. QED
    BY <2>1, <2>2
<1>10. /\ section' \in [Stores -> Section \cup {Null}]
       /\ \A s \in Stores : section[s] # Null => section'[s] # Null
       /\ \A s \in Stores : ToldOK(s)'
  <2>1. section' = [s \in Stores |-> section'[s]]
    BY <1>1
  <2>2. ASSUME NEW s \in Stores
        PROVE  /\ section'[s] \in Section \cup {Null}
               /\ section[s] # Null => section'[s] # Null
               /\ ToldOK(s)'
    <3>1. section[s] \in Section \cup {Null} /\ ToldOK(s) /\ told'[s] = told[s]
      BY <1>0, <1>1 DEF IInv
    <3>2. QED
      BY <1>9, <3>1, NewSectionType DEF ToldOK
  <2>3. QED
    BY <2>1, <2>2
<1>11. order' \in [Orders -> OrderRow]
  <2>1. ASSUME NEW d \in Orders PROVE order'[d] \in OrderRow
    <3>1. total(d) \in BOOLEAN
      BY DEF Total
    <3>2. CASE d = o
      <4>1. order'[d] = [order[d] EXCEPT !.status = "new", !.kind = "order", !.accepted = v,
                           !.total = total(d)]
        BY <1>1, <3>2
      <4>2. order[d] \in OrderRow
        BY <1>0
      <4> HIDE DEF total
      <4>3. QED
        BY <1>4, <3>1, <4>1, <4>2, AcceptedRow
    <3>3. CASE d # o /\ d = child
      <4>1. \A t \in BOOLEAN : [order[d] EXCEPT !.status = "new", !.total = t] \in OrderRow
        BY <1>0 DEF OrderRow
      <4>2. order'[d] = [order[d] EXCEPT !.status = "new", !.total = total(d)]
        BY <1>1, <3>3
      <4> HIDE DEF total
      <4>3. QED
        BY <3>1, <4>1, <4>2
    <3>4. CASE d # o /\ d # child
      BY <1>0, <1>1, <3>4
    <3>5. QED
      BY <3>2, <3>3, <3>4
  <2>2. QED
    BY <1>1, <2>1
<1>12. CallsTyped' /\ \A q \in Procs : At(q, "accept")' => calls'[q] = calls[q]
  BY <1>1, CallEnded DEF IInv
<1>13. TypeOK'
  BY <1>1, <1>7, <1>10, <1>11, <1>12 DEF IInv, TypeOK, CallsTyped
<1>14. ASSUME NEW d \in Orders
       PROVE  /\ order'[d].status = "none" => order'[d] = order[d]
              /\ d # o => order'[d].kind = order[d].kind
  BY <1>0, <1>1 DEF OrderRow
<1>15. ASSUME NEW s \in Stores
       PROVE  \/ at'[s] = at[s]
              \/ /\ order[at'[s]].status = "none" /\ order'[at'[s]].status # "none"
                 /\ \E q \in Procs : Accepting(q, at[s]) /\ s \in calls[q].pending
  <2>1. CASE s \in S /\ at[s] = o
    <3>1. at'[s] = child /\ child \in Orders /\ child # o /\ order[child].status = "none"
      BY <1>1, <1>5, <1>6, <2>1
    <3>2. order'[child].status = "new"
      BY <1>0, <1>1, <3>1 DEF OrderRow
    <3>3. QED
      BY <1>2, <2>1, <3>1, <3>2
  <2>2. CASE ~(s \in S /\ at[s] = o)
    BY <1>6, <2>2
  <2>3. QED
    BY <2>1, <2>2
<1>16. Grows
  BY <1>1, <1>8, <1>10, <1>14, <1>15 DEF Grows
<1>17. OrdersOK' /\ Acceptances'
  BY <1>12, <1>13, <1>16, OrdersKept, AcceptancesKept
<1>18. AcceptedHasDocument'
  <2>1. ASSUME NEW s \in Stores, NEW w \in 1 .. MaxVersion,
               section'[s] # Null, section'[s].accepted = w
        PROVE  (section[s] # Null /\ section[s].accepted = w) \/ HasDoc(at[s], s, w)'
    <3>1. CASE section'[s] = section[s]
      BY <2>1, <3>1
    <3>2. CASE at'[s] = o /\ \E q \in c.ready : q.store = s /\ section'[s].accepted = q.version
      <4>1. at[s] = o
        BY <1>5, <1>6, <3>2
      <4>2. HasDoc(at[s], s, w)
        BY <1>3, <2>1, <3>2, <4>1
      <4>3. QED
        BY <1>8, <4>2
    <3>3. QED
      BY <1>9, <3>1, <3>2
  <2>2. QED
    BY <1>13, <1>16, <2>1, DocumentsKept
<1>19. AcceptedIsPriced'
  <2>1. Total({s \in Stores : at'[s] = o}, price)
    <3>1. PICK s \in Stores : Stays(s, o)
      BY <1>3
    <3>2. at'[s] = o
      BY <1>2, <1>6, <3>1 DEF Stays
    <3>3. ASSUME NEW z \in Stores, at'[z] = o PROVE price[z] # Null
      <4>1. at[z] = o /\ z \notin S
        BY <1>5, <1>6, <3>3
      <4>2. QED
        BY <1>3, <4>1 DEF Ready
    <3>4. QED
      BY <3>2, <3>3 DEF Total
  <2>2. order'[o].total
    <3>1. order'[o] = [order[o] EXCEPT !.status = "new", !.kind = "order", !.accepted = v,
                         !.total = total(o)]
      BY <1>0, <1>1
    <3>2. QED
      BY <1>0, <2>1, <3>1 DEF OrderRow
  <2>3. Total(StoresOf(o), price)'
    BY <1>1, <2>1 DEF Total, StoresOf
  <2>4. ASSUME NEW d \in Orders, order'[d].kind = "order"
        PROVE  \/ /\ order[d].kind = "order"
                  /\ order'[d].total = order[d].total \/ order'[d].total = Total(StoresOf(d), price)'
               \/ order'[d].total /\ Total(StoresOf(d), price)'
    <3>1. CASE d = o
      BY <2>2, <2>3, <3>1
    <3>2. CASE d # o
      <4>1. d # child
        <5>1. order[d].kind = "order"
          BY <1>14, <2>4, <3>2
        <5>2. S = {} => child = Null
          BY <1>1
        <5>3. QED
          BY <1>5, <5>1, <5>2, QuotesAssumption
      <4>2. order'[d] = order[d]
        BY <1>1, <3>2, <4>1
      <4>3. QED
        BY <2>4, <4>2
    <3>3. QED
      BY <3>1, <3>2
  <2>5. QED
    BY <1>16, <2>4, PricedKept
<1>20. \A r \in Replicas : RunOK(r)'
  BY <1>1, <1>10, <1>13, RunsKept
<1>21. QED
  BY <1>10, <1>13, <1>17, <1>18, <1>19, <1>20 DEF IInv

-----------------------------------------------------------------------------
(* The theorems                                                            *)

LEMMA InitOK == Init => IInv
<1> SUFFICES ASSUME Init PROVE IInv
  OBVIOUS
<1>1. TypeOK
  <2>1. (CHOOSE x \in Prices : TRUE) \in Prices
    BY QuotesAssumption
  <2>2. order \in [Orders -> OrderRow]
    BY QuotesAssumption DEF Init, OrderRow
  <2>3. told \in [Stores -> [reminder : 0 .. 2, timeout : 0 .. 2]]
    BY DEF Init
  <2>4. \A p \in Procs : calls[p] = IdleCall
    BY DEF Init
  <2>5. at \in [Stores -> Orders] /\ price \in [Stores -> Prices \cup {Null}]
    BY <2>1, QuotesAssumption DEF Init
  <2>6. QED
    BY <2>2, <2>3, <2>4, <2>5, IdleType, NewSectionType, RunType DEF Init, TypeOK
<1>2. OrdersOK /\ AcceptedIsPriced
  BY QuotesAssumption DEF Init, OrdersOK, AcceptedIsPriced
<1>3. AcceptedHasDocument
  BY DEF Init, AcceptedHasDocument, NewSection
<1>4. Acceptances
  BY DEF Init, Acceptances, AcceptOK, Accepting, At, IdleCall
<1>5. \A s \in Stores : ToldOK(s)
  BY DEF Init, ToldOK
<1>6. \A r \in Replicas : RunOK(r)
  BY DEF Init, RunOK, IdleRun
<1>7. QED
  BY <1>1, <1>2, <1>3, <1>4, <1>5, <1>6 DEF IInv

LEMMA StutterOK == IInv /\ UNCHANGED vars => IInv'
<1> SUFFICES ASSUME IInv, UNCHANGED vars PROVE IInv'
  OBVIOUS
<1>1. UNCHANGED <<order, at, price, quotes, section, calls, run, told>>
  BY DEF vars
<1>2. CallsTyped' /\ \A p \in Procs : At(p, "accept")' => calls'[p] = calls[p]
  BY <1>1 DEF IInv, TypeOK, CallsTyped
<1>3. QED
  BY <1>1, <1>2, SectionStays, SectionStep

\* The invariant is inductive: it holds in every state of every behaviour
THEOREM Inductive == Spec => []IInv
<1>1. ASSUME IInv, [Next]_vars PROVE IInv'
  <2>1. ASSUME NEW p \in Procs, Request(p) PROVE IInv'
    BY <1>1, <2>1, SendBeginOK, RequestOK, AcceptBeginOK DEF Request
  <2>2. ASSUME NEW p \in Procs, Answer(p) PROVE IInv'
    BY <1>1, <2>2, SendOK, SendMarkOK, IssueOK, StatusOK, AcceptOKs DEF Answer
  <2>3. ASSUME NEW r \in Replicas, Sweep(r) \/ SweepDies(r) PROVE IInv'
    BY <1>1, <2>3, SweepOK, SweepRowOK DEF Sweep
  <2>4. QED
    BY <1>1, <2>1, <2>2, <2>3, TimeOK, StutterOK DEF Next
<1>2. QED
  BY <1>1, InitOK, PTL DEF Spec

\* Every variable keeps its type: no version is out of range, no row half there
THEOREM TypeCorrect == Spec => []TypeOK
<1>1. IInv => TypeOK
  BY DEF IInv
<1>2. QED
  BY <1>1, Inductive, PTL

\* accept and the other handlers: an accepted order has lines, all priced
THEOREM PricedCorrect == Spec => []AcceptedIsPriced
<1>1. IInv => AcceptedIsPriced
  BY DEF IInv
<1>2. QED
  BY <1>1, Inductive, PTL

\* accept: the accepted version is found with the lines, wherever they moved
THEOREM DocumentCorrect == Spec => []AcceptedHasDocument
<1>1. IInv => AcceptedHasDocument
  BY DEF IInv
<1>2. QED
  BY <1>1, Inductive, PTL

\* sweepSections: one reminder and one timeout, however many replicas sweep
THEOREM ToldOnceCorrect == Spec => []ToldOnce
<1>1. IInv => ToldOnce
  BY DEF IInv, ToldOnce, ToldOK
<1>2. QED
  BY <1>1, Inductive, PTL

=============================================================================
