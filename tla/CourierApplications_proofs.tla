---------------------- MODULE CourierApplications_proofs ----------------------
(***************************************************************************)
(* Theorems about applications, for any number of them, of documents, of   *)
(* invitations, phones and requests.                                       *)
(*                                                                         *)
(* That an application has its papers rests on a chain: the clean-up lists *)
(* aged applications only, an aged one is refused and no request works on  *)
(* it, and a request to re-submit knows of papers that are there already.  *)
(***************************************************************************)
EXTENDS CourierApplications, TLAPS

Papers(a) == \E d \in Docs : doc[d].app = a /\ doc[d].at \in {"application", "courier"}

\* The invitation of an application is its own
InviteOK(a) == app[a].invite # Null => invite[app[a].invite].app = a

HiredOK(a) ==
  /\ app[a].status # "none" => app[a].phone \in Phones
  /\ app[a].status = "approved" =>
       /\ account[app[a].phone] = a
       /\ DocsOf(a) = {}
       /\ app[a].invite # Null => a \in members /\ invite[app[a].invite].accepted

PapersOK(a) == app[a].status = "pending" => Papers(a)

\* What is listed to be emptied is refused, and stays so
AgedOK(a) ==
  /\ app[a].aged => app[a].status \in Refused
  /\ a \in sweep => app[a].aged

AppOK(a) == InviteOK(a) /\ HiredOK(a) /\ PapersOK(a) /\ AgedOK(a)

CallOK(c) ==
  /\ c.step = "create" => c.phone \in Phones /\ c.docs # {}
  /\ c.step \in {"resubmit", "withdraw", "approve"} => c.app # Null
  /\ c.step = "resubmit" => c.docs # {} \/ Papers(c.app)
  /\ c.app # Null => app[c.app].status # "none" /\ ~app[c.app].aged
  /\ c.step = "invite" => c.phone \in Phones
  /\ c.step = "revoke" => c.inv \in Invites

IInv ==
  /\ TypeOK
  /\ \A a \in Apps : AppOK(a)
  /\ \A p \in Procs : CallOK(calls[p])

-----------------------------------------------------------------------------
LEMMA IdleOK == IdleCall \in Call /\ CallOK(IdleCall) /\ CallOK(IdleCall)'
  BY ApplicationsAssumption DEF IdleCall, Call, CallOK

LEMMA InitOK == Init => IInv
  <1> SUFFICES ASSUME Init PROVE IInv
    OBVIOUS
  <1> USE ApplicationsAssumption
  <1>1. TypeOK
    <2>1. app \in [Apps -> Application] /\ doc \in [Docs -> Document]
      BY DEF Init, Application, Document
    <2>2. invite \in [Invites -> Invitation]
      BY DEF Init, Invitation
    <2>3. QED
      BY <2>1, <2>2, IdleOK DEF Init, TypeOK
  <1>2. ASSUME NEW a \in Apps PROVE AppOK(a)
    BY DEF Init, AppOK, InviteOK, HiredOK, PapersOK, AgedOK
  <1>3. ASSUME NEW p \in Procs PROVE CallOK(calls[p])
    BY IdleOK DEF Init
  <1>4. QED
    BY <1>1, <1>2, <1>3 DEF IInv

-----------------------------------------------------------------------------
(***************************************************************************)
(* A request that begins: it reads, and remembers what is so.              *)
(***************************************************************************)
LEMMA BeginOK ==
  ASSUME IInv, NEW p \in Procs, NEW c \in Call, CallOK(c), Begin(p, c),
         UNCHANGED <<app, doc, invite, account, members, crewActive, sweep>>
  PROVE  IInv'
  <1>1. TypeOK'
    BY DEF IInv, TypeOK, Begin
  <1>2. \A a \in Apps : AppOK(a)'
    BY DEF IInv, AppOK, InviteOK, HiredOK, PapersOK, AgedOK, Papers, DocsOf
  <1>3. \A q \in Procs : calls'[q] = c \/ calls'[q] = calls[q]
    BY DEF IInv, TypeOK, Begin
  <1>4. ASSUME NEW q \in Procs PROVE CallOK(calls[q])' /\ (calls'[q] = c => CallOK(c)')
    BY <1>3 DEF IInv, CallOK, Papers
  <1>5. QED
    BY <1>1, <1>2, <1>4 DEF IInv

(***************************************************************************)
(* Requests that are under way stay right when nothing they rest on goes.  *)
(***************************************************************************)
LEMMA CallsStay ==
  ASSUME IInv, \A q \in Procs : calls'[q] = IdleCall \/ calls'[q] = calls[q],
         \A a \in Apps : \A q \in Procs : calls[q].app = a =>
           app'[a].status # "none" /\ ~app'[a].aged /\ (Papers(a) => Papers(a)')
  PROVE  \A q \in Procs : CallOK(calls[q])'
  <1> SUFFICES ASSUME NEW q \in Procs PROVE CallOK(calls[q])'
    OBVIOUS
  <1>1. CASE calls'[q] = IdleCall
    BY <1>1, IdleOK DEF CallOK
  <1>2. CASE calls'[q] = calls[q]
    <2>1. calls[q] \in Call /\ CallOK(calls[q])
      BY DEF IInv, TypeOK
    <2>2. PICK a \in Apps \cup {Null} : a = calls[q].app
      BY <2>1 DEF Call
    <2>3. a # Null => app'[a].status # "none" /\ ~app'[a].aged /\ (Papers(a) => Papers(a)')
      BY <2>2
    <2>4. QED
      BY <1>2, <2>1, <2>2, <2>3 DEF CallOK
  <1>3. QED
    BY <1>1, <1>2

LEMMA RequestOK == ASSUME IInv, NEW p \in Procs, Request(p) PROVE IInv'
  <1> USE ApplicationsAssumption
  <1>1. CASE \E ph \in Phones, i \in Invites \cup {Null}, docs \in SUBSET Docs :
               CreateBegin(p, ph, i, docs)
    <2>1. PICK ph \in Phones, i \in Invites \cup {Null}, docs \in SUBSET Docs :
            CreateBegin(p, ph, i, docs)
      BY <1>1
    <2> DEFINE c == [IdleCall EXCEPT !.step = "create", !.phone = ph, !.inv = i, !.docs = docs]
    <2>2. c \in Call /\ c.step = "create" /\ c.phone = ph /\ c.docs = docs /\ c.app = Null
      BY DEF IdleCall, Call
    <2>3. Begin(p, c) /\ docs # {}
          /\ UNCHANGED <<app, doc, invite, account, members, crewActive, sweep>>
      BY <2>1 DEF CreateBegin, Presentable
    <2> HIDE DEF c
    <2>4. CallOK(c)
      BY <2>2, <2>3 DEF CallOK
    <2>5. QED
      BY <2>2, <2>3, <2>4, BeginOK
  <1>2. CASE \E ph \in Phones : CreateInviteBegin(p, ph)
    <2>1. PICK ph \in Phones : CreateInviteBegin(p, ph)
      BY <1>2
    <2> DEFINE c == [IdleCall EXCEPT !.step = "invite", !.phone = ph]
    <2>2. c \in Call /\ c.step = "invite" /\ c.phone = ph /\ c.app = Null
      BY DEF IdleCall, Call
    <2>3. Begin(p, c) /\ UNCHANGED <<app, doc, invite, account, members, crewActive, sweep>>
      BY <2>1 DEF CreateInviteBegin
    <2> HIDE DEF c
    <2>4. CallOK(c)
      BY <2>2 DEF CallOK
    <2>5. QED
      BY <2>2, <2>3, <2>4, BeginOK
  <1>3. CASE \E a \in Apps, docs \in SUBSET Docs : ResubmitBegin(p, a, docs)
    <2>1. PICK a \in Apps, docs \in SUBSET Docs : ResubmitBegin(p, a, docs)
      BY <1>3
    <2> DEFINE c == [IdleCall EXCEPT !.step = "resubmit", !.app = a, !.docs = docs]
    <2>2. c \in Call /\ c.step = "resubmit" /\ c.app = a /\ c.docs = docs
      BY DEF IdleCall, Call
    <2>3. /\ Begin(p, c) /\ UNCHANGED <<app, doc, invite, account, members, crewActive, sweep>>
          /\ app[a].status = "needs_info" /\ DocsOf(a) \cup docs # {}
      BY <2>1 DEF ResubmitBegin
    <2> HIDE DEF c
    <2>4. docs # {} \/ Papers(a)
      BY <2>3 DEF DocsOf, Papers
    <2>5. ~app[a].aged
      BY <2>3 DEF IInv, AppOK, AgedOK, Refused
    <2>6. CallOK(c)
      BY <2>2, <2>3, <2>4, <2>5 DEF CallOK
    <2>7. QED
      BY <2>2, <2>3, <2>6, BeginOK
  <1>4. CASE \E a \in Apps : WithdrawBegin(p, a) \/ ApproveBegin(p, a)
    <2>1. PICK a \in Apps, step \in {"withdraw", "approve"} :
            /\ Begin(p, [IdleCall EXCEPT !.step = step, !.app = a])
            /\ UNCHANGED <<app, doc, invite, account, members, crewActive, sweep>>
            /\ app[a].status \in OPEN_STATUSES
      BY <1>4 DEF WithdrawBegin, ApproveBegin
    <2> DEFINE c == [IdleCall EXCEPT !.step = step, !.app = a]
    <2>2. c \in Call /\ c.step = step /\ c.app = a
      BY DEF IdleCall, Call
    <2>3. Begin(p, c)
      BY <2>1
    <2> HIDE DEF c
    <2>4. ~app[a].aged /\ app[a].status # "none"
      BY <2>1 DEF IInv, AppOK, AgedOK, Refused, OPEN_STATUSES
    <2>5. CallOK(c)
      BY <2>2, <2>4 DEF CallOK
    <2>6. QED
      BY <2>1, <2>2, <2>3, <2>5, BeginOK
  <1>5. CASE \E i \in Invites : RevokeInviteBegin(p, i)
    <2>1. PICK i \in Invites : RevokeInviteBegin(p, i)
      BY <1>5
    <2> DEFINE c == [IdleCall EXCEPT !.step = "revoke", !.inv = i]
    <2>2. c \in Call /\ c.step = "revoke" /\ c.inv = i /\ c.app = Null
      BY DEF IdleCall, Call
    <2>3. Begin(p, c) /\ UNCHANGED <<app, doc, invite, account, members, crewActive, sweep>>
      BY <2>1 DEF RevokeInviteBegin
    <2> HIDE DEF c
    <2>4. CallOK(c)
      BY <2>2 DEF CallOK
    <2>5. QED
      BY <2>2, <2>3, <2>4, BeginOK
  <1>6. QED
    BY <1>1, <1>2, <1>3, <1>4, <1>5 DEF Request

-----------------------------------------------------------------------------
(***************************************************************************)
(* Documents that nobody has under review come and go, and those of the    *)
(* applications listed by the clean-up.                                    *)
(***************************************************************************)
LEMMA DocumentsOK ==
  ASSUME IInv, doc' \in [Docs -> Document],
         UNCHANGED <<app, invite, account, members, crewActive, calls>>,
         sweep' \subseteq Apps, \A a \in sweep' : app[a].aged,
         \A d \in Docs : doc'[d].at \in {"application", "courier"} => doc'[d] = doc[d],
         \A d \in Docs : doc[d].at \in {"application", "courier"} =>
           doc'[d] = doc[d] \/ (doc[d].app \in Apps /\ app[doc[d].app].aged)
  PROVE  IInv'
  <1>1. TypeOK'
    BY DEF IInv, TypeOK
  <1>2. ASSUME NEW a \in Apps, ~app[a].aged PROVE Papers(a) => Papers(a)'
    BY <1>2 DEF Papers
  <1>3. ASSUME NEW a \in Apps PROVE AppOK(a)'
    <2>1. AppOK(a)
      BY DEF IInv
    <2>2. DocsOf(a)' \subseteq DocsOf(a)
      BY DEF DocsOf
    <2>3. HiredOK(a)'
      BY <2>1, <2>2 DEF AppOK, HiredOK
    <2>4. PapersOK(a)'
      BY <1>2, <2>1 DEF AppOK, PapersOK, AgedOK, Refused
    <2>5. QED
      BY <2>1, <2>3, <2>4 DEF AppOK, InviteOK, AgedOK
  <1>4. \A q \in Procs : CallOK(calls[q])'
    <2>1. \A a \in Apps : \A q \in Procs : calls[q].app = a =>
            app'[a].status # "none" /\ ~app'[a].aged
      BY ApplicationsAssumption DEF IInv, CallOK
    <2>2. QED
      BY <1>2, <2>1, CallsStay
  <1>5. QED
    BY <1>1, <1>3, <1>4 DEF IInv

LEMMA CleanUpOK ==
  ASSUME IInv,
         \/ \E d \in Docs : UploadDocument(d) \/ DocumentAges(d)
         \/ CleanUp
  PROVE  IInv'
  <1> USE ApplicationsAssumption
  <1>0. doc \in [Docs -> Document] /\ \A d \in Docs : doc[d] \in Document
    BY DEF IInv, TypeOK
  <1>1. CASE \E d \in Docs : UploadDocument(d) \/ DocumentAges(d)
    <2>1. PICK d \in Docs, moved \in {"free", "stale"} :
            /\ doc' = [doc EXCEPT ![d].at = moved] /\ doc[d].at \in {"new", "free"}
            /\ UNCHANGED <<app, invite, account, members, crewActive, calls, sweep>>
      BY <1>1 DEF UploadDocument, DocumentAges
    <2>2. doc'[d].at = moved /\ doc'[d] \in Document /\ \A e \in Docs \ {d} : doc'[e] = doc[e]
      BY <1>0, <2>1 DEF Document
    <2>3. doc' \in [Docs -> Document]
      BY <1>0, <2>1, <2>2
    <2>4. sweep' \subseteq Apps /\ \A a \in sweep' : app[a].aged
      BY <2>1 DEF IInv, TypeOK, AppOK, AgedOK
    <2>5. QED
      BY <2>1, <2>2, <2>3, <2>4, DocumentsOK
  <1>2. CASE Maintenance
    <2>1. doc' = [d \in Docs |-> IF doc[d].at = "stale" THEN [doc[d] EXCEPT !.at = "gone"]
                                                        ELSE doc[d]]
      BY <1>2 DEF Maintenance
    <2>2. \A d \in Docs : [doc[d] EXCEPT !.at = "gone"] \in Document
                          /\ [doc[d] EXCEPT !.at = "gone"].at = "gone"
      BY <1>0 DEF Document
    <2>3. doc' \in [Docs -> Document]
      BY <1>0, <2>1, <2>2
    <2>4. sweep' \subseteq Apps /\ \A a \in sweep' : app[a].aged
      BY <1>2 DEF Maintenance
    <2>5. /\ \A d \in Docs : doc'[d].at \in {"application", "courier"} => doc'[d] = doc[d]
          /\ \A d \in Docs : doc[d].at \in {"application", "courier"} => doc'[d] = doc[d]
      BY <2>1, <2>2
    <2>6. UNCHANGED <<app, invite, account, members, crewActive, calls>>
      BY <1>2 DEF Maintenance
    <2>7. QED
      BY <2>3, <2>4, <2>5, <2>6, DocumentsOK
  <1>3. CASE \E a \in Apps : Purge(a)
    <2>1. PICK a \in Apps : Purge(a)
      BY <1>3
    <2>2. app[a].aged /\ sweep' = sweep \ {a}
          /\ UNCHANGED <<app, invite, account, members, crewActive, calls>>
      BY <2>1 DEF Purge, IInv, AppOK, AgedOK
    <2>3. \A d \in Docs : IF doc[d] = [at |-> "application", app |-> a]
                            THEN doc'[d] = [doc[d] EXCEPT !.at = "purged"]
                            ELSE doc'[d] = doc[d]
      BY <2>1 DEF Purge, DocsOf
    <2>4. \A d \in Docs : [doc[d] EXCEPT !.at = "purged"] \in Document
                          /\ [doc[d] EXCEPT !.at = "purged"].at = "purged"
      BY <1>0 DEF Document
    <2>5. doc' = [d \in Docs |-> doc'[d]]
      BY <2>1 DEF Purge
    <2>6. doc' \in [Docs -> Document]
      BY <1>0, <2>3, <2>4, <2>5
    <2>7. sweep' \subseteq Apps /\ \A b \in sweep' : app[b].aged
      BY <2>2 DEF IInv, TypeOK, AppOK, AgedOK
    <2>8. \A d \in Docs : doc'[d].at \in {"application", "courier"} => doc'[d] = doc[d]
      BY <2>3, <2>4
    <2>9. ASSUME NEW d \in Docs, doc'[d] # doc[d] PROVE doc[d].app \in Apps /\ app[doc[d].app].aged
      <3>1. doc[d] = [at |-> "application", app |-> a]
        BY <2>3, <2>9
      <3>2. doc[d].app = a
        BY <3>1
      <3>3. QED
        BY <2>2, <3>2
    <2>10. QED
      BY <2>2, <2>6, <2>7, <2>8, <2>9, DocumentsOK
  <1>4. QED
    BY <1>1, <1>2, <1>3 DEF CleanUp

(***************************************************************************)
(* The superadmin's other decisions, and time: one application changes its *)
(* status, to one that is not approved and, unless it has papers, not      *)
(* pending either.                                                         *)
(***************************************************************************)
LEMMA DecidedOK ==
  ASSUME IInv, NEW a \in Apps, NEW columns \in Application,
         app' = [app EXCEPT ![a] = columns],
         app[a].status # "none", columns.status \notin {"none", "approved", "pending"},
         columns.phone = app[a].phone, columns.invite = app[a].invite,
         columns.aged => columns.status \in Refused /\ \A q \in Procs : calls[q].app # a,
         a \in sweep => columns.aged,
         UNCHANGED <<doc, invite, account, members, crewActive, sweep>>,
         calls' \in [Procs -> Call],
         \A q \in Procs : calls'[q] = IdleCall \/ calls'[q] = calls[q]
  PROVE  IInv'
  <1>1. app'[a] = columns /\ \A b \in Apps \ {a} : app'[b] = app[b]
    BY DEF IInv, TypeOK
  <1>2. TypeOK'
    BY DEF IInv, TypeOK
  <1>3. ASSUME NEW b \in Apps PROVE AppOK(b)'
    <2>1. AppOK(b) /\ AppOK(a)
      BY DEF IInv
    <2>2. CASE b = a
      BY <1>1, <2>1, <2>2 DEF AppOK, InviteOK, HiredOK, PapersOK, AgedOK
    <2>3. CASE b # a
      BY <1>1, <2>1, <2>3 DEF AppOK, InviteOK, HiredOK, PapersOK, AgedOK, DocsOf, Papers
    <2>4. QED
      BY <2>2, <2>3
  <1>4. \A q \in Procs : CallOK(calls[q])'
    <2>1. \A b \in Apps : \A q \in Procs : calls[q].app = b =>
            app'[b].status # "none" /\ ~app'[b].aged /\ (Papers(b) => Papers(b)')
      BY <1>1, ApplicationsAssumption DEF IInv, CallOK, Papers
    <2>2. QED
      BY <2>1, CallsStay
  <1>5. QED
    BY <1>2, <1>3, <1>4 DEF IInv

LEMMA DecisionOK ==
  ASSUME IInv, NEW a \in Apps,
         \/ RejectApplication(a) \/ ApplicationAges(a)
         \/ \E missing \in BOOLEAN : RequestInfo(a, missing)
  PROVE  IInv'
  <1>0. /\ app[a] \in Application /\ calls \in [Procs -> Call]
        /\ app[a].aged => app[a].status \in Refused
        /\ a \in sweep => app[a].aged
    BY DEF IInv, TypeOK, AppOK, AgedOK
  <1>1. CASE RejectApplication(a)
    <2> DEFINE columns == [app[a] EXCEPT !.status = "rejected", !.aged = FALSE]
    <2>1. /\ app' = [app EXCEPT ![a] = columns] /\ app[a].status \in OPEN_STATUSES
          /\ UNCHANGED <<doc, invite, account, members, crewActive, calls, sweep>>
      BY <1>1 DEF RejectApplication, IInv, TypeOK
    <2>2. /\ columns \in Application /\ columns.status = "rejected" /\ ~columns.aged
          /\ columns.phone = app[a].phone /\ columns.invite = app[a].invite
      BY <1>0 DEF Application, Refused
    <2> HIDE DEF columns
    <2>3. a \notin sweep /\ app[a].status # "none"
      BY <1>0, <2>1 DEF OPEN_STATUSES, Refused
    <2>4. QED
      BY <1>0, <2>1, <2>2, <2>3, DecidedOK
  <1>2. CASE \E missing \in BOOLEAN : RequestInfo(a, missing)
    <2>0. PICK missing \in BOOLEAN : RequestInfo(a, missing)
      BY <1>2
    <2> DEFINE columns == [app[a] EXCEPT !.status = "needs_info", !.missing = missing]
    <2>1. /\ app' = [app EXCEPT ![a] = columns] /\ app[a].status \in OPEN_STATUSES
          /\ UNCHANGED <<doc, invite, account, members, crewActive, calls, sweep>>
      BY <2>0 DEF RequestInfo, IInv, TypeOK
    <2>2. /\ columns \in Application /\ columns.status = "needs_info" /\ columns.aged = app[a].aged
          /\ columns.phone = app[a].phone /\ columns.invite = app[a].invite
      BY <1>0 DEF Application, PHONE_BUSY_STATUSES, OPEN_STATUSES
    <2> HIDE DEF columns
    <2>3. a \notin sweep /\ app[a].status # "none" /\ ~app[a].aged
      BY <1>0, <2>1 DEF OPEN_STATUSES, Refused
    <2>4. QED
      BY <1>0, <2>1, <2>2, <2>3, DecidedOK
  <1>3. CASE ApplicationAges(a)
    <2> DEFINE columns == [app[a] EXCEPT !.aged = TRUE]
    <2>1. /\ app' = [app EXCEPT ![a] = columns] /\ app[a].status \in Refused
          /\ \A p \in Procs : calls[p].app # a
          /\ UNCHANGED <<doc, invite, account, members, crewActive, calls, sweep>>
      BY <1>3 DEF ApplicationAges, IInv, TypeOK
    <2>2. /\ columns \in Application /\ columns.status = app[a].status /\ columns.aged
          /\ columns.phone = app[a].phone /\ columns.invite = app[a].invite
      BY <1>0 DEF Application
    <2> HIDE DEF columns
    <2>3. app[a].status \notin {"none", "approved", "pending"}
      BY <2>1 DEF Refused
    <2>4. QED
      BY <1>0, <2>1, <2>2, <2>3, DecidedOK
  <1>4. QED
    BY <1>1, <1>2, <1>3

LEMMA WithdrawOK == ASSUME IInv, NEW p \in Procs, WithdrawCommit(p) PROVE IInv'
  <1>1. PICK a \in Apps : a = calls[p].app
    BY DEF IInv, TypeOK, CallOK, Call, WithdrawCommit, At
  <1>2. /\ app[a] \in Application /\ calls \in [Procs -> Call] /\ app[a].status # "none"
        /\ ~app[a].aged /\ a \notin sweep
    BY <1>1, ApplicationsAssumption DEF IInv, TypeOK, AppOK, AgedOK, CallOK
  <1> DEFINE columns == [app[a] EXCEPT !.status = "withdrawn", !.aged = FALSE]
  <1>3. /\ app' = [app EXCEPT ![a] = columns] /\ calls' = [calls EXCEPT ![p] = IdleCall]
        /\ UNCHANGED <<doc, invite, account, members, crewActive, sweep>>
    BY <1>1 DEF WithdrawCommit, End, IInv, TypeOK
  <1>4. /\ columns \in Application /\ columns.status = "withdrawn" /\ ~columns.aged
        /\ columns.phone = app[a].phone /\ columns.invite = app[a].invite
    BY <1>2 DEF Application, Refused
  <1> HIDE DEF columns
  <1>5. /\ calls' \in [Procs -> Call]
        /\ \A q \in Procs : calls'[q] = IdleCall \/ calls'[q] = calls[q]
    BY <1>2, <1>3, IdleOK
  <1>6. QED
    BY <1>2, <1>3, <1>4, <1>5, DecidedOK

(***************************************************************************)
(* Invitations made, expired and revoked, accounts opened elsewhere, and   *)
(* requests dropped: nothing that an application rests on is taken away.   *)
(***************************************************************************)
LEMMA AroundOK ==
  ASSUME IInv, UNCHANGED <<app, doc, members, sweep>>,
         invite' \in [Invites -> Invitation], crewActive' \in BOOLEAN,
         \A i \in Invites : invite'[i].app = invite[i].app
                            /\ (invite[i].accepted => invite'[i].accepted),
         account' \in [Phones -> Apps \cup {Null, "elsewhere"}],
         \A ph \in Phones : account[ph] # Null => account'[ph] = account[ph],
         calls' \in [Procs -> Call],
         \A q \in Procs : calls'[q] = IdleCall \/ calls'[q] = calls[q]
  PROVE  IInv'
  <1> USE ApplicationsAssumption
  <1>1. TypeOK'
    BY DEF IInv, TypeOK
  <1>2. ASSUME NEW a \in Apps PROVE AppOK(a)'
    <2>1. AppOK(a) /\ app[a] \in Application
      BY DEF IInv, TypeOK
    <2>2. PICK i \in Invites \cup {Null} : i = app[a].invite
      BY <2>1 DEF Application
    <2>3. InviteOK(a)'
      BY <2>1, <2>2 DEF AppOK, InviteOK
    <2>4. HiredOK(a)'
      BY <2>1, <2>2 DEF AppOK, HiredOK, DocsOf
    <2>5. QED
      BY <2>1, <2>3, <2>4 DEF AppOK, PapersOK, AgedOK, Papers
  <1>3. \A q \in Procs : CallOK(calls[q])'
    <2>1. \A a \in Apps : \A q \in Procs : calls[q].app = a =>
            app'[a].status # "none" /\ ~app'[a].aged /\ (Papers(a) => Papers(a)')
      BY DEF IInv, CallOK, Papers
    <2>2. QED
      BY <2>1, CallsStay
  <1>4. QED
    BY <1>1, <1>2, <1>3 DEF IInv

LEMMA AroundStep ==
  ASSUME IInv,
         \/ \E p \in Procs : \/ \E i \in Invites : CreateInviteCommit(p, i)
                             \/ RevokeInviteCommit(p) \/ Drop(p)
         \/ \E i \in Invites : InviteExpires(i)
         \/ \E ph \in Phones : AccountElsewhere(ph)
         \/ UpdateCrew
  PROVE  IInv'
  <1>0. /\ invite \in [Invites -> Invitation] /\ calls \in [Procs -> Call]
        /\ account \in [Phones -> Apps \cup {Null, "elsewhere"}] /\ crewActive \in BOOLEAN
        /\ \A p \in Procs : calls[p] \in Call /\ CallOK(calls[p])
        /\ \A i \in Invites : invite[i] \in Invitation
    BY DEF IInv, TypeOK
  <1>1. ASSUME NEW p \in Procs, NEW i \in Invites, CreateInviteCommit(p, i) PROVE IInv'
    <2>1. PICK ph \in Phones : ph = calls[p].phone
      BY <1>0, <1>1 DEF CallOK, CreateInviteCommit, At
    <2> DEFINE columns == [invite[i] EXCEPT !.phone = ph]
    <2>2. /\ invite' = [invite EXCEPT ![i] = columns] /\ calls' = [calls EXCEPT ![p] = IdleCall]
          /\ UNCHANGED <<app, doc, account, members, crewActive, sweep>>
      BY <1>0, <1>1, <2>1 DEF CreateInviteCommit, End
    <2>3. /\ columns \in Invitation /\ columns.app = invite[i].app
          /\ columns.accepted = invite[i].accepted
      BY <1>0 DEF Invitation
    <2> HIDE DEF columns
    <2>4. /\ invite' \in [Invites -> Invitation]
          /\ \A j \in Invites : invite'[j].app = invite[j].app
                                /\ (invite[j].accepted => invite'[j].accepted)
      BY <1>0, <2>2, <2>3
    <2>5. /\ calls' \in [Procs -> Call]
          /\ \A q \in Procs : calls'[q] = IdleCall \/ calls'[q] = calls[q]
      BY <1>0, <2>2, IdleOK
    <2>6. QED
      BY <1>0, <2>2, <2>4, <2>5, AroundOK
  <1>2. ASSUME NEW p \in Procs, RevokeInviteCommit(p) PROVE IInv'
    <2>1. PICK i \in Invites : i = calls[p].inv
      BY <1>0, <1>2 DEF CallOK, RevokeInviteCommit, At
    <2> DEFINE columns == [invite[i] EXCEPT !.revoked = TRUE]
    <2>2. /\ invite' = [invite EXCEPT ![i] = columns] /\ calls' = [calls EXCEPT ![p] = IdleCall]
          /\ UNCHANGED <<app, doc, account, members, crewActive, sweep>>
      BY <1>0, <1>2, <2>1 DEF RevokeInviteCommit, End
    <2>3. /\ columns \in Invitation /\ columns.app = invite[i].app
          /\ columns.accepted = invite[i].accepted
      BY <1>0 DEF Invitation
    <2> HIDE DEF columns
    <2>4. /\ invite' \in [Invites -> Invitation]
          /\ \A j \in Invites : invite'[j].app = invite[j].app
                                /\ (invite[j].accepted => invite'[j].accepted)
      BY <1>0, <2>2, <2>3
    <2>5. /\ calls' \in [Procs -> Call]
          /\ \A q \in Procs : calls'[q] = IdleCall \/ calls'[q] = calls[q]
      BY <1>0, <2>2, IdleOK
    <2>6. QED
      BY <1>0, <2>2, <2>4, <2>5, AroundOK
  <1>3. ASSUME NEW p \in Procs, Drop(p) PROVE IInv'
    <2>1. /\ calls' = [calls EXCEPT ![p] = IdleCall]
          /\ UNCHANGED <<app, doc, invite, account, members, crewActive, sweep>>
      BY <1>3 DEF Drop, End
    <2>2. /\ calls' \in [Procs -> Call]
          /\ \A q \in Procs : calls'[q] = IdleCall \/ calls'[q] = calls[q]
      BY <1>0, <2>1, IdleOK
    <2>3. QED
      BY <1>0, <2>1, <2>2, AroundOK
  <1>4. ASSUME NEW i \in Invites, InviteExpires(i) PROVE IInv'
    <2> DEFINE columns == [invite[i] EXCEPT !.expired = TRUE]
    <2>1. /\ invite' = [invite EXCEPT ![i] = columns]
          /\ UNCHANGED <<app, doc, account, members, crewActive, calls, sweep>>
      BY <1>0, <1>4 DEF InviteExpires
    <2>2. /\ columns \in Invitation /\ columns.app = invite[i].app
          /\ columns.accepted = invite[i].accepted
      BY <1>0 DEF Invitation
    <2> HIDE DEF columns
    <2>3. /\ invite' \in [Invites -> Invitation]
          /\ \A j \in Invites : invite'[j].app = invite[j].app
                                /\ (invite[j].accepted => invite'[j].accepted)
      BY <1>0, <2>1, <2>2
    <2>4. QED
      BY <1>0, <2>1, <2>3, AroundOK
  <1>5. ASSUME NEW ph \in Phones, AccountElsewhere(ph) PROVE IInv'
    BY <1>0, <1>5, AroundOK DEF AccountElsewhere
  <1>6. CASE UpdateCrew
    BY <1>0, <1>6, AroundOK DEF UpdateCrew
  <1>7. QED
    BY <1>1, <1>2, <1>3, <1>4, <1>5, <1>6

-----------------------------------------------------------------------------
(***************************************************************************)
(* LinkDocuments takes papers of no application.                           *)
(***************************************************************************)
LEMMA LinkOK ==
  ASSUME IInv, NEW a \in Apps, NEW docs \in SUBSET Docs, LinkDocuments(a, docs)
  PROVE  /\ doc' \in [Docs -> Document]
         /\ docs # {} => Papers(a)'
         /\ \A b \in Apps : Papers(b) => Papers(b)'
         /\ \A b \in Apps \ {a} : DocsOf(b)' = DocsOf(b)
  <1>0. doc \in [Docs -> Document] /\ \A d \in Docs : doc[d] \in Document
    BY DEF IInv, TypeOK
  <1> DEFINE linked == [at |-> "application", app |-> a]
  <1>1. linked \in Document /\ linked.at = "application" /\ linked.app = a
    BY DEF Document
  <1>2. /\ \A d \in docs : doc'[d] = linked /\ doc[d].at \in {"free", "stale"}
        /\ \A d \in Docs \ docs : doc'[d] = doc[d]
        /\ doc' = [d \in Docs |-> doc'[d]]
    BY DEF LinkDocuments, Free
  <1> HIDE DEF linked
  <1>3. doc' \in [Docs -> Document]
    BY <1>0, <1>1, <1>2
  <1>4. docs # {} => Papers(a)'
    BY <1>1, <1>2 DEF Papers
  <1>5. \A b \in Apps : Papers(b) => Papers(b)'
    BY <1>2 DEF Papers
  <1>6. ASSUME NEW b \in Apps \ {a}, NEW d \in Docs
        PROVE  doc'[d] = [at |-> "application", app |-> b]
                 <=> doc[d] = [at |-> "application", app |-> b]
    <2>1. CASE d \in docs
      <3>1. doc'[d].app # b /\ doc[d].at # "application"
        BY <1>1, <1>2, <1>6, <2>1
      <3>2. QED
        BY <3>1
    <2>2. CASE d \notin docs
      BY <1>2, <2>2
    <2>3. QED
      BY <2>1, <2>2
  <1>7. \A b \in Apps \ {a} : DocsOf(b)' = DocsOf(b)
    BY <1>6 DEF DocsOf
  <1>8. QED
    BY <1>3, <1>4, <1>5, <1>7

LEMMA CreateOK == ASSUME IInv, NEW p \in Procs, NEW a \in Apps, CreateCommit(p, a) PROVE IInv'
  <1> USE ApplicationsAssumption
  <1>1. PICK ph \in Phones, i \in Invites \cup {Null}, docs \in SUBSET Docs :
          ph = calls[p].phone /\ i = calls[p].inv /\ docs = calls[p].docs /\ docs # {}
    BY DEF CreateCommit, At, IInv, TypeOK, Call, CallOK
  <1> DEFINE columns == [status |-> "pending", phone |-> ph, invite |-> i,
                         missing |-> FALSE, aged |-> FALSE]
  <1>2. /\ columns \in Application /\ columns.status = "pending" /\ ~columns.aged
        /\ columns.phone = ph /\ columns.invite = i
    BY DEF Application, PHONE_BUSY_STATUSES, OPEN_STATUSES
  <1>3. /\ app' = [app EXCEPT ![a] = columns] /\ app[a].status = "none"
        /\ LinkInvite(i, a) /\ LinkDocuments(a, docs)
        /\ calls' = [calls EXCEPT ![p] = IdleCall]
        /\ UNCHANGED <<account, members, crewActive, sweep>>
    BY <1>1 DEF CreateCommit, End
  <1> HIDE DEF columns
  <1>4. app'[a] = columns /\ \A b \in Apps \ {a} : app'[b] = app[b]
    BY <1>3 DEF IInv, TypeOK
  <1>5. /\ invite' \in [Invites -> Invitation]
        /\ \A j \in Invites : invite'[j].accepted = invite[j].accepted
        /\ \A j \in Invites : invite[j].app # Null => invite'[j].app = invite[j].app
        /\ i # Null => invite'[i].app = a
    <2>0. invite \in [Invites -> Invitation]
      BY DEF IInv, TypeOK
    <2>1. CASE i = Null
      BY <1>3, <2>0, <2>1 DEF LinkInvite
    <2>2. CASE i # Null
      <3> DEFINE row == [invite[i] EXCEPT !.app = a]
      <3>1. invite' = [invite EXCEPT ![i] = row] /\ invite[i].app = Null /\ i \in Invites
        BY <1>3, <2>2, <2>0 DEF LinkInvite
      <3>2. row \in Invitation /\ row.app = a /\ row.accepted = invite[i].accepted
        BY <2>0, <3>1 DEF Invitation
      <3> HIDE DEF row
      <3>3. QED
        BY <2>0, <3>1, <3>2
    <2>3. QED
      BY <2>1, <2>2
  <1>6. /\ doc' \in [Docs -> Document] /\ Papers(a)'
        /\ \A b \in Apps : Papers(b) => Papers(b)'
        /\ \A b \in Apps \ {a} : DocsOf(b)' = DocsOf(b)
    BY <1>1, <1>3, LinkOK
  <1>7. /\ calls' \in [Procs -> Call]
        /\ \A q \in Procs : calls'[q] = IdleCall \/ calls'[q] = calls[q]
    BY <1>3, IdleOK DEF IInv, TypeOK
  <1>8. TypeOK'
    BY <1>2, <1>3, <1>5, <1>6, <1>7 DEF IInv, TypeOK
  <1>9. ASSUME NEW b \in Apps PROVE AppOK(b)'
    <2>1. AppOK(b) /\ AppOK(a) /\ app[b] \in Application
      BY DEF IInv, TypeOK
    <2>2. a \notin sweep
      BY <1>3, <2>1 DEF AppOK, AgedOK, Refused
    <2>3. CASE b = a
      BY <1>2, <1>3, <1>4, <1>5, <1>6, <2>2, <2>3
      DEF AppOK, InviteOK, HiredOK, PapersOK, AgedOK
    <2>4. CASE b # a
      <3>1. app'[b] = app[b] /\ DocsOf(b)' = DocsOf(b)
        BY <1>4, <1>6, <2>4
      <3>2. PICK j \in Invites \cup {Null} : j = app[b].invite
        BY <2>1 DEF Application
      <3>3. InviteOK(b)'
        BY <1>5, <2>1, <3>1, <3>2 DEF AppOK, InviteOK
      <3>4. HiredOK(b)'
        BY <1>3, <1>5, <2>1, <3>1, <3>2 DEF AppOK, HiredOK
      <3>5. QED
        BY <1>3, <1>6, <2>1, <3>1, <3>3, <3>4 DEF AppOK, PapersOK, AgedOK
    <2>5. QED
      BY <2>3, <2>4
  <1>10. \A q \in Procs : CallOK(calls[q])'
    <2>1. \A b \in Apps : \A q \in Procs : calls[q].app = b =>
            app'[b].status # "none" /\ ~app'[b].aged /\ (Papers(b) => Papers(b)')
      BY <1>3, <1>4, <1>6 DEF IInv, CallOK
    <2>2. QED
      BY <1>7, <2>1, CallsStay
  <1>11. QED
    BY <1>8, <1>9, <1>10 DEF IInv

LEMMA ResubmitOK == ASSUME IInv, NEW p \in Procs, ResubmitCommit(p) PROVE IInv'
  <1> USE ApplicationsAssumption
  <1>1. PICK a \in Apps, docs \in SUBSET Docs :
          /\ a = calls[p].app /\ docs = calls[p].docs
          /\ docs # {} \/ Papers(a)
          /\ app[a].status # "none" /\ ~app[a].aged
    BY DEF ResubmitCommit, At, IInv, TypeOK, Call, CallOK
  <1> DEFINE columns == [app[a] EXCEPT !.status = "pending", !.missing = FALSE]
  <1>2. /\ columns \in Application /\ columns.status = "pending" /\ ~columns.aged
        /\ columns.phone = app[a].phone /\ columns.invite = app[a].invite
    <2>1. app[a] \in Application
      BY DEF IInv, TypeOK
    <2>2. QED
      BY <1>1, <2>1 DEF Application, PHONE_BUSY_STATUSES, OPEN_STATUSES
  <1>3. /\ app' = [app EXCEPT ![a] = columns] /\ LinkDocuments(a, docs)
        /\ calls' = [calls EXCEPT ![p] = IdleCall]
        /\ UNCHANGED <<invite, account, members, crewActive, sweep>>
    <2>1. app' = [app EXCEPT ![a].status = "pending", ![a].missing = FALSE]
      BY <1>1 DEF ResubmitCommit
    <2>2. app' = [app EXCEPT ![a] = columns]
      BY <2>1 DEF IInv, TypeOK
    <2>3. QED
      BY <1>1, <2>2 DEF ResubmitCommit, End
  <1> HIDE DEF columns
  <1>4. app'[a] = columns /\ \A b \in Apps \ {a} : app'[b] = app[b]
    BY <1>3 DEF IInv, TypeOK
  <1>5. /\ doc' \in [Docs -> Document] /\ Papers(a)'
        /\ \A b \in Apps : Papers(b) => Papers(b)'
        /\ \A b \in Apps \ {a} : DocsOf(b)' = DocsOf(b)
    BY <1>1, <1>3, LinkOK
  <1>6. /\ calls' \in [Procs -> Call]
        /\ \A q \in Procs : calls'[q] = IdleCall \/ calls'[q] = calls[q]
    BY <1>3, IdleOK DEF IInv, TypeOK
  <1>7. TypeOK'
    BY <1>2, <1>3, <1>5, <1>6 DEF IInv, TypeOK
  <1>8. ASSUME NEW b \in Apps PROVE AppOK(b)'
    <2>1. AppOK(b) /\ AppOK(a)
      BY DEF IInv
    <2>2. CASE b = a
      <3>1. InviteOK(a)' /\ a \notin sweep
        BY <1>1, <1>2, <1>3, <1>4, <2>1 DEF AppOK, InviteOK, AgedOK
      <3>2. HiredOK(a)'
        BY <1>1, <1>2, <1>4, <2>1 DEF AppOK, HiredOK
      <3>3. QED
        BY <1>2, <1>3, <1>4, <1>5, <2>2, <3>1, <3>2 DEF AppOK, PapersOK, AgedOK
    <2>3. CASE b # a
      <3>1. app'[b] = app[b] /\ DocsOf(b)' = DocsOf(b)
        BY <1>4, <1>5, <2>3
      <3>2. QED
        BY <1>3, <1>5, <2>1, <3>1 DEF AppOK, InviteOK, HiredOK, PapersOK, AgedOK
    <2>4. QED
      BY <2>2, <2>3
  <1>9. \A q \in Procs : CallOK(calls[q])'
    <2>1. \A b \in Apps : \A q \in Procs : calls[q].app = b =>
            app'[b].status # "none" /\ ~app'[b].aged /\ (Papers(b) => Papers(b)')
      BY <1>2, <1>4, <1>5 DEF IInv, CallOK
    <2>2. QED
      BY <1>6, <2>1, CallsStay
  <1>10. QED
    BY <1>7, <1>8, <1>9 DEF IInv

LEMMA ApproveOK == ASSUME IInv, NEW p \in Procs, ApproveCommit(p) PROVE IInv'
  <1> USE ApplicationsAssumption
  <1>1. PICK a \in Apps, ph \in Phones :
          /\ a = calls[p].app /\ ph = app[a].phone
          /\ app[a].status # "none" /\ ~app[a].aged
    BY DEF ApproveCommit, At, IInv, TypeOK, Call, CallOK, AppOK, HiredOK
  <1> DEFINE columns == [app[a] EXCEPT !.status = "approved"]
  <1>2. /\ columns \in Application /\ columns.status = "approved" /\ ~columns.aged
        /\ columns.phone = ph /\ columns.invite = app[a].invite
    BY <1>1 DEF IInv, TypeOK, Application, PHONE_BUSY_STATUSES
  <1>3. /\ app' = [app EXCEPT ![a] = columns] /\ calls' = [calls EXCEPT ![p] = IdleCall]
        /\ account[ph] = Null /\ account' = [account EXCEPT ![ph] = a]
        /\ JoinCrewByInvite(a) /\ UNCHANGED <<crewActive, sweep>>
    BY <1>1 DEF ApproveCommit, End, IInv, TypeOK
  <1> HIDE DEF columns
  <1>4. app'[a] = columns /\ \A b \in Apps \ {a} : app'[b] = app[b]
    BY <1>3 DEF IInv, TypeOK
  <1>5. /\ doc' \in [Docs -> Document] /\ DocsOf(a)' = {}
        /\ \A b \in Apps : Papers(b) => Papers(b)'
        /\ \A b \in Apps : DocsOf(b)' \subseteq DocsOf(b)
    <2>1. \A d \in Docs : [doc[d] EXCEPT !.at = "courier"] \in Document
                          /\ [doc[d] EXCEPT !.at = "courier"].at = "courier"
                          /\ [doc[d] EXCEPT !.at = "courier"].app = doc[d].app
      BY DEF IInv, TypeOK, Document
    <2>2. doc' = [d \in Docs |-> IF d \in DocsOf(a) THEN [doc[d] EXCEPT !.at = "courier"]
                                                    ELSE doc[d]]
      BY <1>1 DEF ApproveCommit
    <2>3. doc' \in [Docs -> Document]
      BY <2>1, <2>2 DEF IInv, TypeOK
    <2>4. \A d \in Docs : \/ doc'[d].at = "courier" /\ doc'[d].app = doc[d].app
                          \/ d \notin DocsOf(a) /\ doc'[d] = doc[d]
      BY <2>1, <2>2
    <2>5. \A b \in Apps : Papers(b) => Papers(b)'
      BY <2>4 DEF Papers
    <2>6. ASSUME NEW b \in Apps, NEW d \in Docs, doc'[d] = [at |-> "application", app |-> b]
          PROVE  d \notin DocsOf(a) /\ doc'[d] = doc[d]
      <3>1. doc'[d].at = "application"
        BY <2>6
      <3>2. QED
        BY <2>4, <3>1
    <2>7. QED
      BY <2>3, <2>5, <2>6 DEF DocsOf
  <1>6. /\ invite' \in [Invites -> Invitation]
        /\ \A j \in Invites : invite'[j].app = invite[j].app
                              /\ (invite[j].accepted => invite'[j].accepted)
        /\ members \subseteq members' /\ members' \subseteq Apps
        /\ app[a].invite # Null => a \in members' /\ invite'[app[a].invite].accepted
    <2>0. /\ invite \in [Invites -> Invitation] /\ members \subseteq Apps
          /\ app[a] \in Application
      BY DEF IInv, TypeOK
    <2>1. PICK i \in Invites \cup {Null} : i = app[a].invite
      BY <2>0 DEF Application
    <2>2. CASE i = Null
      BY <1>3, <2>0, <2>1, <2>2 DEF JoinCrewByInvite
    <2>3. CASE i # Null
      <3> DEFINE row == [invite[i] EXCEPT !.accepted = TRUE]
      <3>1. invite' = [invite EXCEPT ![i] = row] /\ members' = members \cup {a} /\ i \in Invites
        BY <1>3, <2>0, <2>1, <2>3 DEF JoinCrewByInvite
      <3>2. row \in Invitation /\ row.app = invite[i].app /\ row.accepted
        BY <2>0, <3>1 DEF Invitation
      <3> HIDE DEF row
      <3>3. QED
        BY <2>0, <2>1, <3>1, <3>2
    <2>4. QED
      BY <2>2, <2>3
  <1>7. /\ calls' \in [Procs -> Call]
        /\ \A q \in Procs : calls'[q] = IdleCall \/ calls'[q] = calls[q]
    BY <1>3, IdleOK DEF IInv, TypeOK
  <1>8. TypeOK'
    BY <1>2, <1>3, <1>5, <1>6, <1>7 DEF IInv, TypeOK
  <1>9. /\ account'[ph] = a
        /\ \A other \in Phones : account[other] # Null => account'[other] = account[other]
    BY <1>3 DEF IInv, TypeOK
  <1>10. ASSUME NEW b \in Apps PROVE AppOK(b)'
    <2>1. AppOK(b) /\ AppOK(a) /\ app[b] \in Application /\ app[a] \in Application
      BY DEF IInv, TypeOK
    <2>2. PICK i \in Invites \cup {Null} : i = app[b].invite
      BY <2>1 DEF Application
    <2>3. CASE b = a
      <3>1. InviteOK(b)'
        BY <1>2, <1>4, <1>6, <2>1, <2>2, <2>3 DEF AppOK, InviteOK
      <3>2. HiredOK(b)'
        BY <1>2, <1>4, <1>5, <1>6, <1>9, <2>3 DEF HiredOK
      <3>3. QED
        BY <1>1, <1>2, <1>3, <1>4, <2>1, <2>3, <3>1, <3>2 DEF AppOK, PapersOK, AgedOK
    <2>4. CASE b # a
      <3>1. app'[b] = app[b] /\ DocsOf(b)' \subseteq DocsOf(b)
        BY <1>4, <1>5, <2>4
      <3>2. InviteOK(b)'
        BY <1>6, <2>1, <2>2, <3>1 DEF AppOK, InviteOK
      <3>3. HiredOK(b)'
        BY <1>6, <1>9, <2>1, <2>2, <3>1 DEF AppOK, HiredOK
      <3>4. QED
        BY <1>3, <1>5, <2>1, <3>1, <3>2, <3>3 DEF AppOK, PapersOK, AgedOK
    <2>5. QED
      BY <2>3, <2>4
  <1>11. \A q \in Procs : CallOK(calls[q])'
    <2>1. \A b \in Apps : \A q \in Procs : calls[q].app = b =>
            app'[b].status # "none" /\ ~app'[b].aged /\ (Papers(b) => Papers(b)')
      BY <1>2, <1>4, <1>5 DEF IInv, CallOK
    <2>2. QED
      BY <1>7, <2>1, CallsStay
  <1>12. QED
    BY <1>8, <1>10, <1>11 DEF IInv

-----------------------------------------------------------------------------
LEMMA StepOK == IInv /\ [Next]_vars => IInv'
  <1> SUFFICES ASSUME IInv, [Next]_vars PROVE IInv'
    OBVIOUS
  <1>1. ASSUME NEW p \in Procs, Answer(p) PROVE IInv'
    BY <1>1, CreateOK, ResubmitOK, WithdrawOK, ApproveOK, AroundStep DEF Answer
  <1>2. CASE Clock
    BY <1>2, CleanUpOK, DecisionOK, AroundStep DEF Clock
  <1>3. CASE UNCHANGED vars
    BY <1>3 DEF vars, IInv, TypeOK, AppOK, InviteOK, HiredOK, PapersOK, AgedOK, CallOK,
                Papers, DocsOf
  <1>4. QED
    BY <1>1, <1>2, <1>3, RequestOK, CleanUpOK, DecisionOK, AroundStep DEF Next

(***************************************************************************)
(* The invariant above holds in every reachable state.                     *)
(***************************************************************************)
THEOREM Inductive == Spec => []IInv
  BY InitOK, StepOK, PTL DEF Spec

(***************************************************************************)
(* Every approval is complete, whatever is revoked, re-submitted, opened   *)
(* elsewhere or cleaned up around it.                                      *)
(***************************************************************************)
THEOREM HiredCorrect == Spec => []HiredIsWhole
  <1>1. IInv => HiredIsWhole
    BY DEF IInv, AppOK, HiredOK, HiredIsWhole
  <1>2. QED
    BY <1>1, Inductive, PTL

(***************************************************************************)
(* No invitation serves two applications, however many are sent with it.   *)
(***************************************************************************)
THEOREM InviteCorrect == Spec => []InviteServesOne
  <1>1. IInv => InviteServesOne
    BY DEF IInv, AppOK, InviteOK, InviteServesOne
  <1>2. QED
    BY <1>1, Inductive, PTL

(***************************************************************************)
(* The clean-up never empties an application that is to be decided.        *)
(***************************************************************************)
THEOREM PapersCorrect == Spec => []PapersKept
  <1>1. IInv => PapersKept
    BY DEF IInv, AppOK, PapersOK, Papers, PapersKept
  <1>2. QED
    BY <1>1, Inductive, PTL

(***************************************************************************)
(* The invitation by which someone joins the crew stands at that moment.   *)
(***************************************************************************)
THEOREM JoinCorrect == Spec => JoinsByStandingInvite
  <1>1. ASSUME [Next]_vars
        PROVE  members' \subseteq members \/ \E p \in Procs : ApproveCommit(p)
    <2>1. ASSUME NEW p \in Procs, Request(p) PROVE members' = members
      BY <2>1 DEF Request, CreateBegin, CreateInviteBegin, ResubmitBegin, WithdrawBegin,
                  ApproveBegin, RevokeInviteBegin
    <2>2. ASSUME NEW p \in Procs, Answer(p) PROVE members' = members \/ ApproveCommit(p)
      BY <2>2 DEF Answer, CreateCommit, CreateInviteCommit, ResubmitCommit, WithdrawCommit,
                  RevokeInviteCommit, Drop
    <2>3. CASE CleanUp \/ Clock
      BY <2>3 DEF CleanUp, Clock, Maintenance, Purge, DocumentAges, ApplicationAges, InviteExpires
    <2>4. QED
      BY <1>1, <2>1, <2>2, <2>3
      DEF Next, vars, RejectApplication, RequestInfo, UploadDocument, AccountElsewhere, UpdateCrew
  <1>2. ASSUME NEW p \in Procs, ApproveCommit(p)
        PROVE  \A a \in members' \ members : ~invite[app[a].invite].revoked
    BY <1>2 DEF ApproveCommit, JoinCrewByInvite
  <1>3. [Next]_vars => [\A a \in members' \ members : ~invite[app[a].invite].revoked]_vars
    BY <1>1, <1>2
  <1>4. QED
    BY <1>3, PTL DEF Spec, JoinsByStandingInvite

=============================================================================
