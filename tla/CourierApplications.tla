------------------------- MODULE CourierApplications -------------------------
(***************************************************************************)
(* How a person becomes a courier or a worker: an application with its     *)
(* documents (courier_applications/courier-applications.service.ts), on    *)
(* one's own account or by the invitation of a crew's leader               *)
(* (crews/crews.service.ts), the superadmin's decision, and the hourly     *)
(* clean-up of documents.                                                  *)
(*                                                                         *)
(* Decisions lock the application.  The applicant's own handlers read      *)
(* first - the phone is free, the documents are free, the status allows it *)
(* - and write later through the instance they read, so each is two        *)
(* actions, joined by what calls[p] remembers.                             *)
(***************************************************************************)
EXTENDS Naturals, FiniteSets

CONSTANTS
  Apps,    \* rows that courier_applications may come to hold
  Docs,    \* rows that courier_application_documents may come to hold
  Invites, \* rows that crew_invites may come to hold
  Phones,
  Procs,   \* requests that may be between two database accesses
  Null     \* a column that is null

ASSUME ApplicationsAssumption ==
  /\ Apps # {} /\ Docs # {} /\ Invites # {} /\ Phones # {}
  /\ Null \notin Apps \cup Invites \cup Phones

VARIABLES
  app,        \* app[a]: the row of application a
  doc,        \* doc[d]: where the document is, and the application it is linked to
  invite,     \* invite[i]: the row of invitation i
  account,    \* account[ph]: the application that opened the account of this phone
  members,    \* the applications whose couriers have joined the crew
  crewActive, \* crews.is_active of the inviting crew
  calls,      \* calls[p]: the handler p is in the middle of, and what it has read
  sweep       \* the applications the clean-up has still to empty

vars == <<app, doc, invite, account, members, crewActive, calls, sweep>>

OPEN_STATUSES == {"pending", "needs_info"}
PHONE_BUSY_STATUSES == OPEN_STATUSES \cup {"approved"}
Refused == {"rejected", "withdrawn"}

\* status "none": not submitted yet; missing: the superadmin asked for another
\* document; aged: reviewed_at is more than REJECTED_DOCS_RETENTION_DAYS ago
Application == [status  : {"none"} \cup PHONE_BUSY_STATUSES \cup Refused,
                phone   : Phones \cup {Null},
                invite  : Invites \cup {Null},
                missing : BOOLEAN,
                aged    : BOOLEAN]

\* free, and stale after ORPHAN_TTL_MS: uploaded and linked to no application;
\* courier: the bytes have moved to the courier's own document
Document == [at  : {"new", "free", "stale", "application", "courier", "purged", "gone"},
             app : Apps \cup {Null}]

Invitation == [phone    : Phones \cup {Null},
               app      : Apps \cup {Null},
               expired  : BOOLEAN,
               accepted : BOOLEAN,
               revoked  : BOOLEAN]

Call == [step  : {"idle", "create", "resubmit", "withdraw", "approve", "invite", "revoke"},
         app   : Apps \cup {Null},
         inv   : Invites \cup {Null},
         phone : Phones \cup {Null},
         docs  : SUBSET Docs]

TypeOK ==
  /\ app \in [Apps -> Application]
  /\ doc \in [Docs -> Document]
  /\ invite \in [Invites -> Invitation]
  /\ account \in [Phones -> Apps \cup {Null, "elsewhere"}]
  /\ members \subseteq Apps
  /\ crewActive \in BOOLEAN
  /\ calls \in [Procs -> Call]
  /\ sweep \subseteq Apps

IdleCall == [step |-> "idle", app |-> Null, inv |-> Null, phone |-> Null, docs |-> {}]

Init ==
  /\ app = [a \in Apps |-> [status |-> "none", phone |-> Null, invite |-> Null,
                            missing |-> FALSE, aged |-> FALSE]]
  /\ doc = [d \in Docs |-> [at |-> "new", app |-> Null]]
  /\ invite = [i \in Invites |-> [phone |-> Null, app |-> Null, expired |-> FALSE,
                                  accepted |-> FALSE, revoked |-> FALSE]]
  /\ account = [ph \in Phones |-> Null]
  /\ members = {}
  /\ crewActive = TRUE
  /\ calls = [p \in Procs |-> IdleCall]
  /\ sweep = {}

At(p, s) == calls[p].step = s
Begin(p, call) == At(p, "idle") /\ calls' = [calls EXCEPT ![p] = call]
End(p) == calls' = [calls EXCEPT ![p] = IdleCall]

\* approve holds the row of the application until it commits
Locked(a) == \E p \in Procs : At(p, "approve") /\ calls[p].app = a

DocsOf(a) == {d \in Docs : doc[d] = [at |-> "application", app |-> a]}
Free(d) == doc[d].at \in {"free", "stale"}

-----------------------------------------------------------------------------
(* Documents and the clean-up                                              *)

UploadDocument(d) ==
  /\ doc[d].at = "new"
  /\ doc' = [doc EXCEPT ![d].at = "free"]
  /\ UNCHANGED <<app, invite, account, members, crewActive, calls, sweep>>

\* ORPHAN_TTL_MS passes over a document nobody has linked
DocumentAges(d) ==
  /\ doc[d].at = "free"
  /\ doc' = [doc EXCEPT ![d].at = "stale"]
  /\ UNCHANGED <<app, invite, account, members, crewActive, calls, sweep>>

\* REJECTED_DOCS_RETENTION_DAYS pass; no request takes that long
ApplicationAges(a) ==
  /\ app[a].status \in Refused /\ ~app[a].aged
  /\ \A p \in Procs : calls[p].app # a
  /\ app' = [app EXCEPT ![a].aged = TRUE]
  /\ UNCHANGED <<doc, invite, account, members, crewActive, calls, sweep>>

\* Mutant (PapersKept): refused applications are emptied at once
MaintenanceAtOnce ==
  /\ sweep = {}
  /\ doc' = [d \in Docs |-> IF doc[d].at = "stale" THEN [doc[d] EXCEPT !.at = "gone"]
                                                   ELSE doc[d]]
  /\ sweep' = {a \in Apps : app[a].status \in Refused}
  /\ UNCHANGED <<app, invite, account, members, crewActive, calls>>

\* runMaintenance destroys the orphans, and lists the applications to empty
Maintenance ==
  /\ sweep = {}
  /\ doc' = [d \in Docs |-> IF doc[d].at = "stale" THEN [doc[d] EXCEPT !.at = "gone"]
                                                   ELSE doc[d]]
  /\ sweep' = {a \in Apps : app[a].status \in Refused /\ app[a].aged}
  /\ UNCHANGED <<app, invite, account, members, crewActive, calls>>

\* One listed application after the other loses its documents
Purge(a) ==
  /\ a \in sweep
  /\ doc' = [d \in Docs |-> IF d \in DocsOf(a) THEN [doc[d] EXCEPT !.at = "purged"]
                                               ELSE doc[d]]
  /\ sweep' = sweep \ {a}
  /\ UNCHANGED <<app, invite, account, members, crewActive, calls>>

-----------------------------------------------------------------------------
(* The applicant                                                           *)

\* ensurePhoneFree; the account is looked for by ensureAccountFree
PhoneFree(ph) ==
  /\ ~\E a \in Apps : app[a].phone = ph /\ app[a].status \in PHONE_BUSY_STATUSES
  /\ account[ph] = Null

\* The partial unique index on the phone of applications that keep it busy
PhoneIndexAllows(a, ph) ==
  ~\E b \in Apps \ {a} : app[b].phone = ph /\ app[b].status \in PHONE_BUSY_STATUSES

\* loadFreeDocuments, and ensureRequired for the documents every applicant needs
Presentable(docs) == docs # {} /\ \A d \in docs : doc[d].at = "free"

\* linkDocuments: a conditional update that must find each of them still free
LinkDocuments(a, docs) ==
  /\ \A d \in docs : Free(d)
  /\ doc' = [d \in Docs |-> IF d \in docs THEN [at |-> "application", app |-> a]
                                          ELSE doc[d]]

\* createFromInvite: the invitation is as it should be, for this phone
Usable(i, ph) ==
  /\ invite[i].phone = ph /\ invite[i].app = Null
  /\ ~invite[i].revoked /\ ~invite[i].accepted /\ ~invite[i].expired
  /\ crewActive

\* create (i = Null) and createFromInvite up to their transaction
CreateBegin(p, ph, i, docs) ==
  /\ i # Null => Usable(i, ph)
  /\ PhoneFree(ph)
  /\ Presentable(docs)
  /\ Begin(p, [IdleCall EXCEPT !.step = "create", !.phone = ph, !.inv = i, !.docs = docs])
  /\ UNCHANGED <<app, doc, invite, account, members, crewActive, sweep>>

\* Mutant (InviteServesOne): the invitation found free is still free
LinkInviteUnconditionally(i, a) ==
  invite' = IF i = Null THEN invite ELSE [invite EXCEPT ![i].app = a]

\* One invitation, one application: a conditional update
LinkInvite(i, a) ==
  IF i = Null THEN UNCHANGED invite
  ELSE /\ invite[i].app = Null /\ ~invite[i].accepted /\ ~invite[i].revoked
       /\ invite' = [invite EXCEPT ![i].app = a]

CreateCommit(p, a) ==
  LET c == calls[p] IN
  /\ At(p, "create")
  /\ app[a].status = "none"
  /\ PhoneIndexAllows(a, c.phone)
  /\ LinkInvite(c.inv, a)
  /\ LinkDocuments(a, c.docs)
  /\ app' = [app EXCEPT ![a] = [status |-> "pending", phone |-> c.phone,
                                invite |-> c.inv, missing |-> FALSE, aged |-> FALSE]]
  /\ End(p)
  /\ UNCHANGED <<account, members, crewActive, sweep>>

\* resubmit: what was asked for is there; documents asked for must be new ones
ResubmitBegin(p, a, docs) ==
  /\ app[a].status = "needs_info"
  /\ \A d \in docs : doc[d].at = "free"
  /\ DocsOf(a) \cup docs # {}
  /\ app[a].missing => docs # {}
  /\ Begin(p, [IdleCall EXCEPT !.step = "resubmit", !.app = a, !.docs = docs])
  /\ UNCHANGED <<app, doc, invite, account, members, crewActive, sweep>>

\* The instance read before is written back, whatever the application is by now
ResubmitCommit(p) ==
  LET a == calls[p].app IN
  /\ At(p, "resubmit")
  /\ ~Locked(a)
  /\ PhoneIndexAllows(a, app[a].phone)
  /\ app' = [app EXCEPT ![a].status = "pending", ![a].missing = FALSE]
  /\ LinkDocuments(a, calls[p].docs)
  /\ End(p)
  /\ UNCHANGED <<invite, account, members, crewActive, sweep>>

WithdrawBegin(p, a) ==
  /\ app[a].status \in OPEN_STATUSES
  /\ Begin(p, [IdleCall EXCEPT !.step = "withdraw", !.app = a])
  /\ UNCHANGED <<app, doc, invite, account, members, crewActive, sweep>>

WithdrawCommit(p) ==
  /\ At(p, "withdraw")
  /\ ~Locked(calls[p].app)
  /\ app' = [app EXCEPT ![calls[p].app].status = "withdrawn",
                        ![calls[p].app].aged = FALSE]
  /\ End(p)
  /\ UNCHANGED <<doc, invite, account, members, crewActive, sweep>>

-----------------------------------------------------------------------------
(* The superadmin                                                          *)

\* requestInfo, by decide: the application is locked and still open
RequestInfo(a, missing) ==
  /\ app[a].status \in OPEN_STATUSES /\ ~Locked(a)
  /\ app' = [app EXCEPT ![a].status = "needs_info", ![a].missing = missing]
  /\ UNCHANGED <<doc, invite, account, members, crewActive, calls, sweep>>

\* reject, by decide
RejectApplication(a) ==
  /\ app[a].status \in OPEN_STATUSES /\ ~Locked(a)
  /\ app' = [app EXCEPT ![a].status = "rejected", ![a].aged = FALSE]
  /\ UNCHANGED <<doc, invite, account, members, crewActive, calls, sweep>>

\* approve locks the application; the invitation and the crew are only read
ApproveBegin(p, a) ==
  LET i == app[a].invite IN
  /\ app[a].status \in OPEN_STATUSES /\ ~Locked(a)
  /\ i # Null => ~invite[i].revoked /\ crewActive
  /\ account[app[a].phone] = Null
  /\ Begin(p, [IdleCall EXCEPT !.step = "approve", !.app = a])
  /\ UNCHANGED <<app, doc, invite, account, members, crewActive, sweep>>

\* Mutant (JoinsByStandingInvite): the invitation was looked at before
JoinCrewUnchecked(a) ==
  IF app[a].invite = Null THEN UNCHANGED <<invite, members>>
  ELSE /\ invite' = [invite EXCEPT ![app[a].invite].accepted = TRUE]
       /\ members' = members \cup {a}

\* Mutant (HiredIsWhole): no member without an invitation, but an account
JoinCrewIfInvited(a) ==
  IF app[a].invite = Null \/ invite[app[a].invite].revoked
    THEN UNCHANGED <<invite, members>>
  ELSE /\ invite' = [invite EXCEPT ![app[a].invite].accepted = TRUE]
       /\ members' = members \cup {a}

\* joinCrewByInvite locks the invitation and looks again
JoinCrewByInvite(a) ==
  IF app[a].invite = Null THEN UNCHANGED <<invite, members>>
  ELSE /\ ~invite[app[a].invite].revoked /\ crewActive
       /\ invite' = [invite EXCEPT ![app[a].invite].accepted = TRUE]
       /\ members' = members \cup {a}

(***************************************************************************)
(* The rest of approve, one transaction: the account and the courier       *)
(* (their unique indexes on login and phone), the documents, the decision, *)
(* the membership.  Any failure takes everything back (action Drop).       *)
(***************************************************************************)
ApproveCommit(p) ==
  LET a == calls[p].app IN
  /\ At(p, "approve")
  /\ account[app[a].phone] = Null
  /\ account' = [account EXCEPT ![app[a].phone] = a]
  /\ doc' = [d \in Docs |-> IF d \in DocsOf(a) THEN [doc[d] EXCEPT !.at = "courier"]
                                               ELSE doc[d]]
  /\ app' = [app EXCEPT ![a].status = "approved"]
  /\ JoinCrewByInvite(a)
  /\ End(p)
  /\ UNCHANGED <<crewActive, sweep>>

\* A store opens an account for this phone (couriers.service.ts)
AccountElsewhere(ph) ==
  /\ account[ph] = Null
  /\ account' = [account EXCEPT ![ph] = "elsewhere"]
  /\ UNCHANGED <<app, doc, invite, members, crewActive, calls, sweep>>

-----------------------------------------------------------------------------
(* The crew's leader                                                       *)

CreateInviteBegin(p, ph) ==
  /\ crewActive
  /\ PhoneFree(ph)
  /\ ~\E i \in Invites : /\ invite[i].phone = ph /\ ~invite[i].expired
                         /\ ~invite[i].accepted /\ ~invite[i].revoked
  /\ Begin(p, [IdleCall EXCEPT !.step = "invite", !.phone = ph])
  /\ UNCHANGED <<app, doc, invite, account, members, crewActive, sweep>>

CreateInviteCommit(p, i) ==
  /\ At(p, "invite")
  /\ invite[i].phone = Null
  /\ invite' = [invite EXCEPT ![i].phone = calls[p].phone]
  /\ End(p)
  /\ UNCHANGED <<app, doc, account, members, crewActive, sweep>>

\* CREW_INVITE_TTL_MS passes
InviteExpires(i) ==
  /\ invite[i].phone # Null /\ ~invite[i].expired
  /\ invite' = [invite EXCEPT ![i].expired = TRUE]
  /\ UNCHANGED <<app, doc, account, members, crewActive, calls, sweep>>

\* revokeInvite reads and, later, writes; approve may hold the row between
RevokeInviteBegin(p, i) ==
  /\ crewActive
  /\ invite[i].phone # Null /\ ~invite[i].accepted
  /\ Begin(p, [IdleCall EXCEPT !.step = "revoke", !.inv = i])
  /\ UNCHANGED <<app, doc, invite, account, members, crewActive, sweep>>

RevokeInviteCommit(p) ==
  /\ At(p, "revoke")
  /\ invite' = [invite EXCEPT ![calls[p].inv].revoked = TRUE]
  /\ End(p)
  /\ UNCHANGED <<app, doc, account, members, crewActive, sweep>>

\* The crew is switched off and on (crews.service.ts update)
UpdateCrew ==
  /\ crewActive' = ~crewActive
  /\ UNCHANGED <<app, doc, invite, account, members, calls, sweep>>

-----------------------------------------------------------------------------
\* A call ends early: refused at a later check, rolled back, or its process died
Drop(p) ==
  /\ ~At(p, "idle")
  /\ End(p)
  /\ UNCHANGED <<app, doc, invite, account, members, crewActive, sweep>>

Request(p) ==
  \/ \E ph \in Phones :
       \/ \E i \in Invites \cup {Null}, docs \in SUBSET Docs : CreateBegin(p, ph, i, docs)
       \/ CreateInviteBegin(p, ph)
  \/ \E a \in Apps :
       \/ \E docs \in SUBSET Docs : ResubmitBegin(p, a, docs)
       \/ WithdrawBegin(p, a) \/ ApproveBegin(p, a)
  \/ \E i \in Invites : RevokeInviteBegin(p, i)

Answer(p) ==
  \/ \E a \in Apps : CreateCommit(p, a)
  \/ \E i \in Invites : CreateInviteCommit(p, i)
  \/ ResubmitCommit(p) \/ WithdrawCommit(p) \/ ApproveCommit(p)
  \/ RevokeInviteCommit(p) \/ Drop(p)

CleanUp == Maintenance \/ \E a \in Apps : Purge(a)

Clock == \/ \E d \in Docs : DocumentAges(d)
         \/ \E a \in Apps : ApplicationAges(a)
         \/ \E i \in Invites : InviteExpires(i)

Next ==
  \/ \E p \in Procs : Request(p) \/ Answer(p)
  \/ \E a \in Apps : RejectApplication(a) \/ \E m \in BOOLEAN : RequestInfo(a, m)
  \/ \E d \in Docs : UploadDocument(d)
  \/ \E ph \in Phones : AccountElsewhere(ph)
  \/ UpdateCrew \/ CleanUp \/ Clock

Spec == Init /\ [][Next]_vars

-----------------------------------------------------------------------------
(***************************************************************************)
(* What one approval does it does completely: an approved application has  *)
(* opened the account of its phone, its documents are the courier's, and   *)
(* one that came by invitation is in the crew.                             *)
(***************************************************************************)
HiredIsWhole ==
  \A a \in Apps : app[a].status = "approved" =>
    /\ account[app[a].phone] = a
    /\ DocsOf(a) = {}
    /\ app[a].invite # Null => a \in members /\ invite[app[a].invite].accepted

(***************************************************************************)
(* An invitation serves one application, although its link may be opened,  *)
(* and the form sent, twice at once, and be revoked meanwhile.             *)
(***************************************************************************)
InviteServesOne ==
  \A a \in Apps : app[a].invite # Null => invite[app[a].invite].app = a

(***************************************************************************)
(* An application that is to be decided has documents to decide on: an     *)
(* upload that grew stale and was destroyed, or was linked to another      *)
(* application first, is not counted, and the clean-up of refused          *)
(* applications never takes those of one that is open, however old.        *)
(***************************************************************************)
PapersKept ==
  \A a \in Apps : app[a].status = "pending" =>
    \E d \in Docs : doc[d].app = a /\ doc[d].at \in {"application", "courier"}

(***************************************************************************)
(* Nobody joins a crew by an invitation its leader had taken back, even    *)
(* while the approval was under way.                                       *)
(***************************************************************************)
JoinsByStandingInvite ==
  [][\A a \in members' \ members : ~invite[app[a].invite].revoked]_vars

=============================================================================
