--------------------------------- MODULE Chats ---------------------------------
(***************************************************************************)
(* One chat between a customer and a store (chats.service.ts) and its      *)
(* files (chat-files.service.ts, chat-files.jobs.ts).  A file is uploaded  *)
(* first and sent with a message later; an hourly timer removes the files  *)
(* that no message took within a day.  An app that gets no answer sends    *)
(* again with the same client_msg_id.                                      *)
(*                                                                         *)
(* send writes the message, its files and the sender's cursor in one       *)
(* transaction: Number, Place, Link and Commit.  A row it has written is   *)
(* locked until Commit, and other statements see it as it was before.  The *)
(* rest are single statements and calls to the object store.               *)
(***************************************************************************)
EXTENDS Naturals, FiniteSets

CONSTANTS
  Customers,   \* the chat's customer
  Staff,       \* the store's users who answer in it
  Sends,       \* messages that somebody writes in an app
  Keyed,       \* those that the app sends with a client_msg_id
  Files,       \* files that are uploaded
  Procs,       \* requests that the service may be in the middle of
  MaxNumber,   \* bound on the numbers that chat_messages gives out
  Batch,       \* LIMIT of sweepOrphans
  Null         \* not there

Users   == Customers \cup Staff
Sides   == {"client", "store"}
Side(u) == IF u \in Customers THEN "client" ELSE "store"
Numbers == 1 .. MaxNumber

ASSUME ChatsAssumption ==
  /\ Customers \cap Staff = {} /\ Keyed \subseteq Sends
  /\ MaxNumber \in Nat /\ Batch \in Nat \ {0}
  /\ Null \notin Users \cup Sends \cup Files

VARIABLES
  send,     \* send[k]: what the app of its author asks for
  message,  \* message[m]: the row of chat_messages with number m
  next,     \* the number that the sequence gives next
  cursor,   \* cursor[s]: <side>_last_read_id of the row of chats
  file,     \* file[f]: the row of chat_attachments of f
  calls,    \* calls[p]: the handler p is in the middle of
  sweep,    \* the run of ChatFilesJobs.tick
  told,     \* history: told[m], times that the rooms were told of message m
  answered  \* history: the sends that were answered with their message

vars == <<send, message, next, cursor, file, calls, sweep, told, answered>>

\* user: Null before the first request
Send == [user : Users \cup {Null}, files : SUBSET Files]

\* open: written, and the transaction has not ended
Message == [state : {"none", "open", "sent"}, send : Sends \cup {Null}]

(***************************************************************************)
(* message: message_id, 0 for none; aged: more than ORPHAN_TTL_HOURS old   *)
(* before a message took it; whole: the object is in the object store.     *)
(***************************************************************************)
File == [state : {"none", "row", "gone"}, user : Users \cup {Null},
         message : 0 .. MaxNumber, aged : BOOLEAN, whole : BOOLEAN]

Call == [step : {"idle", "number", "place", "link", "commit", "deliver"},
         send : Sends \cup {Null}, number : 0 .. MaxNumber]

\* rows: what sweepOrphans has read; left: rows whose object is still to remove
Sweep == [step : {"idle", "read", "remove"}, rows : SUBSET Files, left : SUBSET Files]

TypeOK ==
  /\ send \in [Sends -> Send]
  /\ message \in [Numbers -> Message]
  /\ next \in 1 .. MaxNumber + 1
  /\ cursor \in [Sides -> 0 .. MaxNumber]
  /\ file \in [Files -> File]
  /\ calls \in [Procs -> Call]
  /\ sweep \in Sweep /\ sweep.left \subseteq sweep.rows
  /\ told \in [Numbers -> 0 .. 2]
  /\ answered \subseteq Sends

IdleCall  == [step |-> "idle", send |-> Null, number |-> 0]
IdleSweep == [step |-> "idle", rows |-> {}, left |-> {}]
NoSend    == [user |-> Null, files |-> {}]
NoMessage == [state |-> "none", send |-> Null]
NoFile    == [state |-> "none", user |-> Null, message |-> 0, aged |-> FALSE, whole |-> FALSE]

\* getOrCreate has made the chat
Init ==
  /\ send = [k \in Sends |-> NoSend]
  /\ message = [m \in Numbers |-> NoMessage]
  /\ next = 1
  /\ cursor = [s \in Sides |-> 0]
  /\ file = [f \in Files |-> NoFile]
  /\ calls = [p \in Procs |-> IdleCall]
  /\ sweep = IdleSweep
  /\ told = [m \in Numbers |-> 0]
  /\ answered = {}

-----------------------------------------------------------------------------
At(p, step) == calls[p].step = step
Step(p, step) == calls' = [calls EXCEPT ![p].step = step]
End(p) == calls' = [calls EXCEPT ![p] = IdleCall]

Open(m) == message[m].state = "open"
Sent(m) == message[m].state = "sent"
\* The rows with this client_msg_id
Same(k) == {m \in Numbers : message[m].send = k}
\* MAX(id) of the messages that others see, 0 for none
IsNewest(n) == (n # 0 => Sent(n)) /\ \A m \in Numbers : Sent(m) => m <= n
Greatest(m, n) == IF m < n THEN n ELSE m
Least(m, n) == IF m < n THEN m ELSE n

\* The transaction that took f has not ended: its row is locked, and others
\* see it without a message
Locked(f) == file[f].message # 0 /\ Open(file[f].message)
Orphan(f) == file[f].state = "row" /\ (file[f].message = 0 \/ Locked(f))

-----------------------------------------------------------------------------
(* A file is uploaded                                                      *)

(***************************************************************************)
(* upload: the object is put and checked before the row is inserted.  When *)
(* the insertion fails, or the process ends before it, nothing is left but *)
(* an object that no row names.                                            *)
(***************************************************************************)
Upload(u, f) ==
  /\ file[f] = NoFile
  /\ file' = [file EXCEPT ![f] = [state |-> "row", user |-> u, message |-> 0,
                                   aged |-> FALSE, whole |-> TRUE]]
  /\ UNCHANGED <<send, message, next, cursor, calls, sweep, told, answered>>

-----------------------------------------------------------------------------
(* A message is sent                                                       *)

\* The response, with the message, reaches the app or is lost
Answer(k) == answered' \in {answered, answered \cup {k}}

(***************************************************************************)
(* send up to its transaction: the app's first request for k, or one more  *)
(* of the same.  A message that is there already is the answer, and nobody *)
(* is told again.                                                          *)
(***************************************************************************)
SendBegin(p, k, s) ==
  /\ At(p, "idle")
  /\ s.user # Null /\ send[k] \in {NoSend, s}
  /\ \A f \in s.files : file[f].user # Null
  /\ send' = [send EXCEPT ![k] = s]
  /\ IF k \in Keyed /\ \E m \in Same(k) : Sent(m)
       THEN Answer(k) /\ UNCHANGED calls
       ELSE /\ calls' = [calls EXCEPT ![p] = [step |-> "number", send |-> k, number |-> 0]]
            /\ UNCHANGED answered
  /\ UNCHANGED <<message, next, cursor, file, sweep, told>>

\* INSERT takes a number, which is not given back
Number(p) ==
  /\ At(p, "number") /\ next <= MaxNumber
  /\ next' = next + 1
  /\ calls' = [calls EXCEPT ![p].step = "place", ![p].number = next]
  /\ UNCHANGED <<send, message, cursor, file, sweep, told, answered>>

\* Mutant (MessageOnce): no ON CONFLICT (chat_id, client_msg_id)
PlaceUnchecked(p) ==
  LET k == calls[p].send
  IN /\ At(p, "place")
     /\ message' = [message EXCEPT ![calls[p].number] = [state |-> "open", send |-> k]]
     /\ Step(p, "link")
     /\ UNCHANGED <<send, next, cursor, file, sweep, told, answered>>

(***************************************************************************)
(* INSERT ... ON CONFLICT (chat_id, client_msg_id) DO NOTHING: it waits    *)
(* for a transaction that has written the same client_msg_id, and if that  *)
(* one commits, its message is the answer.                                 *)
(***************************************************************************)
Place(p) ==
  LET k == calls[p].send
      same == IF k \in Keyed THEN Same(k) ELSE {}
  IN /\ At(p, "place")
     /\ \A m \in same : ~Open(m)
     /\ IF same # {}
          THEN Answer(k) /\ End(p) /\ UNCHANGED message
          ELSE /\ message' = [message EXCEPT ![calls[p].number] = [state |-> "open", send |-> k]]
               /\ Step(p, "link") /\ UNCHANGED answered
     /\ UNCHANGED <<send, next, cursor, file, sweep, told>>

\* The transaction is rolled back
RolledBack(numbers) ==
  /\ message' = [m \in Numbers |-> IF m \in numbers /\ Open(m) THEN NoMessage ELSE message[m]]
  /\ file' = [f \in Files |->
       IF file[f].message \in numbers /\ Locked(f)
         THEN [file[f] EXCEPT !.message = 0] ELSE file[f]]

\* Mutant (SentFileIsWhole): a file that another message has is taken too
LinkAny(p) ==
  LET n == calls[p].number
      s == send[calls[p].send]
  IN /\ At(p, "link")
     /\ \A f \in s.files : ~Locked(f)
     /\ IF \A f \in s.files : file[f].state = "row" /\ file[f].user = s.user
          THEN /\ file' = [f \in Files |->
                    IF f \in s.files THEN [file[f] EXCEPT !.message = n] ELSE file[f]]
               /\ Step(p, "commit") /\ UNCHANGED message
          ELSE RolledBack({n}) /\ End(p)
     /\ UNCHANGED <<send, next, cursor, sweep, told, answered>>

(***************************************************************************)
(* link: UPDATE ... WHERE message_id IS NULL waits for rows that another   *)
(* transaction has taken; all of the files, or no message.                 *)
(***************************************************************************)
Link(p) ==
  LET n == calls[p].number
      s == send[calls[p].send]
  IN /\ At(p, "link")
     /\ \A f \in s.files : ~Locked(f)
     /\ IF \A f \in s.files :
             file[f].state = "row" /\ file[f].user = s.user /\ file[f].message = 0
          THEN /\ file' = [f \in Files |->
                    IF f \in s.files THEN [file[f] EXCEPT !.message = n] ELSE file[f]]
               /\ Step(p, "commit") /\ UNCHANGED message
          ELSE RolledBack({n}) /\ End(p)
     /\ UNCHANGED <<send, next, cursor, sweep, told, answered>>

\* Mutant (CursorsStand): the cursor is set to the sender's message
CommitAssigning(p) ==
  LET n == calls[p].number
  IN /\ At(p, "commit")
     /\ message' = [message EXCEPT ![n].state = "sent"]
     /\ cursor' = [cursor EXCEPT ![Side(send[calls[p].send].user)] = n]
     /\ Step(p, "deliver")
     /\ UNCHANGED <<send, next, file, sweep, told, answered>>

\* The update of the chat, which no other waits for longer, and the commit
Commit(p) ==
  LET n == calls[p].number
  IN /\ At(p, "commit")
     /\ message' = [message EXCEPT ![n].state = "sent"]
     /\ cursor' = [cursor EXCEPT ![Side(send[calls[p].send].user)] = Greatest(@, n)]
     /\ Step(p, "deliver")
     /\ UNCHANGED <<send, next, file, sweep, told, answered>>

\* deliver: an error in it is logged, and the answer is the same
Deliver(p) ==
  LET n == calls[p].number
  IN /\ At(p, "deliver")
     /\ told' \in {told, [told EXCEPT ![n] = IF @ < 2 THEN @ + 1 ELSE 2]}
     /\ Answer(calls[p].send)
     /\ End(p)
     /\ UNCHANGED <<send, message, next, cursor, file, sweep>>

\* rateLimit and the other refusals, or an error of the database
SendFails(p) ==
  /\ \E step \in {"number", "place", "link", "commit"} : At(p, step)
  /\ RolledBack({calls[p].number})
  /\ End(p)
  /\ UNCHANGED <<send, next, cursor, sweep, told, answered>>

\* read: somebody of side s has seen messages up to n
Read(s, n) ==
  /\ \E newest \in 0 .. MaxNumber :
       /\ IsNewest(newest)
       /\ cursor' = [cursor EXCEPT ![s] = Greatest(@, Least(n, newest))]
  /\ UNCHANGED <<send, message, next, file, calls, sweep, told, answered>>

-----------------------------------------------------------------------------
(* Files that no message took                                              *)

\* A day has passed since the upload
Age(f) ==
  /\ Orphan(f) /\ ~file[f].aged
  /\ file' = [file EXCEPT ![f].aged = TRUE]
  /\ UNCHANGED <<send, message, next, cursor, calls, sweep, told, answered>>

\* tick: not while one is running
TickBegin ==
  /\ sweep.step = "idle"
  /\ sweep' = [step |-> "read", rows |-> {}, left |-> {}]
  /\ UNCHANGED <<send, message, next, cursor, file, calls, told, answered>>

Due == {f \in Files : Orphan(f) /\ file[f].aged}

(***************************************************************************)
(* sweepOrphans reads some of what is due; tick ends when nothing is.  The *)
(* order is that of the rows' numbers, which the keys do not show.         *)
(***************************************************************************)
SweepRead ==
  /\ sweep.step = "read"
  /\ IF Due = {} THEN sweep' = IdleSweep
     ELSE \E rows \in SUBSET Due :
            /\ Cardinality(rows) = Least(Batch, Cardinality(Due))
            /\ sweep' = [step |-> "remove", rows |-> rows, left |-> rows]
  /\ UNCHANGED <<send, message, next, cursor, file, calls, told, answered>>

\* removeR2: an error is logged, and the object stays
SweepRemove(f) ==
  /\ f \in sweep.left
  /\ \E whole \in {file[f].whole, FALSE} : file' = [file EXCEPT ![f].whole = whole]
  /\ sweep' = [sweep EXCEPT !.left = @ \ {f}]
  /\ UNCHANGED <<send, message, next, cursor, calls, told, answered>>

\* Mutant (ImplementsChatLog): the rows that were read are deleted, sent or not
SweepDeleteRead ==
  /\ sweep.step = "remove" /\ sweep.left = {}
  /\ \A f \in sweep.rows : ~Locked(f)
  /\ file' = [f \in Files |-> IF f \in sweep.rows
                                THEN [file[f] EXCEPT !.state = "gone", !.whole = FALSE]
                                ELSE file[f]]
  /\ sweep' = [step |-> "read", rows |-> {}, left |-> {}]
  /\ UNCHANGED <<send, message, next, cursor, calls, told, answered>>

\* DELETE ... AND message_id IS NULL waits for transactions that took a row
SweepDelete ==
  /\ sweep.step = "remove" /\ sweep.left = {}
  /\ \A f \in sweep.rows : ~Locked(f)
  /\ file' = [f \in Files |-> IF f \in sweep.rows /\ file[f].message = 0
                                THEN [file[f] EXCEPT !.state = "gone", !.whole = FALSE]
                                ELSE file[f]]
  /\ sweep' = [step |-> "read", rows |-> {}, left |-> {}]
  /\ UNCHANGED <<send, message, next, cursor, calls, told, answered>>

\* An error of the database ends the tick
SweepFails ==
  /\ sweep.step # "idle" /\ sweep.left = {}
  /\ sweep' = IdleSweep
  /\ UNCHANGED <<send, message, next, cursor, file, calls, told, answered>>

-----------------------------------------------------------------------------
\* The process ends in the middle of everything, and another starts
Crash ==
  /\ sweep # IdleSweep \/ \E p \in Procs : ~At(p, "idle")
  /\ RolledBack(Numbers)
  /\ calls' = [p \in Procs |-> IdleCall]
  /\ sweep' = IdleSweep
  /\ UNCHANGED <<send, next, cursor, told, answered>>

Handle(p) ==
  \/ Number(p) \/ Place(p) \/ Link(p) \/ Commit(p) \/ Deliver(p) \/ SendFails(p)

Next ==
  \/ \E p \in Procs : Handle(p) \/ \E k \in Sends, s \in Send : SendBegin(p, k, s)
  \/ \E u \in Users, f \in Files : Upload(u, f)
  \/ \E s \in Sides, n \in Numbers : Read(s, n)
  \/ \E f \in Files : Age(f) \/ SweepRemove(f)
  \/ TickBegin \/ SweepRead \/ SweepDelete \/ SweepFails
  \/ Crash

Spec == Init /\ [][Next]_vars

-----------------------------------------------------------------------------
(***************************************************************************)
(* send: however often the app repeats a request with a client_msg_id, and *)
(* whenever connections and processes end, there is one message of it; it  *)
(* is there if the app was answered; and the rooms are told once at most,  *)
(* of no message that was rolled back.                                     *)
(***************************************************************************)
MessageOnce ==
  /\ \A k \in Sends :
       /\ k \in Keyed => \A m, n \in Same(k) : Sent(m) /\ Sent(n) => m = n
       /\ k \in answered => \E m \in Same(k) : Sent(m)
  /\ \A m \in Numbers : told[m] <= 1 /\ (told[m] = 1 => Sent(m))

(***************************************************************************)
(* link and sweepOrphans: a message keeps every file it was sent with, and *)
(* no other message or sweep takes it; the object is there too if the file *)
(* was sent within a day of its upload.                                    *)
(***************************************************************************)
SentFileIsWhole ==
  \A m \in Numbers : Sent(m) =>
    \A f \in send[message[m].send].files :
      /\ file[f].state = "row" /\ file[f].message = m
      /\ file[f].whole \/ file[f].aged

\* The cursor of s has its own messages in it, and messages follow or end it
CursorFits(s) ==
  /\ cursor[s] = 0 \/ \E m \in Numbers : Sent(m) /\ cursor[s] <= m
  /\ \A m \in Numbers :
       Sent(m) /\ Side(send[message[m].send].user) = s => m <= cursor[s]

(***************************************************************************)
(* send and read: transactions commit out of the order of their numbers    *)
(* and apps report what they like, but what a side has read never shrinks, *)
(* has its own messages in it, and does not pass the newest message.       *)
(***************************************************************************)
CursorsStand ==
  [][\A s \in Sides : cursor[s] <= cursor'[s] /\ CursorFits(s)']_vars

-----------------------------------------------------------------------------
(* The chat as others see it: what open transactions write is not there    *)

PlaceOf(f) ==
  CASE file[f].state = "none" -> "new"
    [] file[f].state = "gone" -> "gone"
    [] Orphan(f)              -> "loose"
    [] OTHER                  -> "sent"

posts == [m \in Numbers |->
  IF Sent(m) THEN [send |-> message[m].send, files |-> {f \in Files : file[f].message = m}]
             ELSE [send |-> Null, files |-> {}]]
shelf == [f \in Files |-> [place |-> PlaceOf(f), owner |-> file[f].user]]

L == INSTANCE ChatLog WITH asked <- send

(***************************************************************************)
(* send, read and the sweep, with their statements interleaved, undone and *)
(* repeated, look as if each were done at once, once.                      *)
(***************************************************************************)
ImplementsChatLog == L!Spec

=============================================================================
