----------------------------- MODULE Chats_proofs -----------------------------
(***************************************************************************)
(* Theorems about a chat, for any users, messages, files, requests and     *)
(* batch of the sweep.                                                     *)
(*                                                                         *)
(* What holds of the rows needs what holds of the requests that write      *)
(* them: CallOK says how far a transaction has come and that its number    *)
(* is its own (NumbersApart), MessageOK and FileOK tie the message_id of   *)
(* a file to the files that its message was sent with, and SweepOK is      *)
(* what a sweep still knows of rows that it read earlier.                  *)
(***************************************************************************)
EXTENDS Chats, TLAPS

Numbered == {"place", "link", "commit", "deliver"}

CallOK(p) ==
  LET n == calls[p].number
      k == calls[p].send
  IN /\ calls[p].step # "idle" => k \in Sends /\ send[k].user \in Users
     /\ calls[p].step \in {"idle", "number"} => n = 0
     /\ calls[p].step \in Numbered => n \in Numbers /\ n < next /\ told[n] = 0
     /\ At(p, "place") => message[n] = NoMessage
     /\ At(p, "link") \/ At(p, "commit") => Open(n) /\ message[n].send = k
     /\ At(p, "deliver") => Sent(n) /\ message[n].send = k
     /\ At(p, "link") => \A f \in Files : file[f].message # n
     /\ At(p, "commit") => \A f \in send[k].files : file[f].message = n

NumbersApart ==
  \A p, q \in Procs :
    p # q /\ calls[p].step \in Numbered /\ calls[q].step \in Numbered
      => calls[p].number # calls[q].number

MessageOK(m) ==
  /\ Open(m) \/ Sent(m) => /\ m < next
                           /\ message[m].send \in Sends
                           /\ send[message[m].send].user \in Users
  /\ ~(Open(m) \/ Sent(m)) => message[m] = NoMessage
  /\ told[m] <= 1 /\ (told[m] = 1 => Sent(m))
  /\ Sent(m) => \A f \in send[message[m].send].files : file[f].message = m

FileOK(f) ==
  /\ file[f].message # 0 =>
       /\ file[f].state = "row"
       /\ Open(file[f].message) \/ Sent(file[f].message)
       /\ f \in send[message[file[f].message].send].files
  /\ file[f].state = "row" => file[f].whole \/ file[f].aged

SweepOK == \A f \in sweep.rows : file[f].aged

KeyedOnce == \A k \in Keyed : \A m, n \in Same(k) : m = n

AnsweredIsSent == \A k \in answered : \E m \in Same(k) : Sent(m)

IInv ==
  /\ TypeOK
  /\ \A p \in Procs : CallOK(p)
  /\ NumbersApart
  /\ \A m \in Numbers : MessageOK(m)
  /\ \A f \in Files : FileOK(f)
  /\ SweepOK
  /\ KeyedOnce
  /\ AnsweredIsSent
  /\ \A s \in Sides : CursorFits(s)

-----------------------------------------------------------------------------
LEMMA NoneType ==
  /\ NoSend \in Send /\ NoMessage \in Message /\ NoFile \in File
  /\ IdleCall \in Call /\ IdleSweep \in Sweep
  BY ChatsAssumption DEF NoSend, Send, NoMessage, Message, NoFile, File, IdleCall, Call,
     IdleSweep, Sweep, Numbers

LEMMA InitOK == Init => IInv
  <1> SUFFICES ASSUME Init PROVE IInv
    OBVIOUS
  <1> USE ChatsAssumption
  <1>1. TypeOK
    <2>1. next \in 1 .. MaxNumber + 1 /\ cursor \in [Sides -> 0 .. MaxNumber]
          /\ told \in [Numbers -> 0 .. 2]
      BY DEF Init
    <2>2. sweep \in Sweep /\ sweep.left \subseteq sweep.rows
      BY NoneType DEF Init, IdleSweep
    <2>3. QED
      BY <2>1, <2>2, NoneType DEF Init, TypeOK
  <1>2. ASSUME NEW p \in Procs PROVE CallOK(p) /\ calls[p].step = "idle"
    BY DEF Init, CallOK, IdleCall, At, Numbered
  <1>3. NumbersApart
    BY <1>2 DEF NumbersApart, Numbered
  <1>4. ASSUME NEW m \in Numbers PROVE MessageOK(m) /\ message[m].state = "none"
                                       /\ message[m].send = Null
    BY DEF Init, MessageOK, NoMessage, Open, Sent
  <1>5. ASSUME NEW f \in Files PROVE FileOK(f)
    BY DEF Init, FileOK, NoFile
  <1>6. SweepOK
    BY DEF Init, SweepOK, IdleSweep
  <1>7. KeyedOnce
    BY <1>4 DEF KeyedOnce, Same
  <1>8. AnsweredIsSent
    BY DEF Init, AnsweredIsSent
  <1>9. \A s \in Sides : CursorFits(s)
    BY <1>4 DEF Init, CursorFits, Sent
  <1>10. QED
    BY <1>1, <1>2, <1>3, <1>4, <1>5, <1>6, <1>7, <1>8, <1>9 DEF IInv

-----------------------------------------------------------------------------
(***************************************************************************)
(* Files that change while their message_id stays: an upload, age and the  *)
(* sweep.  A row that a message has stays, no row loses its object before  *)
(* it is old, and a sweep has old rows only.                               *)
(***************************************************************************)
LEMMA FileStep ==
  ASSUME IInv,
         UNCHANGED <<send, message, next, cursor, calls, told, answered>>,
         file' \in [Files -> File],
         \A f \in Files :
           /\ file'[f].message = file[f].message
           /\ file[f].message # 0 => file'[f].state = file[f].state
           /\ file[f].aged => file'[f].aged
           /\ file'[f].state = "row" => file'[f].whole \/ file'[f].aged,
         sweep' \in Sweep, sweep'.left \subseteq sweep'.rows,
         \A f \in sweep'.rows : file'[f].aged
  PROVE  IInv'
  <1>1. TypeOK'
    BY DEF IInv, TypeOK
  <1>2. ASSUME NEW p \in Procs PROVE CallOK(p)'
    <2>1. CallOK(p)
      BY DEF IInv
    <2>2. At(p, "commit") => send[calls[p].send].files \subseteq Files
      BY <2>1 DEF IInv, TypeOK, Send, CallOK, At
    <2>3. QED
      BY <2>1, <2>2 DEF CallOK, At, Open, Sent
  <1>3. NumbersApart'
    BY DEF IInv, NumbersApart
  <1>4. ASSUME NEW m \in Numbers PROVE MessageOK(m)'
    <2>1. MessageOK(m)
      BY DEF IInv
    <2>2. Sent(m) => send[message[m].send].files \subseteq Files
      BY <2>1 DEF IInv, TypeOK, Send, MessageOK
    <2>3. QED
      BY <2>1, <2>2 DEF MessageOK, Open, Sent
  <1>5. ASSUME NEW f \in Files PROVE FileOK(f)'
    BY DEF IInv, FileOK, Open, Sent
  <1>6. SweepOK'
    BY DEF SweepOK
  <1>7. KeyedOnce' /\ AnsweredIsSent' /\ \A s \in Sides : CursorFits(s)'
    BY DEF IInv, KeyedOnce, AnsweredIsSent, CursorFits, Same, Sent
  <1>8. QED
    BY <1>1, <1>2, <1>3, <1>4, <1>5, <1>6, <1>7 DEF IInv

LEMMA UploadOK == ASSUME IInv, NEW u \in Users, NEW f \in Files, Upload(u, f) PROVE IInv'
  <1> DEFINE new == [state |-> "row", user |-> u, message |-> 0, aged |-> FALSE, whole |-> TRUE]
  <1>1. new \in File /\ new.message = 0 /\ new.whole
    <2>1. 0 \in 0 .. MaxNumber
      BY ChatsAssumption
    <2>2. QED
      BY <2>1 DEF File
  <1>2. file' = [file EXCEPT ![f] = new] /\ file[f] = NoFile /\ UNCHANGED sweep
    BY DEF Upload
  <1>3. file \in [Files -> File] /\ sweep \in Sweep /\ sweep.left \subseteq sweep.rows
        /\ sweep.rows \subseteq Files
    BY DEF IInv, TypeOK, Sweep
  <1>4. file' \in [Files -> File]
    BY <1>1, <1>2, <1>3
  <1>5. ASSUME NEW g \in Files
        PROVE /\ file'[g].message = file[g].message
              /\ file[g].message # 0 => file'[g].state = file[g].state
              /\ file[g].aged => file'[g].aged
              /\ file'[g].state = "row" => file'[g].whole \/ file'[g].aged
    <2>1. FileOK(g)
      BY DEF IInv
    <2>2. CASE g = f
      BY <1>1, <1>2, <1>3, <2>2 DEF NoFile
    <2>3. CASE g # f
      BY <1>2, <1>3, <2>1, <2>3 DEF FileOK
    <2>4. QED
      BY <2>2, <2>3
  <1>6. \A g \in sweep'.rows : file'[g].aged
    BY <1>2, <1>3, <1>5 DEF IInv, SweepOK
  <1>7. UNCHANGED <<send, message, next, cursor, calls, told, answered>>
    BY DEF Upload
  <1>8. QED
    BY <1>2, <1>3, <1>4, <1>5, <1>6, <1>7, FileStep

LEMMA AgeOK == ASSUME IInv, NEW f \in Files, Age(f) PROVE IInv'
  <1>1. file \in [Files -> File] /\ sweep \in Sweep /\ sweep.left \subseteq sweep.rows
        /\ sweep.rows \subseteq Files
    BY DEF IInv, TypeOK, Sweep
  <1>2. file' = [file EXCEPT ![f].aged = TRUE] /\ UNCHANGED sweep
        /\ UNCHANGED <<send, message, next, cursor, calls, told, answered>>
    BY DEF Age
  <1>3. file' \in [Files -> File]
    BY <1>1, <1>2 DEF File
  <1>4. ASSUME NEW g \in Files
        PROVE /\ file'[g].message = file[g].message
              /\ file[g].message # 0 => file'[g].state = file[g].state
              /\ file[g].aged => file'[g].aged
              /\ file'[g].state = "row" => file'[g].whole \/ file'[g].aged
    BY <1>1, <1>2 DEF IInv, FileOK, File
  <1>5. \A g \in sweep'.rows : file'[g].aged
    BY <1>1, <1>2, <1>4 DEF IInv, SweepOK
  <1>6. QED
    BY <1>1, <1>2, <1>3, <1>4, <1>5, FileStep

LEMMA SweepStepOK ==
  ASSUME IInv, TickBegin \/ SweepRead \/ SweepDelete \/ SweepFails
               \/ \E f \in Files : SweepRemove(f)
  PROVE  IInv'
  <1>1. file \in [Files -> File] /\ sweep \in Sweep /\ sweep.left \subseteq sweep.rows
        /\ sweep.rows \subseteq Files /\ \A g \in Files : FileOK(g)
    BY DEF IInv, TypeOK, Sweep
  <1>2. CASE TickBegin \/ SweepRead \/ SweepFails
    <2>1. UNCHANGED <<send, message, next, cursor, calls, told, answered>> /\ UNCHANGED file
      BY <1>2 DEF TickBegin, SweepRead, SweepFails
    <2>2. sweep' \in Sweep /\ sweep'.left \subseteq sweep'.rows
          /\ \A g \in sweep'.rows : file[g].aged
      <3>1. CASE TickBegin \/ SweepFails \/ sweep' = IdleSweep
        BY <3>1 DEF TickBegin, SweepFails, IdleSweep, Sweep
      <3>2. CASE SweepRead /\ sweep' # IdleSweep
        <4>1. PICK rows \in SUBSET Due : sweep' = [step |-> "remove", rows |-> rows, left |-> rows]
          BY <3>2 DEF SweepRead
        <4>2. QED
          BY <4>1 DEF Due, Sweep
      <3>3. QED
        BY <1>2, <3>1, <3>2
    <2>3. QED
      BY <1>1, <2>1, <2>2, FileStep DEF FileOK
  <1>3. CASE SweepDelete
    <2>1. UNCHANGED <<send, message, next, cursor, calls, told, answered>>
      BY <1>3 DEF SweepDelete
    <2>2. file' \in [Files -> File]
      BY <1>1, <1>3 DEF SweepDelete, File
    <2>3. ASSUME NEW g \in Files
          PROVE /\ file'[g].message = file[g].message
                /\ file[g].message # 0 => file'[g].state = file[g].state
                /\ file[g].aged => file'[g].aged
                /\ file'[g].state = "row" => file'[g].whole \/ file'[g].aged
      BY <1>1, <1>3 DEF SweepDelete, FileOK, File
    <2>4. sweep' \in Sweep /\ sweep'.left \subseteq sweep'.rows /\ sweep'.rows = {}
      BY <1>3 DEF SweepDelete, IdleSweep, Sweep
    <2>5. QED
      BY <2>1, <2>2, <2>3, <2>4, FileStep
  <1>4. ASSUME NEW f \in Files, SweepRemove(f) PROVE IInv'
    <2>1. UNCHANGED <<send, message, next, cursor, calls, told, answered>>
      BY <1>4 DEF SweepRemove
    <2>2. PICK whole \in {file[f].whole, FALSE} : file' = [file EXCEPT ![f].whole = whole]
      BY <1>4 DEF SweepRemove
    <2>3. file' \in [Files -> File]
      BY <1>1, <2>2 DEF File
    <2>4. file[f].aged
      BY <1>1, <1>4 DEF SweepRemove, IInv, SweepOK
    <2>5. ASSUME NEW g \in Files
          PROVE /\ file'[g].message = file[g].message
                /\ file[g].message # 0 => file'[g].state = file[g].state
                /\ file[g].aged => file'[g].aged
                /\ file'[g].state = "row" => file'[g].whole \/ file'[g].aged
      <3>1. CASE g = f
        BY <1>1, <2>2, <2>4, <3>1 DEF File
      <3>2. CASE g # f
        BY <1>1, <2>2, <3>2 DEF FileOK
      <3>3. QED
        BY <3>1, <3>2
    <2>6. sweep' \in Sweep /\ sweep'.left \subseteq sweep'.rows /\ sweep'.rows = sweep.rows
      BY <1>1, <1>4 DEF SweepRemove, Sweep
    <2>7. \A g \in sweep'.rows : file'[g].aged
      BY <1>1, <2>5, <2>6 DEF IInv, SweepOK
    <2>8. QED
      BY <2>1, <2>3, <2>5, <2>6, <2>7, FileStep
  <1>5. QED
    BY <1>2, <1>3, <1>4

-----------------------------------------------------------------------------
LEMMA ReadOK == ASSUME IInv, NEW s \in Sides, NEW n \in Numbers, Read(s, n)
                PROVE IInv' /\ \A z \in Sides : cursor[z] <= cursor'[z]
  <1> USE ChatsAssumption
  <1>1. PICK newest \in 0 .. MaxNumber :
          IsNewest(newest) /\ cursor' = [cursor EXCEPT ![s] = Greatest(@, Least(n, newest))]
    BY DEF Read
  <1>2. UNCHANGED <<send, message, next, file, calls, sweep, told, answered>>
    BY DEF Read
  <1>3. cursor \in [Sides -> 0 .. MaxNumber] /\ CursorFits(s)
    BY DEF IInv, TypeOK
  <1>4. Greatest(cursor[s], Least(n, newest)) \in 0 .. MaxNumber
        /\ cursor[s] <= Greatest(cursor[s], Least(n, newest))
    BY <1>3 DEF Greatest, Least, Numbers
  <1>5. cursor' \in [Sides -> 0 .. MaxNumber] /\ \A z \in Sides : cursor[z] <= cursor'[z]
    BY <1>1, <1>3, <1>4
  <1>6. CursorFits(s)'
    <2>1. cursor'[s] = cursor[s] \/ cursor'[s] = 0 \/ (newest # 0 /\ cursor'[s] <= newest)
      BY <1>1, <1>3 DEF Greatest, Least, Numbers
    <2>2. newest # 0 => newest \in Numbers /\ Sent(newest)
      BY <1>1 DEF IsNewest, Numbers
    <2>3. cursor'[s] = 0 \/ \E m \in Numbers : Sent(m) /\ cursor'[s] <= m
      BY <1>3, <2>1, <2>2 DEF CursorFits
    <2>4. ASSUME NEW m \in Numbers, Sent(m), Side(send[message[m].send].user) = s
          PROVE  m <= cursor'[s]
      BY <1>3, <1>5, <2>4 DEF CursorFits, Numbers
    <2>5. QED
      BY <1>2, <2>3, <2>4 DEF CursorFits, Sent
  <1>7. ASSUME NEW z \in Sides PROVE CursorFits(z)'
    <2>1. CASE z = s
      BY <1>6, <2>1
    <2>2. CASE z # s
      BY <1>1, <1>2, <1>3, <2>2 DEF IInv, CursorFits, Sent
    <2>3. QED
      BY <2>1, <2>2
  <1>8. TypeOK'
    BY <1>2, <1>5 DEF IInv, TypeOK
  <1>9. (\A p \in Procs : CallOK(p))' /\ NumbersApart'
    BY <1>2 DEF IInv, CallOK, NumbersApart, At, Open, Sent
  <1>10. (\A m \in Numbers : MessageOK(m))' /\ (\A f \in Files : FileOK(f))'
         /\ SweepOK' /\ KeyedOnce' /\ AnsweredIsSent'
    BY <1>2 DEF IInv, MessageOK, FileOK, SweepOK, KeyedOnce, AnsweredIsSent, Same, Open, Sent
  <1>11. QED
    BY <1>5, <1>7, <1>8, <1>9, <1>10 DEF IInv

(***************************************************************************)
(* An answer is given for what was sent.                                   *)
(***************************************************************************)
LEMMA AnswerOK ==
  ASSUME AnsweredIsSent, NEW k \in Sends, Answer(k), \E m \in Same(k) : Sent(m), UNCHANGED message,
         answered \subseteq Sends
  PROVE  AnsweredIsSent' /\ answered' \subseteq Sends
  BY DEF AnsweredIsSent, Answer, Same, Sent

(***************************************************************************)
(* The first request for a message settles what is in it: nobody has       *)
(* written a message of it before.                                         *)
(***************************************************************************)
LEMMA SendBeginOK ==
  ASSUME IInv, NEW p \in Procs, NEW k \in Sends, NEW s \in Send, SendBegin(p, k, s) PROVE IInv'
  <1> USE ChatsAssumption
  <1>1. /\ At(p, "idle") /\ s.user # Null /\ send[k] \in {NoSend, s}
        /\ send' = [send EXCEPT ![k] = s]
        /\ UNCHANGED <<message, next, cursor, file, sweep, told>>
    BY DEF SendBegin
  <1>2. TypeOK /\ send \in [Sends -> Send] /\ s.user \in Users /\ calls \in [Procs -> Call]
        /\ calls[p] \in Call
    BY <1>1 DEF IInv, TypeOK, Send
  <1>3. \A j \in Sends : send[j].user \in Users => send'[j] = send[j]
    BY <1>1, <1>2 DEF NoSend
  <1>4. \A j \in Sends : send[j].user \in Users => send'[j].user \in Users
    BY <1>3
  <1> DEFINE new == [step |-> "number", send |-> k, number |-> 0]
  <1>5. \/ UNCHANGED calls /\ Answer(k) /\ \E m \in Same(k) : Sent(m)
        \/ calls' = [calls EXCEPT ![p] = new] /\ UNCHANGED answered
    BY DEF SendBegin
  <1>6. new \in Call
    BY DEF Call
  <1>7. calls' \in [Procs -> Call] /\ \A q \in Procs : calls'[q] = calls[q] \/ calls'[q] = new
    BY <1>2, <1>5, <1>6
  <1>8. AnsweredIsSent' /\ answered' \subseteq Sends
    BY <1>1, <1>2, <1>5, AnswerOK DEF IInv, TypeOK, AnsweredIsSent, Same, Sent
  <1>9. TypeOK'
    BY <1>1, <1>2, <1>7, <1>8 DEF TypeOK
  <1>10. ASSUME NEW q \in Procs PROVE CallOK(q)'
    <2>1. CASE calls'[q] = calls[q]
      <3>1. CallOK(q) /\ calls[q] \in Call
        BY <1>2 DEF IInv
      <3>2. calls[q].step # "idle" => send'[calls[q].send] = send[calls[q].send]
        BY <1>3, <3>1 DEF CallOK
      <3>3. QED
        BY <1>1, <2>1, <3>1, <3>2 DEF CallOK, At, Open, Sent, Numbered
    <2>2. CASE calls'[q] = new
      <3>1. send'[k] = s
        BY <1>1, <1>2
      <3>2. QED
        BY <1>2, <2>2, <3>1 DEF CallOK, At, Numbered
    <2>3. QED
      BY <1>7, <2>1, <2>2
  <1>11. NumbersApart'
    BY <1>7 DEF IInv, NumbersApart, Numbered
  <1>12. ASSUME NEW m \in Numbers PROVE MessageOK(m)'
    <2>1. MessageOK(m)
      BY DEF IInv
    <2>2. Open(m) \/ Sent(m) => send'[message[m].send] = send[message[m].send]
      BY <1>3, <2>1 DEF MessageOK
    <2>3. QED
      BY <1>1, <2>1, <2>2 DEF MessageOK, Open, Sent
  <1>13. ASSUME NEW f \in Files PROVE FileOK(f)'
    <2>1. FileOK(f) /\ file[f].message \in 0 .. MaxNumber
      BY <1>2 DEF IInv, TypeOK, File
    <2>2. CASE file[f].message = 0
      BY <1>1, <2>1, <2>2 DEF FileOK
    <2>3. CASE file[f].message # 0
      <3>1. file[f].message \in Numbers
        BY <2>1, <2>3 DEF Numbers
      <3>2. MessageOK(file[f].message)
        BY <3>1 DEF IInv
      <3>3. send'[message[file[f].message].send] = send[message[file[f].message].send]
        BY <1>3, <2>1, <2>3, <3>2 DEF FileOK, MessageOK
      <3>4. QED
        BY <1>1, <2>1, <3>3 DEF FileOK, Open, Sent
    <2>4. QED
      BY <2>2, <2>3
  <1>14. SweepOK' /\ KeyedOnce'
    BY <1>1 DEF IInv, SweepOK, KeyedOnce, Same
  <1>15. ASSUME NEW z \in Sides PROVE CursorFits(z)'
    <2>1. CursorFits(z)
      BY DEF IInv
    <2>2. ASSUME NEW m \in Numbers, Sent(m)
          PROVE  send'[message[m].send] = send[message[m].send]
      BY <1>3, <2>2 DEF IInv, MessageOK
    <2>3. QED
      BY <1>1, <2>1, <2>2 DEF CursorFits, Sent
  <1>16. QED
    BY <1>8, <1>9, <1>10, <1>11, <1>12, <1>13, <1>14, <1>15 DEF IInv

-----------------------------------------------------------------------------
(***************************************************************************)
(* A number is new: no message, file, request or notice knows it.          *)
(***************************************************************************)
LEMMA NumberOK == ASSUME IInv, NEW p \in Procs, Number(p) PROVE IInv'
  <1> USE ChatsAssumption
  <1> DEFINE new == [calls[p] EXCEPT !.step = "place", !.number = next]
  <1>1. /\ At(p, "number") /\ next <= MaxNumber /\ next' = next + 1
        /\ UNCHANGED <<send, message, cursor, file, sweep, told, answered>>
    BY DEF Number
  <1>2. TypeOK /\ calls \in [Procs -> Call] /\ calls[p] \in Call /\ next \in 1 .. MaxNumber + 1
        /\ CallOK(p)
    BY DEF IInv, TypeOK
  <1>3. next \in Numbers /\ next \in 0 .. MaxNumber /\ next' \in 1 .. MaxNumber + 1
    BY <1>1, <1>2 DEF Numbers
  <1>4. new \in Call /\ new.step = "place" /\ new.number = next /\ new.send = calls[p].send
    BY <1>2, <1>3 DEF Call
  <1>5. calls' = [calls EXCEPT ![p] = new]
    BY DEF Number
  <1>6. calls'[p] = new /\ calls' \in [Procs -> Call]
        /\ \A q \in Procs \ {p} : calls'[q] = calls[q]
    BY <1>2, <1>4, <1>5
  <1> HIDE DEF new
  <1>7. message[next] = NoMessage /\ told[next] = 0
    <2>1. MessageOK(next) /\ told[next] \in 0 .. 2 /\ ~(next < next)
      BY <1>2, <1>3 DEF IInv, TypeOK
    <2>2. QED
      BY <2>1 DEF MessageOK
  <1>8. TypeOK'
    BY <1>1, <1>2, <1>3, <1>6 DEF TypeOK
  <1>9. ASSUME NEW q \in Procs PROVE CallOK(q)'
    <2>1. CASE q = p
      <3>1. calls'[p].step = "place" /\ calls'[p].number = next /\ calls'[p].send = calls[p].send
        BY <1>4, <1>6
      <3>2. calls[p].send \in Sends /\ send[calls[p].send].user \in Users
        BY <1>1, <1>2 DEF CallOK, At
      <3>3. next < next'
        BY <1>1, <1>2
      <3>4. QED
        BY <1>1, <1>3, <1>7, <2>1, <3>1, <3>2, <3>3 DEF CallOK, At, Numbered
    <2>2. CASE q # p
      <3>1. CallOK(q) /\ calls'[q] = calls[q] /\ calls[q].number \in 0 .. MaxNumber
        BY <1>2, <1>6, <2>2 DEF IInv, TypeOK, Call
      <3>2. calls[q].number < next => calls[q].number < next'
        BY <1>1, <1>2, <3>1
      <3>3. QED
        BY <1>1, <3>1, <3>2 DEF CallOK, At, Open, Sent
    <2>3. QED
      BY <2>1, <2>2
  <1>10. NumbersApart'
    <2>1. ASSUME NEW q \in Procs \ {p}, calls[q].step \in Numbered PROVE calls[q].number # next
      BY <1>2, <2>1 DEF IInv, TypeOK, CallOK, Call
    <2>2. ASSUME NEW q \in Procs, NEW z \in Procs, q # z,
                 calls'[q].step \in Numbered, calls'[z].step \in Numbered
          PROVE  calls'[q].number # calls'[z].number
      <3>1. CASE q # p /\ z # p
        BY <1>6, <2>2, <3>1 DEF IInv, NumbersApart
      <3>2. CASE q = p
        BY <1>4, <1>6, <2>1, <2>2, <3>2
      <3>3. CASE z = p
        BY <1>4, <1>6, <2>1, <2>2, <3>3
      <3>4. QED
        BY <3>1, <3>2, <3>3
    <2>3. QED
      BY <2>2 DEF NumbersApart
  <1>11. ASSUME NEW m \in Numbers PROVE MessageOK(m)'
    <2>1. MessageOK(m) /\ (m < next => m < next')
      BY <1>1, <1>2 DEF IInv, Numbers
    <2>2. QED
      BY <1>1, <2>1 DEF MessageOK, Open, Sent
  <1>12. (\A f \in Files : FileOK(f))' /\ SweepOK' /\ KeyedOnce' /\ AnsweredIsSent'
         /\ (\A z \in Sides : CursorFits(z))'
    BY <1>1 DEF IInv, FileOK, SweepOK, KeyedOnce, AnsweredIsSent, CursorFits, Same, Open, Sent
  <1>13. QED
    BY <1>8, <1>9, <1>10, <1>11, <1>12 DEF IInv

(***************************************************************************)
(* The transactions of some numbers are rolled back and their requests     *)
(* end: what remains never relied on them.                                 *)
(***************************************************************************)
LEMMA RollStep ==
  ASSUME IInv, NEW numbers, RolledBack(numbers),
         UNCHANGED <<send, next, cursor, told, answered>>,
         sweep' \in {sweep, IdleSweep},
         calls' \in [Procs -> Call],
         \A q \in Procs :
           \/ calls'[q] = IdleCall
           \/ calls'[q] = calls[q] /\ (calls[q].step \in Numbered => calls[q].number \notin numbers)
  PROVE  IInv'
  <1> USE ChatsAssumption
  <1>1. TypeOK /\ message \in [Numbers -> Message] /\ file \in [Files -> File]
    BY DEF IInv, TypeOK
  <1>2. message' \in [Numbers -> Message]
        /\ \A m \in Numbers :
             /\ Open(m) /\ m \in numbers => message'[m] = NoMessage
             /\ ~(Open(m) /\ m \in numbers) => message'[m] = message[m]
    BY <1>1, NoneType DEF RolledBack
  <1>3. file' \in [Files -> File]
        /\ \A f \in Files :
             /\ file'[f].message \in {file[f].message, 0}
             /\ file[f].message \in numbers /\ Locked(f) => file'[f].message = 0
             /\ file[f].message \notin numbers \/ ~Locked(f) => file'[f] = file[f]
             /\ file'[f].state = file[f].state /\ file'[f].aged = file[f].aged
             /\ file'[f].whole = file[f].whole
    BY <1>1 DEF RolledBack, File
  <1>4. \A m \in Numbers : Sent(m)' <=> Sent(m)
    BY <1>2 DEF Sent, Open, NoMessage
  <1>5. TypeOK'
    <2>1. sweep' \in Sweep /\ sweep'.left \subseteq sweep'.rows
      <3>1. IdleSweep \in Sweep /\ IdleSweep.left \subseteq IdleSweep.rows
        BY DEF IdleSweep, Sweep
      <3>2. QED
        BY <1>1, <3>1 DEF TypeOK
    <2>2. QED
      BY <1>1, <1>2, <1>3, <2>1 DEF TypeOK
  <1>6. ASSUME NEW q \in Procs PROVE CallOK(q)'
    <2>1. CASE calls'[q] = IdleCall
      BY <2>1 DEF CallOK, IdleCall, At, Numbered
    <2>2. CASE /\ calls'[q] = calls[q]
               /\ calls[q].step \in Numbered => calls[q].number \notin numbers
      <3> DEFINE n == calls[q].number
      <3>1. CallOK(q)
        BY DEF IInv
      <3>2. CASE calls[q].step \in Numbered
        <4>1. n \in Numbers /\ n \notin numbers /\ message'[n] = message[n] /\ n # 0
          BY <1>2, <2>2, <3>1, <3>2 DEF CallOK, Numbers
        <4>2. ASSUME NEW f \in Files
              PROVE (file[f].message = n => file'[f].message = n)
                    /\ (file[f].message # n => file'[f].message # n)
          BY <1>3, <4>1
        <4>3. At(q, "commit") => send[calls[q].send].files \subseteq Files
          BY <1>1, <3>1 DEF CallOK, At, TypeOK, Send
        <4>4. QED
          BY <2>2, <3>1, <4>1, <4>2, <4>3 DEF CallOK, At, Open, Sent
      <3>3. CASE calls[q].step \notin Numbered
        BY <2>2, <3>1, <3>3 DEF CallOK, At, Numbered
      <3>4. QED
        BY <3>2, <3>3
    <2>3. QED
      BY <2>1, <2>2
  <1>7. NumbersApart'
    <2>1. \A q \in Procs : calls'[q].step \in Numbered => calls'[q] = calls[q]
      BY DEF IdleCall, Numbered
    <2>2. QED
      BY <2>1 DEF IInv, NumbersApart
  <1>8. ASSUME NEW m \in Numbers PROVE MessageOK(m)'
    <2>1. MessageOK(m)
      BY DEF IInv
    <2>2. CASE Open(m) /\ m \in numbers
      <3>1. message'[m] = NoMessage /\ told'[m] <= 1 /\ ~(told'[m] = 1)
        BY <1>2, <2>1, <2>2 DEF MessageOK, Open, Sent
      <3>2. QED
        BY <3>1 DEF MessageOK, Open, Sent, NoMessage
    <2>3. CASE ~(Open(m) /\ m \in numbers)
      <3>1. message'[m] = message[m]
        BY <1>2, <2>3
      <3>2. Sent(m) => send[message[m].send].files \subseteq Files
        BY <1>1, <2>1 DEF MessageOK, TypeOK, Send
      <3>3. ASSUME Sent(m), NEW f \in send[message[m].send].files PROVE file'[f].message = m
        <4>1. f \in Files /\ file[f].message = m /\ ~Locked(f)
          BY <2>1, <3>2, <3>3 DEF MessageOK, Locked, Open, Sent
        <4>2. QED
          BY <1>3, <4>1
      <3>4. QED
        BY <2>1, <3>1, <3>3 DEF MessageOK, Open, Sent
    <2>4. QED
      BY <2>2, <2>3
  <1>9. ASSUME NEW f \in Files PROVE FileOK(f)'
    <2>1. FileOK(f) /\ file[f].message \in 0 .. MaxNumber
      BY <1>1 DEF IInv, File
    <2>2. CASE file'[f].message = 0
      BY <1>3, <2>1, <2>2 DEF FileOK
    <2>3. CASE file'[f].message # 0
      <3>1. file[f].message \in Numbers /\ file'[f] = file[f]
            /\ (file[f].message \notin numbers \/ ~Locked(f))
        BY <1>3, <2>1, <2>3 DEF Numbers
      <3>2. message'[file[f].message] = message[file[f].message]
        BY <1>2, <2>3, <3>1 DEF Locked
      <3>3. QED
        BY <2>1, <3>1, <3>2 DEF FileOK, Open, Sent
    <2>4. QED
      BY <2>2, <2>3
  <1>10. SweepOK'
    <2>1. sweep.rows \subseteq Files
      BY <1>1 DEF TypeOK, Sweep
    <2>2. QED
      BY <1>3, <2>1 DEF IInv, SweepOK, IdleSweep
  <1>11. KeyedOnce'
    <2>1. \A k \in Keyed : Same(k)' \subseteq Same(k)
      BY <1>2 DEF Same, NoMessage
    <2>2. QED
      BY <2>1 DEF IInv, KeyedOnce
  <1>12. \A m \in Numbers : Sent(m) => message'[m] = message[m]
    BY <1>2 DEF Sent, Open
  <1>13. AnsweredIsSent'
    BY <1>12 DEF IInv, AnsweredIsSent, Same, Sent
  <1>14. \A z \in Sides : CursorFits(z)'
    BY <1>4, <1>12 DEF IInv, CursorFits
  <1>15. QED
    BY <1>5, <1>6, <1>7, <1>8, <1>9, <1>10, <1>11, <1>13, <1>14 DEF IInv

LEMMA SendFailsOK == ASSUME IInv, NEW p \in Procs, SendFails(p) PROVE IInv'
  <1>1. calls \in [Procs -> Call] /\ calls' = [calls EXCEPT ![p] = IdleCall]
    BY DEF IInv, TypeOK, SendFails, End
  <1>2. calls' \in [Procs -> Call]
    BY <1>1, NoneType
  <1>3. ASSUME NEW q \in Procs
        PROVE  \/ calls'[q] = IdleCall
               \/ calls'[q] = calls[q] /\ (calls[q].step \in Numbered
                                             => calls[q].number \notin {calls[p].number})
    <2>1. CASE calls[p].step \in Numbered
      BY <1>1, <2>1 DEF IInv, NumbersApart
    <2>2. CASE calls[p].step \notin Numbered
      <3>1. calls[p].number = 0 \/ q = p
        BY <2>2 DEF IInv, CallOK, SendFails, At, Numbered
      <3>2. calls[q].step \in Numbered => calls[q].number # 0
        BY ChatsAssumption DEF IInv, CallOK, Numbers
      <3>3. QED
        BY <1>1, <3>1, <3>2
    <2>3. QED
      BY <2>1, <2>2
  <1>4. RolledBack({calls[p].number}) /\ UNCHANGED <<send, next, cursor, told, answered>>
        /\ sweep' = sweep
    BY DEF SendFails
  <1>5. QED
    BY <1>2, <1>3, <1>4, RollStep

LEMMA CrashOK == ASSUME IInv, Crash PROVE IInv'
  <1>1. calls' = [p \in Procs |-> IdleCall] /\ sweep' = IdleSweep /\ RolledBack(Numbers)
        /\ UNCHANGED <<send, next, cursor, told, answered>>
    BY DEF Crash
  <1>2. calls' \in [Procs -> Call] /\ \A q \in Procs : calls'[q] = IdleCall
    BY <1>1, NoneType
  <1>3. QED
    BY <1>1, <1>2, RollStep

-----------------------------------------------------------------------------
(***************************************************************************)
(* A request that goes on: the others, whose numbers differ, are not       *)
(* disturbed by what it does to the rows of its own number.                *)
(***************************************************************************)
LEMMA OthersKept ==
  ASSUME IInv, NEW p \in Procs, calls[p].step \in Numbered,
         NEW q \in Procs \ {p}, calls'[q] = calls[q],
         UNCHANGED <<send, next>>,
         \A m \in Numbers \ {calls[p].number} : message'[m] = message[m] /\ told'[m] = told[m],
         \A f \in Files : file'[f].message \in {file[f].message, calls[p].number},
         \A f \in Files : file'[f].message # file[f].message => file[f].message = 0
  PROVE  CallOK(q)'
  <1> DEFINE n == calls[q].number
  <1>1. CallOK(q)
    BY DEF IInv
  <1>2. CASE calls[q].step \in Numbered
    <2>1. n \in Numbers \ {calls[p].number} /\ n # 0
      BY <1>1, <1>2, ChatsAssumption DEF IInv, NumbersApart, CallOK, Numbers
    <2>2. message'[n] = message[n] /\ told'[n] = told[n]
      BY <2>1
    <2>3. ASSUME NEW f \in Files
          PROVE (file[f].message = n => file'[f].message = n)
                /\ (file[f].message # n => file'[f].message # n)
      BY <2>1
    <2>4. At(q, "commit") => send[calls[q].send].files \subseteq Files
      BY <1>1 DEF CallOK, At, IInv, TypeOK, Send
    <2>5. QED
      BY <1>1, <2>1, <2>2, <2>3, <2>4 DEF CallOK, At, Open, Sent
  <1>3. CASE calls[q].step \notin Numbered
    BY <1>1, <1>3 DEF CallOK, At, Numbered
  <1>4. QED
    BY <1>2, <1>3

LEMMA EndOK ==
  ASSUME IInv, NEW p \in Procs, calls' = [calls EXCEPT ![p] = IdleCall],
         UNCHANGED <<send, message, next, cursor, file, sweep, told>>,
         AnsweredIsSent', answered' \subseteq Sends
  PROVE  IInv'
  <1>1. TypeOK /\ calls \in [Procs -> Call]
    BY DEF IInv, TypeOK
  <1>2. calls' \in [Procs -> Call]
        /\ \A q \in Procs : calls'[q] = IdleCall \/ calls'[q] = calls[q]
    BY <1>1, NoneType
  <1>3. TypeOK'
    BY <1>1, <1>2 DEF TypeOK
  <1>4. ASSUME NEW q \in Procs PROVE CallOK(q)'
    <2>1. CASE calls'[q] = IdleCall
      BY <2>1 DEF CallOK, IdleCall, At, Numbered
    <2>2. CASE calls'[q] = calls[q]
      BY <2>2 DEF IInv, CallOK, At, Open, Sent
    <2>3. QED
      BY <1>2, <2>1, <2>2
  <1>5. NumbersApart'
    <2>1. \A q \in Procs : calls'[q].step \in Numbered => calls'[q] = calls[q]
      BY <1>2 DEF IdleCall, Numbered
    <2>2. QED
      BY <2>1 DEF IInv, NumbersApart
  <1>6. (\A m \in Numbers : MessageOK(m))' /\ (\A f \in Files : FileOK(f))'
        /\ SweepOK' /\ KeyedOnce' /\ (\A z \in Sides : CursorFits(z))'
    BY DEF IInv, MessageOK, FileOK, SweepOK, KeyedOnce, CursorFits, Same, Open, Sent
  <1>7. QED
    BY <1>3, <1>4, <1>5, <1>6 DEF IInv

LEMMA PlaceOK == ASSUME IInv, NEW p \in Procs, Place(p) PROVE IInv'
  <1> USE ChatsAssumption
  <1> DEFINE n == calls[p].number
             k == calls[p].send
             same == IF k \in Keyed THEN Same(k) ELSE {}
             new == [calls[p] EXCEPT !.step = "link"]
             row == [state |-> "open", send |-> k]
  <1>1. At(p, "place") /\ UNCHANGED <<send, next, cursor, file, sweep, told>>
        /\ \A m \in same : ~Open(m)
    BY DEF Place
  <1>2. TypeOK /\ calls \in [Procs -> Call] /\ calls[p] \in Call /\ CallOK(p)
        /\ message \in [Numbers -> Message]
    BY DEF IInv, TypeOK
  <1>3. calls[p].step \in Numbered /\ n \in Numbers /\ n < next /\ told[n] = 0
        /\ message[n] = NoMessage /\ k \in Sends /\ send[k].user \in Users
    BY <1>1, <1>2 DEF CallOK, At, Numbered
  <1>4. CASE same # {}
    <2>1. calls' = [calls EXCEPT ![p] = IdleCall] /\ Answer(k) /\ UNCHANGED message
      BY <1>4 DEF Place, End
    <2>2. PICK m \in Same(k) : ~Open(m)
      BY <1>1, <1>4
    <2>3. m \in Numbers /\ message[m].send = k /\ MessageOK(m)
      BY <2>2 DEF Same, IInv
    <2>4. Sent(m)
      BY <1>3, <2>2, <2>3 DEF MessageOK, NoMessage
    <2>5. AnsweredIsSent' /\ answered' \subseteq Sends
      BY <1>2, <1>3, <2>1, <2>2, <2>4, AnswerOK DEF IInv, TypeOK
    <2>6. QED
      BY <1>1, <2>1, <2>5, EndOK
  <1>5. CASE same = {}
    <2>1. message' = [message EXCEPT ![n] = row] /\ calls' = [calls EXCEPT ![p] = new]
          /\ UNCHANGED answered
      BY <1>5 DEF Place, Step
    <2>2. new \in Call /\ new.step = "link" /\ new.number = n /\ new.send = k
      BY <1>2 DEF Call
    <2>3. row \in Message
      BY <1>3 DEF Message
    <2>4. calls' \in [Procs -> Call] /\ calls'[p] = new
          /\ \A q \in Procs \ {p} : calls'[q] = calls[q]
      BY <1>2, <2>1, <2>2
    <2>5. message' \in [Numbers -> Message] /\ message'[n] = row
          /\ \A m \in Numbers \ {n} : message'[m] = message[m]
      BY <1>2, <1>3, <2>1, <2>3
    <2> HIDE DEF new
    <2>6. TypeOK'
      BY <1>1, <1>2, <2>1, <2>4, <2>5 DEF TypeOK
    <2>z. file' = file /\ send' = send /\ (k \in Keyed => Same(k) = {})
      BY <1>1, <1>5
    <2> HIDE DEF same
    <2>7. ASSUME NEW f \in Files PROVE file[f].message # n /\ FileOK(f)'
      <3>1. FileOK(f) /\ file[f].message \in 0 .. MaxNumber
        BY <1>2 DEF IInv, TypeOK, File
      <3>2. file[f].message # n
        BY <1>3, <3>1 DEF FileOK, Open, Sent, NoMessage, Numbers
      <3>3. CASE file[f].message = 0
        BY <2>z, <3>1, <3>2, <3>3 DEF FileOK
      <3>4. CASE file[f].message # 0
        <4>1. message'[file[f].message] = message[file[f].message]
          BY <2>5, <3>1, <3>2, <3>4 DEF Numbers
        <4>2. QED
          BY <2>z, <3>1, <3>2, <4>1 DEF FileOK, Open, Sent
      <3>5. QED
        BY <3>3, <3>4
    <2>8. ASSUME NEW q \in Procs PROVE CallOK(q)'
      <3>1. CASE q = p
        BY <1>1, <1>3, <2>2, <2>4, <2>5, <2>7, <3>1 DEF CallOK, At, Open, Numbered
      <3>2. CASE q # p
        BY <1>1, <1>3, <2>4, <2>5, <3>2, OthersKept
      <3>3. QED
        BY <3>1, <3>2
    <2>9. NumbersApart'
      <3>1. \A q \in Procs : /\ calls'[q].number = calls[q].number
                             /\ calls'[q].step \in Numbered => calls[q].step \in Numbered
        BY <1>3, <2>2, <2>4
      <3>2. QED
        BY <3>1 DEF IInv, NumbersApart
    <2>10. ASSUME NEW m \in Numbers PROVE MessageOK(m)'
      <3>1. CASE m = n
        BY <1>1, <1>3, <2>5, <3>1 DEF MessageOK, Open, Sent
      <3>2. CASE m # n
        BY <1>1, <2>5, <3>2 DEF IInv, MessageOK, Open, Sent
      <3>3. QED
        BY <3>1, <3>2
    <2>11. SweepOK'
      BY <1>1 DEF IInv, SweepOK
    <2>12. KeyedOnce'
      <3>1. \A j \in Keyed \ {k} : Same(j)' \subseteq Same(j)
        BY <2>5 DEF Same
      <3>2. ASSUME k \in Keyed, NEW m \in Numbers, message'[m].send = k PROVE m = n
        BY <2>5, <2>z, <3>2 DEF Same
      <3>3. ASSUME NEW j \in Keyed, NEW m \in Same(j)', NEW i \in Same(j)' PROVE m = i
        <4>1. CASE j = k
          <5>1. m \in Numbers /\ i \in Numbers /\ message'[m].send = j /\ message'[i].send = j
            BY <3>3 DEF Same
          <5>2. QED
            BY <3>2, <4>1, <5>1
        <4>2. CASE j # k
          BY <3>1, <3>3, <4>2 DEF IInv, KeyedOnce
        <4>3. QED
          BY <4>1, <4>2
      <3>4. QED
        BY <3>3 DEF KeyedOnce
    <2>13. \A m \in Numbers : /\ Sent(m)' <=> Sent(m)
                              /\ Sent(m) => message'[m] = message[m]
      BY <1>3, <2>5 DEF Sent, NoMessage
    <2>14. AnsweredIsSent'
      BY <2>1, <2>13 DEF IInv, AnsweredIsSent, Same
    <2>15. \A z \in Sides : CursorFits(z)'
      BY <1>1, <2>13 DEF IInv, CursorFits
    <2>16. QED
      BY <2>6, <2>7, <2>8, <2>9, <2>10, <2>11, <2>12, <2>14, <2>15 DEF IInv
  <1>6. QED
    BY <1>4, <1>5

(***************************************************************************)
(* link: the files that go to the message were nobody's.                   *)
(***************************************************************************)
LEMMA LinkOK == ASSUME IInv, NEW p \in Procs, Link(p) PROVE IInv'
  <1> USE ChatsAssumption
  <1> DEFINE n == calls[p].number
             k == calls[p].send
             s == send[k]
             Free(f) == file[f].state = "row" /\ file[f].user = s.user /\ file[f].message = 0
             new == [calls[p] EXCEPT !.step = "commit"]
  <1>1. At(p, "link") /\ UNCHANGED <<send, next, cursor, sweep, told, answered>>
    BY DEF Link
  <1>2. TypeOK /\ calls \in [Procs -> Call] /\ calls[p] \in Call /\ CallOK(p)
        /\ file \in [Files -> File]
    BY DEF IInv, TypeOK
  <1>3. calls[p].step \in Numbered /\ n \in Numbers /\ n < next /\ told[n] = 0 /\ n # 0
        /\ Open(n) /\ message[n].send = k /\ k \in Sends /\ s.user \in Users
        /\ s.files \subseteq Files /\ n \in 0 .. MaxNumber
    BY <1>1, <1>2 DEF CallOK, At, Numbered, Numbers, TypeOK, Send
  <1>4. CASE ~ \A f \in s.files : Free(f)
    <2>1. RolledBack({n}) /\ calls' = [calls EXCEPT ![p] = IdleCall]
      BY <1>4 DEF Link, End
    <2>2. calls' \in [Procs -> Call]
      BY <1>2, <2>1, NoneType
    <2>3. ASSUME NEW q \in Procs
          PROVE  \/ calls'[q] = IdleCall
                 \/ calls'[q] = calls[q] /\ (calls[q].step \in Numbered => calls[q].number \notin {n})
      BY <1>2, <1>3, <2>1 DEF IInv, NumbersApart
    <2>4. QED
      BY <1>1, <2>1, <2>2, <2>3, RollStep
  <1>5. CASE \A f \in s.files : Free(f)
    <2>1. /\ file' = [f \in Files |-> IF f \in s.files THEN [file[f] EXCEPT !.message = n]
                                                        ELSE file[f]]
          /\ calls' = [calls EXCEPT ![p] = new] /\ UNCHANGED message
      BY <1>5 DEF Link, Step
    <2>2. new \in Call /\ new.step = "commit" /\ new.number = n /\ new.send = k
      BY <1>2 DEF Call
    <2>3. calls' \in [Procs -> Call] /\ calls'[p] = new
          /\ \A q \in Procs \ {p} : calls'[q] = calls[q]
      BY <1>2, <2>1, <2>2
    <2> HIDE DEF new
    <2>4. file' \in [Files -> File]
      BY <1>2, <1>3, <2>1 DEF File
    <2>5. \A f \in Files : /\ file'[f].state = file[f].state /\ file'[f].aged = file[f].aged
                           /\ file'[f].whole = file[f].whole
                           /\ f \in s.files => file'[f].message = n
                           /\ f \notin s.files => file'[f] = file[f]
      BY <1>2, <2>1 DEF File
    <2>6. \A f \in s.files : file[f].state = "row" /\ file[f].message = 0
      BY <1>5
    <2> HIDE DEF Free
    <2>7. TypeOK'
      BY <1>1, <1>2, <2>1, <2>3, <2>4 DEF TypeOK
    <2>8. ASSUME NEW q \in Procs PROVE CallOK(q)'
      <3>1. CASE q = p
        BY <1>1, <1>3, <2>1, <2>2, <2>3, <2>5, <3>1 DEF CallOK, At, Open, Numbered
      <3>2. CASE q # p
        <4>1. ASSUME NEW f \in Files
              PROVE  /\ file'[f].message \in {file[f].message, n}
                     /\ file'[f].message # file[f].message => file[f].message = 0
          BY <2>5, <2>6
        <4>2. UNCHANGED <<send, next>> /\ told' = told /\ message' = message
          BY <1>1, <2>1
        <4>3. QED
          BY <1>3, <2>3, <3>2, <4>1, <4>2, OthersKept
      <3>3. QED
        BY <3>1, <3>2
    <2>9. NumbersApart'
      <3>1. \A q \in Procs : /\ calls'[q].number = calls[q].number
                             /\ calls'[q].step \in Numbered => calls[q].step \in Numbered
        BY <1>3, <2>2, <2>3
      <3>2. QED
        BY <3>1 DEF IInv, NumbersApart
    <2>10. ASSUME NEW m \in Numbers PROVE MessageOK(m)'
      <3>1. MessageOK(m) /\ m # 0
        BY DEF IInv, Numbers
      <3>2. Sent(m) => send[message[m].send].files \subseteq Files
        BY <1>2, <3>1 DEF MessageOK, TypeOK, Send
      <3>3. ASSUME Sent(m), NEW f \in send[message[m].send].files PROVE file'[f].message = m
        <4>1. f \in Files /\ file[f].message = m
          BY <3>1, <3>2, <3>3 DEF MessageOK
        <4>2. QED
          BY <2>5, <2>6, <3>1, <4>1
      <3>4. QED
        BY <1>1, <2>1, <3>1, <3>3 DEF MessageOK, Open, Sent
    <2>11. ASSUME NEW f \in Files PROVE FileOK(f)'
      <3>1. FileOK(f) /\ message' = message /\ send' = send
        BY <1>1, <2>1 DEF IInv
      <3>2. CASE f \in s.files
        BY <1>3, <2>5, <2>6, <3>1, <3>2 DEF FileOK, Open, Sent
      <3>3. CASE f \notin s.files
        BY <2>5, <3>1, <3>3 DEF FileOK, Open, Sent
      <3>4. QED
        BY <3>2, <3>3
    <2>12. SweepOK'
      <3>1. sweep.rows \subseteq Files /\ sweep' = sweep
        BY <1>1, <1>2 DEF TypeOK, Sweep
      <3>2. QED
        BY <2>5, <3>1 DEF IInv, SweepOK
    <2>13. KeyedOnce' /\ AnsweredIsSent' /\ (\A z \in Sides : CursorFits(z))'
      BY <1>1, <2>1 DEF IInv, KeyedOnce, AnsweredIsSent, CursorFits, Same, Sent
    <2>14. QED
      BY <2>7, <2>8, <2>9, <2>10, <2>11, <2>12, <2>13 DEF IInv
  <1>6. QED
    BY <1>4, <1>5

LEMMA SideType == \A u : Side(u) \in Sides
  BY DEF Side, Sides

(***************************************************************************)
(* Commit: the message appears with its files, and below the cursor of its *)
(* sender, which only grows.                                               *)
(***************************************************************************)
LEMMA CommitOK == ASSUME IInv, NEW p \in Procs, Commit(p)
                  PROVE IInv' /\ \A z \in Sides : cursor[z] <= cursor'[z]
  <1> USE ChatsAssumption
  <1> DEFINE n == calls[p].number
             k == calls[p].send
             side == Side(send[k].user)
             new == [calls[p] EXCEPT !.step = "deliver"]
             row == [message[n] EXCEPT !.state = "sent"]
  <1>1. At(p, "commit") /\ UNCHANGED <<send, next, file, sweep, told, answered>>
        /\ message' = [message EXCEPT ![n] = row]
        /\ cursor' = [cursor EXCEPT ![side] = Greatest(@, n)]
        /\ calls' = [calls EXCEPT ![p] = new]
    BY DEF Commit, Step
  <1>2. TypeOK /\ calls \in [Procs -> Call] /\ calls[p] \in Call /\ CallOK(p)
        /\ message \in [Numbers -> Message] /\ cursor \in [Sides -> 0 .. MaxNumber]
    BY DEF IInv, TypeOK
  <1>3. calls[p].step \in Numbered /\ n \in Numbers /\ n < next /\ told[n] = 0
        /\ Open(n) /\ message[n].send = k /\ k \in Sends /\ send[k].user \in Users
        /\ \A f \in send[k].files : file[f].message = n
    BY <1>1, <1>2 DEF CallOK, At, Numbered
  <1>4. new \in Call /\ new.step = "deliver" /\ new.number = n /\ new.send = k
    BY <1>2 DEF Call
  <1>5. row \in Message /\ row.state = "sent" /\ row.send = k
    BY <1>2, <1>3 DEF Message
  <1>6. calls' \in [Procs -> Call] /\ calls'[p] = new
        /\ \A q \in Procs \ {p} : calls'[q] = calls[q]
    BY <1>1, <1>2, <1>4
  <1>7. message' \in [Numbers -> Message] /\ message'[n] = row
        /\ \A m \in Numbers \ {n} : message'[m] = message[m]
    BY <1>1, <1>2, <1>3, <1>5
  <1> HIDE DEF new, row
  <1>8. /\ cursor' \in [Sides -> 0 .. MaxNumber] /\ side \in Sides
        /\ cursor'[side] \in {cursor[side], n} /\ cursor[side] <= cursor'[side] /\ n <= cursor'[side]
        /\ \A z \in Sides \ {side} : cursor'[z] = cursor[z]
    <2>1. side \in Sides
      BY SideType
    <2>2. cursor[side] \in 0 .. MaxNumber /\ n \in 0 .. MaxNumber
      BY <1>2, <1>3, <2>1 DEF Numbers
    <2>3. Greatest(cursor[side], n) \in {cursor[side], n} /\ n <= Greatest(cursor[side], n)
          /\ cursor[side] <= Greatest(cursor[side], n)
      BY <2>2 DEF Greatest
    <2>4. QED
      BY <1>1, <1>2, <2>1, <2>2, <2>3
  <1>9. \A z \in Sides : cursor[z] <= cursor'[z]
    BY <1>2, <1>8
  <1>10. TypeOK'
    BY <1>1, <1>2, <1>6, <1>7, <1>8 DEF TypeOK
  <1>11. \A m \in Numbers : message'[m].send = message[m].send
    BY <1>3, <1>5, <1>7
  <1>12. \A m \in Numbers : Sent(m)' <=> (m = n \/ Sent(m))
    BY <1>5, <1>7 DEF Sent
  <1>13. \A m \in Numbers : (Open(m) \/ Sent(m))' <=> (Open(m) \/ Sent(m))
    BY <1>3, <1>5, <1>7 DEF Open, Sent
  <1>14. ASSUME NEW q \in Procs PROVE CallOK(q)'
    <2>1. CASE q = p
      BY <1>1, <1>3, <1>4, <1>5, <1>6, <1>7, <2>1 DEF CallOK, At, Sent, Numbered
    <2>2. CASE q # p
      <3>1. UNCHANGED <<send, next>> /\ told' = told /\ file' = file
        BY <1>1
      <3>2. QED
        BY <1>3, <1>6, <1>7, <2>2, <3>1, OthersKept
    <2>3. QED
      BY <2>1, <2>2
  <1>15. NumbersApart'
    <2>1. \A q \in Procs : /\ calls'[q].number = calls[q].number
                           /\ calls'[q].step \in Numbered => calls[q].step \in Numbered
      BY <1>3, <1>4, <1>6
    <2>2. QED
      BY <2>1 DEF IInv, NumbersApart
  <1>16. ASSUME NEW m \in Numbers PROVE MessageOK(m)'
    <2>1. CASE m = n
      BY <1>1, <1>3, <1>5, <1>7, <2>1 DEF MessageOK, Open, Sent
    <2>2. CASE m # n
      BY <1>1, <1>7, <2>2 DEF IInv, MessageOK, Open, Sent
    <2>3. QED
      BY <2>1, <2>2
  <1>17. ASSUME NEW f \in Files PROVE FileOK(f)'
    <2>1. FileOK(f) /\ file[f].message \in 0 .. MaxNumber /\ file' = file /\ send' = send
      BY <1>1, <1>2 DEF IInv, TypeOK, File
    <2>2. CASE file[f].message = 0
      BY <2>1, <2>2 DEF FileOK
    <2>3. CASE file[f].message # 0
      <3>1. file[f].message \in Numbers
        BY <2>1, <2>3 DEF Numbers
      <3>2. QED
        BY <1>11, <1>13, <2>1, <3>1 DEF FileOK
    <2>4. QED
      BY <2>2, <2>3
  <1>18. SweepOK'
    BY <1>1 DEF IInv, SweepOK
  <1>19. KeyedOnce' /\ AnsweredIsSent'
    <2>1. \A j : Same(j)' = Same(j)
      BY <1>11 DEF Same
    <2>2. answered' = answered /\ \A j : Same(j) \subseteq Numbers
      BY <1>1 DEF Same
    <2>3. QED
      BY <1>12, <2>1, <2>2 DEF IInv, KeyedOnce, AnsweredIsSent
  <1>20. ASSUME NEW z \in Sides PROVE CursorFits(z)'
    <2>1. CursorFits(z) /\ send' = send
      BY <1>1 DEF IInv
    <2>2. cursor'[z] = 0 \/ \E m \in Numbers : Sent(m)' /\ cursor'[z] <= m
      <3>1. CASE cursor'[z] = cursor[z]
        BY <1>12, <2>1, <3>1 DEF CursorFits
      <3>2. CASE cursor'[z] = n
        BY <1>3, <1>12, <3>2 DEF Numbers
      <3>3. QED
        BY <1>8, <3>1, <3>2
    <2>3. ASSUME NEW m \in Numbers, Sent(m)', Side(send'[message'[m].send].user) = z
          PROVE  m <= cursor'[z]
      <3>1. CASE m = n
        BY <1>3, <1>8, <1>11, <2>1, <2>3, <3>1
      <3>2. CASE m # n
        <4>1. m <= cursor[z]
          BY <1>11, <1>12, <2>1, <2>3, <3>2 DEF CursorFits
        <4>2. QED
          BY <1>2, <1>8, <1>9, <4>1 DEF Numbers
      <3>3. QED
        BY <3>1, <3>2
    <2>4. QED
      BY <2>2, <2>3 DEF CursorFits
  <1>21. QED
    BY <1>9, <1>10, <1>14, <1>15, <1>16, <1>17, <1>18, <1>19, <1>20 DEF IInv

(***************************************************************************)
(* deliver: the one request whose number this is tells of it once.         *)
(***************************************************************************)
LEMMA DeliverOK == ASSUME IInv, NEW p \in Procs, Deliver(p) PROVE IInv'
  <1> USE ChatsAssumption
  <1> DEFINE n == calls[p].number
             k == calls[p].send
  <1>1. At(p, "deliver") /\ UNCHANGED <<send, message, next, cursor, file, sweep>>
        /\ Answer(k) /\ calls' = [calls EXCEPT ![p] = IdleCall]
        /\ told' \in {told, [told EXCEPT ![n] = IF @ < 2 THEN @ + 1 ELSE 2]}
    BY DEF Deliver, End
  <1>2. TypeOK /\ calls \in [Procs -> Call] /\ CallOK(p) /\ told \in [Numbers -> 0 .. 2]
    BY DEF IInv, TypeOK
  <1>3. calls[p].step \in Numbered /\ n \in Numbers /\ told[n] = 0
        /\ Sent(n) /\ message[n].send = k /\ k \in Sends
    BY <1>1, <1>2 DEF CallOK, At, Numbered
  <1>4. told' \in [Numbers -> 0 .. 2] /\ told'[n] <= 1
        /\ \A m \in Numbers \ {n} : told'[m] = told[m]
    BY <1>1, <1>2, <1>3
  <1>5. calls' \in [Procs -> Call] /\ calls'[p] = IdleCall
        /\ \A q \in Procs \ {p} : calls'[q] = calls[q]
    BY <1>1, <1>2, NoneType
  <1>6. n \in Same(k) /\ Sent(n)
    BY <1>3 DEF Same
  <1>7. AnsweredIsSent' /\ answered' \subseteq Sends
    BY <1>1, <1>2, <1>3, <1>6, AnswerOK DEF IInv, TypeOK
  <1>8. TypeOK'
    BY <1>1, <1>2, <1>4, <1>5, <1>7 DEF TypeOK
  <1>9. ASSUME NEW q \in Procs PROVE CallOK(q)'
    <2>1. CASE q = p
      BY <1>5, <2>1 DEF CallOK, IdleCall, At, Numbered
    <2>2. CASE q # p
      <3>1. UNCHANGED <<send, next>> /\ message' = message /\ file' = file
        BY <1>1
      <3>2. QED
        BY <1>3, <1>4, <1>5, <2>2, <3>1, OthersKept
    <2>3. QED
      BY <2>1, <2>2
  <1>10. NumbersApart'
    <2>1. \A q \in Procs : calls'[q].step \in Numbered => calls'[q] = calls[q]
      BY <1>5 DEF IdleCall, Numbered
    <2>2. QED
      BY <2>1 DEF IInv, NumbersApart
  <1>11. ASSUME NEW m \in Numbers PROVE MessageOK(m)'
    <2>1. MessageOK(m)
      BY DEF IInv
    <2>2. CASE m = n
      BY <1>1, <1>3, <1>4, <2>1, <2>2 DEF MessageOK, Open, Sent
    <2>3. CASE m # n
      BY <1>1, <1>4, <2>1, <2>3 DEF MessageOK, Open, Sent
    <2>4. QED
      BY <2>2, <2>3
  <1>12. (\A f \in Files : FileOK(f))' /\ SweepOK' /\ KeyedOnce' /\ (\A z \in Sides : CursorFits(z))'
    BY <1>1 DEF IInv, FileOK, SweepOK, KeyedOnce, CursorFits, Same, Open, Sent
  <1>13. QED
    BY <1>7, <1>8, <1>9, <1>10, <1>11, <1>12 DEF IInv

-----------------------------------------------------------------------------
LEMMA StutterOK == IInv /\ UNCHANGED vars => IInv'
  BY DEF IInv, TypeOK, CallOK, NumbersApart, MessageOK, FileOK, SweepOK, KeyedOnce,
     AnsweredIsSent, CursorFits, Same, At, Open, Sent, vars

(***************************************************************************)
(* Every step keeps the invariant, and no cursor goes back.                *)
(***************************************************************************)
LEMMA StepOK == IInv /\ [Next]_vars => IInv' /\ \A z \in Sides : cursor[z] <= cursor'[z]
  <1> SUFFICES ASSUME IInv, [Next]_vars
               PROVE  IInv' /\ \A z \in Sides : cursor[z] <= cursor'[z]
    OBVIOUS
  <1>1. \A z \in Sides : cursor[z] \in Nat
    BY ChatsAssumption DEF IInv, TypeOK
  <1>2. ASSUME cursor' = cursor PROVE \A z \in Sides : cursor[z] <= cursor'[z]
    BY <1>1, <1>2
  <1>3. ASSUME NEW p \in Procs, Handle(p) PROVE IInv' /\ \A z \in Sides : cursor[z] <= cursor'[z]
    <2>1. CASE Number(p)
      BY <1>2, <2>1, NumberOK DEF Number
    <2>2. CASE Place(p)
      BY <1>2, <2>2, PlaceOK DEF Place
    <2>3. CASE Link(p)
      BY <1>2, <2>3, LinkOK DEF Link
    <2>4. CASE Commit(p)
      BY <2>4, CommitOK
    <2>5. CASE Deliver(p)
      BY <1>2, <2>5, DeliverOK DEF Deliver
    <2>6. CASE SendFails(p)
      BY <1>2, <2>6, SendFailsOK DEF SendFails
    <2>7. QED
      BY <1>3, <2>1, <2>2, <2>3, <2>4, <2>5, <2>6 DEF Handle
  <1>4. ASSUME NEW p \in Procs, NEW k \in Sends, NEW s \in Send, SendBegin(p, k, s)
        PROVE  IInv' /\ \A z \in Sides : cursor[z] <= cursor'[z]
    BY <1>2, <1>4, SendBeginOK DEF SendBegin
  <1>5. ASSUME NEW u \in Users, NEW f \in Files, Upload(u, f)
        PROVE  IInv' /\ \A z \in Sides : cursor[z] <= cursor'[z]
    BY <1>2, <1>5, UploadOK DEF Upload
  <1>6. ASSUME NEW s \in Sides, NEW n \in Numbers, Read(s, n)
        PROVE  IInv' /\ \A z \in Sides : cursor[z] <= cursor'[z]
    BY <1>6, ReadOK
  <1>7. ASSUME NEW f \in Files, Age(f)
        PROVE  IInv' /\ \A z \in Sides : cursor[z] <= cursor'[z]
    BY <1>2, <1>7, AgeOK DEF Age
  <1>8. CASE TickBegin \/ SweepRead \/ SweepDelete \/ SweepFails \/ \E f \in Files : SweepRemove(f)
    <2>1. cursor' = cursor
      BY <1>8 DEF TickBegin, SweepRead, SweepDelete, SweepFails, SweepRemove
    <2>2. QED
      BY <1>2, <1>8, <2>1, SweepStepOK
  <1>9. CASE Crash
    BY <1>2, <1>9, CrashOK DEF Crash
  <1>10. CASE UNCHANGED vars
    BY <1>2, <1>10, StutterOK DEF vars
  <1>11. QED
    BY <1>3, <1>4, <1>5, <1>6, <1>7, <1>8, <1>9, <1>10 DEF Next

(***************************************************************************)
(* The invariant that the rest follow from.                                *)
(***************************************************************************)
THEOREM Inductive == Spec => []IInv
  <1>1. IInv /\ [Next]_vars => IInv'
    BY StepOK
  <1>2. QED
    BY InitOK, <1>1, PTL DEF Spec

(***************************************************************************)
(* Rows and requests keep their types (the schema of the tables).          *)
(***************************************************************************)
THEOREM TypeCorrect == Spec => []TypeOK
  <1>1. IInv => TypeOK
    BY DEF IInv
  <1>2. QED
    BY Inductive, <1>1, PTL

(***************************************************************************)
(* send: one message of every client_msg_id, and no answer or notice       *)
(* without its message, for any number of requests and retries.            *)
(***************************************************************************)
THEOREM MessageCorrect == Spec => []MessageOnce
  <1>1. IInv => MessageOnce
    BY DEF IInv, KeyedOnce, AnsweredIsSent, MessageOnce, MessageOK
  <1>2. QED
    BY Inductive, <1>1, PTL

(***************************************************************************)
(* link and sweepOrphans: a sent message keeps its files.                  *)
(***************************************************************************)
THEOREM FilesCorrect == Spec => []SentFileIsWhole
  <1>1. IInv => SentFileIsWhole
    <2> SUFFICES ASSUME IInv, NEW m \in Numbers, Sent(m),
                        NEW f \in send[message[m].send].files
                 PROVE  /\ file[f].state = "row" /\ file[f].message = m
                        /\ file[f].whole \/ file[f].aged
      BY DEF SentFileIsWhole
    <2>1. MessageOK(m) /\ m # 0
      BY DEF IInv, Numbers
    <2>2. f \in Files
      BY <2>1 DEF IInv, TypeOK, Send, MessageOK
    <2>3. FileOK(f)
      BY <2>2 DEF IInv
    <2>4. QED
      BY <2>1, <2>3 DEF MessageOK, FileOK
  <1>2. QED
    BY Inductive, <1>1, PTL

(***************************************************************************)
(* send and read: the cursors of both sides, through commits out of order. *)
(***************************************************************************)
THEOREM CursorsCorrect == Spec => CursorsStand
  <1>1. IInv /\ IInv' /\ [Next]_vars
          => [\A s \in Sides : cursor[s] <= cursor'[s] /\ CursorFits(s)']_vars
    BY StepOK DEF IInv
  <1>2. QED
    BY Inductive, <1>1, PTL DEF Spec, CursorsStand

-----------------------------------------------------------------------------
(* The chat as others see it                                               *)

\* A file of a message that others see
Taken(f) == file[f].message # 0 /\ Sent(file[f].message)

\* Files are their author's, and age from their upload on
OwnOK(f) ==
  /\ file[f].state = "none" => ~file[f].aged
  /\ file[f].message # 0 => file[f].user = send[message[file[f].message].send].user

Own == \A f \in Files : OwnOK(f)

\* Steps that take no file for a message
LEMMA OwnStays ==
  ASSUME IInv, IInv', Own,
         \A f \in Files :
           /\ file'[f].state = "none" => file[f].state = "none" /\ file'[f].aged = file[f].aged
           /\ file'[f].message \in {0, file[f].message}
           /\ file'[f].message # 0 => file'[f].user = file[f].user,
         \A m \in Numbers : Open(m) \/ Sent(m) => message'[m].send \in {message[m].send, Null},
         \A k \in Sends : send[k].user \in Users => send'[k] = send[k]
  PROVE  Own'
  <1> USE ChatsAssumption
  <1> SUFFICES ASSUME NEW f \in Files PROVE OwnOK(f)'
    BY DEF Own
  <1>1. file'[f].state = "none" => ~file'[f].aged
    BY DEF Own, OwnOK
  <1>2. ASSUME file'[f].message # 0
        PROVE  file'[f].user = send'[message'[file'[f].message].send].user
    <2>1. file'[f].message = file[f].message /\ file'[f].user = file[f].user
      BY <1>2
    <2>2. PICK m \in Numbers : m = file[f].message
      BY <1>2, <2>1 DEF IInv, TypeOK, File, Numbers
    <2>3. (Open(m) \/ Sent(m)) /\ MessageOK(m) /\ FileOK(f)
      BY <1>2, <2>1, <2>2 DEF IInv, FileOK
    <2>4. FileOK(f)' /\ MessageOK(m)'
      BY DEF IInv
    <2>5. message'[m].send \in Sends
      BY <1>2, <2>1, <2>2, <2>4 DEF FileOK, MessageOK, Open, Sent
    <2>6. message'[m].send = message[m].send
      BY <2>3, <2>5
    <2>7. send'[message[m].send] = send[message[m].send]
      BY <2>3 DEF MessageOK
    <2>8. QED
      BY <1>2, <2>1, <2>2, <2>6, <2>7 DEF Own, OwnOK
  <1>3. QED
    BY <1>1, <1>2 DEF OwnOK

\* link: a message takes files of its author only
LEMMA LinkOwn ==
  ASSUME IInv, IInv', Own, NEW p \in Procs, Link(p)
  PROVE  Own'
  <1> USE ChatsAssumption
  <1> DEFINE n == calls[p].number
             s == send[calls[p].send]
  <1>0. /\ file \in [Files -> File] /\ message \in [Numbers -> Message]
        /\ \A f \in Files : FileOK(f) /\ OwnOK(f)
        /\ At(p, "link") /\ n \in Numbers /\ Open(n) /\ message[n].send = calls[p].send
    BY DEF IInv, TypeOK, Link, CallOK, At, Numbered, Own
  <1>1. CASE \A f \in s.files : file[f].state = "row" /\ file[f].user = s.user /\ file[f].message = 0
    <2>1. /\ file' = [f \in Files |-> IF f \in s.files THEN [file[f] EXCEPT !.message = n] ELSE file[f]]
          /\ UNCHANGED <<send, message>>
      BY <1>1 DEF Link
    <2>2. ASSUME NEW f \in Files PROVE OwnOK(f)'
      <3>1. CASE f \in s.files
        <4>1. file'[f].message = n /\ file'[f].state = "row" /\ file'[f].user = s.user
          BY <1>0, <1>1, <2>1, <3>1 DEF File
        <4>2. QED
          BY <1>0, <2>1, <4>1 DEF OwnOK
      <3>2. CASE f \notin s.files
        BY <1>0, <2>1, <3>2 DEF OwnOK
      <3>3. QED
        BY <3>1, <3>2
    <2>3. QED
      BY <2>2 DEF Own
  <1>2. CASE ~\A f \in s.files : file[f].state = "row" /\ file[f].user = s.user /\ file[f].message = 0
    <2>1. RolledBack({n}) /\ UNCHANGED send
      BY <1>2 DEF Link
    <2>2. \A f \in Files :
            /\ file'[f].state = "none" => file[f].state = "none" /\ file'[f].aged = file[f].aged
            /\ file'[f].message \in {0, file[f].message}
            /\ file'[f].message # 0 => file'[f].user = file[f].user
      BY <1>0, <2>1 DEF RolledBack, File
    <2>3. \A m \in Numbers : message'[m].send \in {message[m].send, Null}
      BY <1>0, <2>1 DEF RolledBack, NoMessage
    <2>4. QED
      BY <2>1, <2>2, <2>3, OwnStays
  <1>3. QED
    BY <1>1, <1>2

LEMMA OwnStep == Own /\ IInv /\ IInv' /\ [Next]_vars => Own'
  <1> SUFFICES ASSUME Own, IInv, IInv', [Next]_vars PROVE Own'
    OBVIOUS
  <1> USE ChatsAssumption
  <1>0. /\ file \in [Files -> File] /\ message \in [Numbers -> Message] /\ send \in [Sends -> Send]
        /\ \A f \in Files : FileOK(f)
        /\ \A p \in Procs : CallOK(p)
    BY DEF IInv, TypeOK
  <1> DEFINE FilesKeep == \A f \in Files :
               /\ file'[f].state = "none" => file[f].state = "none" /\ file'[f].aged = file[f].aged
               /\ file'[f].message \in {0, file[f].message}
               /\ file'[f].message # 0 => file'[f].user = file[f].user
             MessagesKeep == \A m \in Numbers :
               Open(m) \/ Sent(m) => message'[m].send \in {message[m].send, Null}
             SendsKeep == \A k \in Sends : send[k].user \in Users => send'[k] = send[k]
  <1>1. FilesKeep /\ MessagesKeep /\ SendsKeep => Own'
    BY OwnStays
  <1>2. /\ file' = file => FilesKeep
        /\ message' = message => MessagesKeep
        /\ send' = send => SendsKeep
    BY <1>0 DEF File
  <1>3. ASSUME NEW numbers, RolledBack(numbers), send' = send PROVE Own'
    <2>1. FilesKeep
      BY <1>0, <1>3 DEF RolledBack, File
    <2>2. MessagesKeep
      BY <1>0, <1>3 DEF RolledBack, NoMessage
    <2>3. QED
      BY <1>1, <1>2, <1>3, <2>1, <2>2
  <1>4. CASE UNCHANGED <<send, message>> /\ FilesKeep
    BY <1>1, <1>2, <1>4
  <1>5. ASSUME NEW p \in Procs, Handle(p) PROVE Own'
    <2>1. CASE Number(p) \/ Deliver(p)
      BY <1>1, <1>2, <2>1 DEF Number, Deliver
    <2>2. CASE Place(p)
      <3>1. UNCHANGED <<send, file>>
        BY <2>2 DEF Place
      <3>2. MessagesKeep
        <4>1. message[calls[p].number] = NoMessage /\ calls[p].number \in Numbers
          BY <1>0, <2>2 DEF Place, CallOK, At, Numbered
        <4>2. \A m \in Numbers : m # calls[p].number => message'[m] = message[m]
          BY <1>0, <2>2, <4>1 DEF Place
        <4>3. QED
          BY <4>1, <4>2 DEF Open, Sent, NoMessage
      <3>3. QED
        BY <1>1, <1>2, <3>1, <3>2
    <2>3. CASE Link(p)
      BY <2>3, LinkOwn
    <2>4. CASE Commit(p)
      <3>1. UNCHANGED <<send, file>>
        BY <2>4 DEF Commit
      <3>2. MessagesKeep
        BY <1>0, <2>4 DEF Commit, Message
      <3>3. QED
        BY <1>1, <1>2, <3>1, <3>2
    <2>5. CASE SendFails(p)
      BY <1>3, <2>5 DEF SendFails
    <2>6. QED
      BY <1>5, <2>1, <2>2, <2>3, <2>4, <2>5 DEF Handle
  <1>6. ASSUME NEW p \in Procs, NEW k \in Sends, NEW s \in Send, SendBegin(p, k, s) PROVE Own'
    <2>1. /\ send[k] \in {NoSend, s} /\ send' = [send EXCEPT ![k] = s]
          /\ UNCHANGED <<message, file>>
      BY <1>6 DEF SendBegin
    <2>2. SendsKeep
      BY <1>0, <2>1 DEF NoSend
    <2>3. QED
      BY <1>1, <1>2, <2>1, <2>2
  <1>7. ASSUME NEW u \in Users, NEW f \in Files, Upload(u, f) PROVE Own'
    <2>1. /\ file' = [file EXCEPT ![f] = [state |-> "row", user |-> u, message |-> 0,
                                            aged |-> FALSE, whole |-> TRUE]]
          /\ UNCHANGED <<send, message>>
      BY <1>7 DEF Upload
    <2>2. FilesKeep
      BY <1>0, <2>1 DEF File
    <2>3. QED
      BY <1>4, <2>1, <2>2
  <1>8. ASSUME NEW s \in Sides, NEW n \in Numbers, Read(s, n) PROVE Own'
    BY <1>1, <1>2, <1>8 DEF Read
  <1>9. ASSUME NEW f \in Files, Age(f) PROVE Own'
    <2>1. file' = [file EXCEPT ![f].aged = TRUE] /\ file[f].state = "row" /\ UNCHANGED <<send, message>>
      BY <1>9 DEF Age, Orphan
    <2>2. FilesKeep
      BY <1>0, <2>1 DEF File
    <2>3. QED
      BY <1>4, <2>1, <2>2
  <1>10. ASSUME NEW f \in Files, SweepRemove(f) PROVE Own'
    <2>1. PICK whole \in BOOLEAN : file' = [file EXCEPT ![f].whole = whole]
      BY <1>0, <1>10 DEF SweepRemove, File
    <2>2. UNCHANGED <<send, message>>
      BY <1>10 DEF SweepRemove
    <2>3. FilesKeep
      BY <1>0, <2>1 DEF File
    <2>4. QED
      BY <1>4, <2>2, <2>3
  <1>11. CASE TickBegin \/ SweepRead \/ SweepFails
    BY <1>1, <1>2, <1>11 DEF TickBegin, SweepRead, SweepFails
  <1>12. CASE SweepDelete
    <2>1. UNCHANGED <<send, message>>
      BY <1>12 DEF SweepDelete
    <2>2. ASSUME NEW f \in Files
          PROVE  file'[f] \in {file[f], [file[f] EXCEPT !.state = "gone", !.whole = FALSE]}
      BY <1>12 DEF SweepDelete
    <2>3. FilesKeep
      <3> SUFFICES ASSUME NEW f \in Files
                   PROVE  /\ file'[f].state = "none" => file[f].state = "none"
                                                          /\ file'[f].aged = file[f].aged
                          /\ file'[f].message \in {0, file[f].message}
                          /\ file'[f].message # 0 => file'[f].user = file[f].user
        OBVIOUS
      <3>1. CASE file'[f] = file[f]
        BY <3>1
      <3>2. CASE file'[f] = [file[f] EXCEPT !.state = "gone", !.whole = FALSE]
        <4>1. file[f] \in File
          BY <1>0
        <4>2. QED
          BY <3>2, <4>1 DEF File
      <3>3. QED
        BY <2>2, <3>1, <3>2
    <2>4. QED
      BY <1>4, <2>1, <2>3
  <1>13. CASE Crash
    BY <1>3, <1>13 DEF Crash
  <1>14. CASE UNCHANGED vars
    BY <1>1, <1>2, <1>14 DEF vars
  <1>15. QED
    BY <1>5, <1>6, <1>7, <1>8, <1>9, <1>10, <1>11, <1>12, <1>13, <1>14 DEF Next

-----------------------------------------------------------------------------
\* Nothing that others see changes in messages and files
ViewStays ==
  /\ \A m \in Numbers : (Sent(m)' <=> Sent(m)) /\ (Sent(m) => message'[m] = message[m])
  /\ \A f \in Files :
       /\ file'[f].state = file[f].state /\ file'[f].user = file[f].user
       /\ Taken(f)' <=> Taken(f)
       /\ Taken(f) => file'[f].message = file[f].message

\* Where a file is, said by the messages that others see
LEMMA PlaceIs ==
  ASSUME NEW f \in Files, FileOK(f), file[f].state \in {"none", "row", "gone"}
  PROVE  /\ file[f].state = "none" => PlaceOf(f) = "new"
         /\ file[f].state = "gone" => PlaceOf(f) = "gone"
         /\ file[f].state = "row" => PlaceOf(f) = IF Taken(f) THEN "sent" ELSE "loose"
  BY DEF PlaceOf, Orphan, Locked, Taken, FileOK, Open, Sent

LEMMA NextPlaceIs ==
  ASSUME NEW f \in Files, FileOK(f)', file'[f].state \in {"none", "row", "gone"}
  PROVE  /\ file'[f].state = "none" => PlaceOf(f)' = "new"
         /\ file'[f].state = "gone" => PlaceOf(f)' = "gone"
         /\ file'[f].state = "row" => PlaceOf(f)' = IF Taken(f)' THEN "sent" ELSE "loose"
  BY DEF PlaceOf, Orphan, Locked, Taken, FileOK, Open, Sent

LEMMA ShelfSame ==
  ASSUME IInv, IInv',
         \A f \in Files : /\ file'[f].state = file[f].state /\ file'[f].user = file[f].user
                          /\ Taken(f)' <=> Taken(f)
  PROVE  shelf' = shelf
  <1>1. ASSUME NEW f \in Files PROVE PlaceOf(f)' = PlaceOf(f)
    <2>1. FileOK(f) /\ FileOK(f)' /\ file[f].state \in {"none", "row", "gone"}
      BY DEF IInv, TypeOK, File
    <2>2. QED
      BY <2>1, PlaceIs, NextPlaceIs
  <1>2. QED
    BY <1>1 DEF shelf

LEMMA ViewSame ==
  ASSUME IInv, IInv', ViewStays
  PROVE  posts' = posts /\ shelf' = shelf
  <1>1. ASSUME NEW m \in Numbers, Sent(m)
        PROVE  {f \in Files : file'[f].message = m} = {f \in Files : file[f].message = m}
    <2>1. m # 0 /\ Sent(m)'
      BY <1>1 DEF Numbers, ViewStays
    <2>2. ASSUME NEW f \in Files PROVE file'[f].message = m <=> file[f].message = m
      BY <1>1, <2>1 DEF ViewStays, Taken
    <2>3. QED
      BY <2>2
  <1>2. posts' = posts
    BY <1>1 DEF ViewStays, posts
  <1>3. QED
    BY <1>2, ShelfSame DEF ViewStays

Hidden == ViewStays /\ UNCHANGED <<send, cursor, told, answered>>

\* What is rolled back was seen by nobody
LEMMA RollHidden ==
  ASSUME IInv, NEW numbers, RolledBack(numbers)
  PROVE  ViewStays
  <1>1. file \in [Files -> File] /\ message \in [Numbers -> Message]
    BY DEF IInv, TypeOK
  <1>2. ASSUME NEW m \in Numbers
        PROVE  /\ Sent(m) => message'[m] = message[m]
               /\ Sent(m)' <=> Sent(m)
    BY <1>1 DEF RolledBack, Open, Sent, NoMessage
  <1>3. ASSUME NEW f \in Files
        PROVE  /\ file'[f].state = file[f].state /\ file'[f].user = file[f].user
               /\ Taken(f)' <=> Taken(f)
               /\ Taken(f) => file'[f].message = file[f].message
    <2>1. CASE file[f].message \in numbers /\ Locked(f)
      <3>1. file'[f] = [file[f] EXCEPT !.message = 0]
        BY <2>1 DEF RolledBack
      <3>2. file'[f].message = 0 /\ file'[f].state = file[f].state /\ file'[f].user = file[f].user
        BY <1>1, <3>1 DEF File
      <3>3. QED
        BY <2>1, <3>2 DEF Taken, Locked, Open, Sent
    <2>2. CASE ~(file[f].message \in numbers /\ Locked(f))
      <3>1. file'[f] = file[f]
        BY <2>2 DEF RolledBack
      <3>2. file[f].message # 0 => file[f].message \in Numbers
        BY <1>1 DEF File, Numbers
      <3>3. QED
        BY <1>2, <3>1, <3>2 DEF Taken
    <2>3. QED
      BY <2>1, <2>2
  <1>4. QED
    BY <1>2, <1>3 DEF ViewStays

\* Files that change in what nobody sees
LEMMA SameFiles ==
  ASSUME IInv, UNCHANGED message,
         \A f \in Files : /\ file'[f].state = file[f].state /\ file'[f].user = file[f].user
                          /\ file'[f].message = file[f].message
  PROVE  ViewStays
  BY DEF ViewStays, Taken, Sent

LEMMA TransactionHidden ==
  ASSUME IInv, NEW p \in Procs,
         \/ Number(p) \/ SendFails(p)
         \/ Place(p) /\ UNCHANGED answered /\ calls'[p].step = "link"
         \/ Link(p)
  PROVE  Hidden
  <1> USE ChatsAssumption
  <1> DEFINE n == calls[p].number
             s == send[calls[p].send]
  <1>0. /\ file \in [Files -> File] /\ message \in [Numbers -> Message] /\ calls \in [Procs -> Call]
        /\ CallOK(p) /\ \A f \in Files : FileOK(f)
    BY DEF IInv, TypeOK
  <1>1. CASE Number(p)
    BY <1>1, SameFiles DEF Hidden, Number
  <1>2. CASE SendFails(p)
    BY <1>2, RollHidden DEF Hidden, SendFails
  <1>3. CASE Place(p) /\ UNCHANGED answered /\ calls'[p].step = "link"
    <2>1. message[n] = NoMessage /\ n \in Numbers
      BY <1>0, <1>3 DEF Place, CallOK, At, Numbered
    <2>2. UNCHANGED <<send, cursor, told, answered, file>>
      BY <1>3 DEF Place
    <2>3. message' = message \/ message' = [message EXCEPT ![n] = [state |-> "open", send |-> calls[p].send]]
      BY <1>3 DEF Place
    <2>4. \A m \in Numbers : (Sent(m)' <=> Sent(m)) /\ (Sent(m) => message'[m] = message[m])
      BY <1>0, <2>1, <2>3 DEF Sent, NoMessage
    <2>5. ASSUME NEW f \in Files PROVE Taken(f)' <=> Taken(f)
      <3>1. file[f].message # 0 => file[f].message \in Numbers
        BY <1>0 DEF File, Numbers
      <3>2. QED
        BY <2>2, <2>4, <3>1 DEF Taken
    <2>6. QED
      BY <2>2, <2>4, <2>5 DEF Hidden, ViewStays
  <1>4. CASE Link(p) /\ RolledBack({n})
    BY <1>4, RollHidden DEF Hidden, Link
  <1>5. CASE Link(p) /\ ~RolledBack({n})
    <2>1. /\ \A f \in s.files : file[f].message = 0
          /\ file' = [f \in Files |-> IF f \in s.files THEN [file[f] EXCEPT !.message = n] ELSE file[f]]
          /\ UNCHANGED <<send, message, cursor, told, answered>>
      BY <1>5 DEF Link
    <2>2. Open(n)
      BY <1>0, <1>5 DEF Link, CallOK, At
    <2>3. ASSUME NEW f \in Files
          PROVE  /\ file'[f].state = file[f].state /\ file'[f].user = file[f].user
                 /\ Taken(f)' <=> Taken(f)
                 /\ Taken(f) => file'[f].message = file[f].message
      <3>1. CASE f \in s.files
        <4>1. /\ file'[f].message = n /\ file'[f].state = file[f].state /\ file'[f].user = file[f].user
              /\ file[f].message = 0
          BY <1>0, <2>1, <3>1 DEF File
        <4>2. QED
          BY <2>1, <2>2, <4>1 DEF Taken, Open, Sent
      <3>2. CASE f \notin s.files
        BY <1>0, <2>1, <3>2 DEF Taken, Sent
      <3>3. QED
        BY <3>1, <3>2
    <2>4. QED
      BY <2>1, <2>3 DEF Hidden, ViewStays, Sent
  <1>6. QED
    BY <1>1, <1>2, <1>3, <1>4, <1>5

LEMMA SweepHidden ==
  ASSUME IInv, TickBegin \/ SweepRead \/ SweepFails \/ Crash
               \/ \E f \in Files : Age(f) \/ SweepRemove(f)
  PROVE  Hidden
  <1>0. file \in [Files -> File]
    BY DEF IInv, TypeOK
  <1>1. CASE TickBegin \/ SweepRead \/ SweepFails
    BY <1>1, SameFiles DEF Hidden, TickBegin, SweepRead, SweepFails
  <1>2. CASE Crash
    BY <1>2, RollHidden DEF Hidden, Crash
  <1>3. ASSUME NEW f \in Files, Age(f) PROVE Hidden
    <2>1. file' = [file EXCEPT ![f].aged = TRUE]
      BY <1>3 DEF Age
    <2>2. \A g \in Files : /\ file'[g].state = file[g].state /\ file'[g].user = file[g].user
                           /\ file'[g].message = file[g].message
      BY <1>0, <2>1 DEF File
    <2>3. QED
      BY <1>3, <2>2, SameFiles DEF Hidden, Age
  <1>4. ASSUME NEW f \in Files, SweepRemove(f) PROVE Hidden
    <2>1. PICK whole \in {file[f].whole, FALSE} : file' = [file EXCEPT ![f].whole = whole]
      BY <1>4 DEF SweepRemove
    <2>2. \A g \in Files : /\ file'[g].state = file[g].state /\ file'[g].user = file[g].user
                           /\ file'[g].message = file[g].message
      BY <1>0, <2>1 DEF File
    <2>3. QED
      BY <1>4, <2>2, SameFiles DEF Hidden, SweepRemove
  <1>5. QED
    BY <1>1, <1>2, <1>3, <1>4

-----------------------------------------------------------------------------
\* A message that others see is there for an answer or a notice
LEMMA ReportStep ==
  ASSUME IInv, NEW m \in Numbers, Sent(m), UNCHANGED <<send, message, cursor, file>>,
         Answer(message[m].send),
         told' = told \/ (told[m] = 0 /\ told' = [told EXCEPT ![m] = 1])
  PROVE  L!Next
  <1>1. posts[m].send = message[m].send /\ message[m].send # Null
    BY ChatsAssumption DEF IInv, MessageOK, posts, Sent
  <1>2. UNCHANGED <<send, posts, shelf, cursor>>
    BY DEF posts, shelf, PlaceOf, Orphan, Locked, Open, Sent
  <1>3. L!Report(m)
    BY <1>1, <1>2 DEF L!Report, L!Posted, Answer
  <1>4. QED
    BY <1>3 DEF L!Next, L!Numbers, Numbers

\* send, first asked for or asked again
LEMMA SendBeginSeen ==
  ASSUME IInv, NEW p \in Procs, NEW k \in Sends, NEW s \in Send, SendBegin(p, k, s)
  PROVE  L!Next \/ UNCHANGED <<send, posts, shelf, cursor, told, answered>>
  <1> USE ChatsAssumption
  <1>0. send \in [Sends -> Send] /\ UNCHANGED <<message, cursor, file, told>>
    BY DEF IInv, TypeOK, SendBegin
  <1>1. UNCHANGED <<posts, shelf>>
    BY <1>0 DEF posts, shelf, PlaceOf, Orphan, Locked, Open, Sent
  <1>2. CASE k \in Keyed /\ \E m \in Same(k) : Sent(m)
    <2>1. PICK m \in Same(k) : Sent(m)
      BY <1>2
    <2>2. m \in Numbers /\ message[m].send = k
      BY DEF Same
    <2>3. send[k].user \in Users
      BY <2>1, <2>2 DEF IInv, MessageOK
    <2>4. send' = send
      BY <1>0, <2>3 DEF SendBegin, NoSend
    <2>5. Answer(k)
      BY <1>2 DEF SendBegin
    <2>6. QED
      BY <1>0, <2>1, <2>2, <2>4, <2>5, ReportStep
  <1>3. CASE ~(k \in Keyed /\ \E m \in Same(k) : Sent(m))
    <2>1. answered' = answered
      BY <1>3 DEF SendBegin
    <2>2. CASE send[k] = s
      BY <1>0, <1>1, <2>1, <2>2 DEF SendBegin
    <2>3. CASE send[k] = NoSend
      <3>1. s.user \in Users /\ s.files \in SUBSET Files
            /\ s = [user |-> s.user, files |-> s.files]
        BY DEF SendBegin, Send
      <3>2. send' = [send EXCEPT ![k] = [user |-> s.user, files |-> s.files]]
        BY <3>1 DEF SendBegin
      <3>3. L!Ask(k, s.user, s.files)
        BY <1>0, <1>1, <2>1, <2>3, <3>2 DEF L!Ask, L!NotAsked, NoSend
      <3>4. QED
        BY <3>1, <3>3 DEF L!Next, L!Users, Users
    <2>4. QED
      BY <2>2, <2>3 DEF SendBegin
  <1>4. QED
    BY <1>2, <1>3

\* INSERT finds the message of another request with the client_msg_id
LEMMA PlaceSeen ==
  ASSUME IInv, NEW p \in Procs, Place(p)
  PROVE  L!Next \/ Hidden
  <1> DEFINE k == calls[p].send
             same == IF k \in Keyed THEN Same(k) ELSE {}
  <1>0. calls \in [Procs -> Call] /\ CallOK(p)
    BY DEF IInv, TypeOK
  <1>1. CASE same # {}
    <2>1. PICK m \in same : TRUE
      BY <1>1
    <2>2. m \in Numbers /\ message[m].send = k /\ ~Open(m) /\ k \in Sends
      BY <1>0, <2>1 DEF Same, Place, CallOK, At
    <2>3. Sent(m)
      BY <2>2, ChatsAssumption DEF IInv, MessageOK, NoMessage
    <2>4. Answer(k) /\ UNCHANGED <<send, message, cursor, file, told>>
      BY <1>1 DEF Place
    <2>5. QED
      BY <2>2, <2>3, <2>4, ReportStep
  <1>2. CASE same = {}
    <2>1. UNCHANGED answered /\ calls' = [calls EXCEPT ![p].step = "link"]
      BY <1>2 DEF Place, Step
    <2>2. calls'[p].step = "link"
      BY <1>0, <2>1 DEF Call
    <2>3. QED
      BY <2>1, <2>2, TransactionHidden
  <1>3. QED
    BY <1>1, <1>2

\* deliver
LEMMA DeliverSeen ==
  ASSUME IInv, NEW p \in Procs, Deliver(p)
  PROVE  L!Next
  <1> DEFINE n == calls[p].number
  <1>1. n \in Numbers /\ Sent(n) /\ message[n].send = calls[p].send /\ told[n] = 0
    BY DEF IInv, Deliver, CallOK, At, Numbered
  <1>2. told \in [Numbers -> 0 .. 2]
    BY DEF IInv, TypeOK
  <1>3. told' = told \/ told' = [told EXCEPT ![n] = 1]
    BY <1>1, <1>2 DEF Deliver
  <1>4. UNCHANGED <<send, message, cursor, file>> /\ Answer(calls[p].send)
    BY DEF Deliver
  <1>5. QED
    BY <1>1, <1>3, <1>4, ReportStep

LEMMA UploadSeen ==
  ASSUME IInv, IInv', NEW u \in Users, NEW f \in Files, Upload(u, f)
  PROVE  L!Next
  <1> USE ChatsAssumption
  <1> DEFINE new == [state |-> "row", user |-> u, message |-> 0, aged |-> FALSE, whole |-> TRUE]
  <1>0. /\ file \in [Files -> File] /\ \A g \in Files : FileOK(g) /\ FileOK(g)'
        /\ file' = [file EXCEPT ![f] = new] /\ file[f] = NoFile
        /\ UNCHANGED <<send, message, cursor, told, answered>>
    BY DEF IInv, TypeOK, Upload
  <1>1. /\ file'[f] = new /\ \A g \in Files \ {f} : file'[g] = file[g]
    BY <1>0
  <1>2. posts' = posts
    <2>1. ASSUME NEW m \in Numbers
          PROVE {g \in Files : file'[g].message = m} = {g \in Files : file[g].message = m}
      BY <1>0, <1>1 DEF NoFile
    <2>2. QED
      BY <1>0, <2>1 DEF posts, Sent
  <1>3. PlaceOf(f) = "new" /\ PlaceOf(f)' = "loose"
    BY <1>0, <1>1 DEF PlaceOf, Orphan, NoFile
  <1>4. ASSUME NEW g \in Files \ {f} PROVE PlaceOf(g)' = PlaceOf(g)
    BY <1>0, <1>1 DEF PlaceOf, Orphan, Locked, Open
  <1>5. shelf' = [shelf EXCEPT ![f] = [place |-> "loose", owner |-> u]]
    <2>1. shelf'[f] = [place |-> "loose", owner |-> u]
      BY <1>1, <1>3 DEF shelf
    <2>2. ASSUME NEW g \in Files \ {f} PROVE shelf'[g] = shelf[g]
      BY <1>1, <1>4 DEF shelf
    <2>3. shelf = [g \in Files |-> shelf[g]] /\ shelf' = [g \in Files |-> shelf'[g]]
      BY DEF shelf
    <2>4. QED
      BY <2>1, <2>2, <2>3
  <1>6. shelf[f].place = "new"
    BY <1>3 DEF shelf
  <1>7. L!Upload(u, f)
    BY <1>0, <1>2, <1>5, <1>6 DEF L!Upload
  <1>8. QED
    BY <1>7 DEF L!Next, L!Users, Users

LEMMA ReadSeen ==
  ASSUME IInv, NEW s \in Sides, NEW n \in Numbers, Read(s, n)
  PROVE  L!Next \/ UNCHANGED <<send, posts, shelf, cursor, told, answered>>
  <1> USE ChatsAssumption
  <1>0. cursor \in [Sides -> 0 .. MaxNumber] /\ UNCHANGED <<send, message, file, told, answered>>
    BY DEF IInv, TypeOK, Read
  <1>1. UNCHANGED <<posts, shelf>>
    BY <1>0 DEF posts, shelf, PlaceOf, Orphan, Locked, Open, Sent
  <1>2. PICK newest \in 0 .. MaxNumber :
          IsNewest(newest) /\ cursor' = [cursor EXCEPT ![s] = Greatest(@, Least(n, newest))]
    BY DEF Read
  <1> DEFINE c == Least(n, newest)
  <1>3. c \in 0 .. MaxNumber /\ c <= newest
    BY DEF Least, Numbers
  <1>4. CASE cursor[s] < c
    <2>1. cursor' = [cursor EXCEPT ![s] = c] /\ c \in Numbers
      BY <1>0, <1>2, <1>3, <1>4 DEF Greatest, Numbers
    <2>2. newest \in Numbers /\ Sent(newest)
      BY <1>0, <1>2, <1>3, <1>4 DEF IsNewest, Numbers
    <2>3. posts[newest].send # Null
      BY <2>2 DEF IInv, MessageOK, posts
    <2>4. L!Read(s, c)
      BY <1>0, <1>1, <1>3, <1>4, <2>1, <2>2, <2>3 DEF L!Read, L!Posted, L!Numbers, Numbers
    <2>5. QED
      BY <2>1, <2>4 DEF L!Next, L!Sides, L!Numbers, Sides, Numbers
  <1>5. CASE ~(cursor[s] < c)
    <2>1. Greatest(cursor[s], c) = cursor[s]
      BY <1>5 DEF Greatest
    <2>2. cursor' = cursor
      BY <1>0, <1>2, <2>1
    <2>3. QED
      BY <1>0, <1>1, <2>2
  <1>6. QED
    BY <1>4, <1>5

\* The sweep removes what is in no message
LEMMA SweepSeen ==
  ASSUME IInv, IInv', Own, SweepDelete
  PROVE  L!Next
  <1> USE ChatsAssumption
  <1> DEFINE F == {f \in sweep.rows : file[f].message = 0 /\ file[f].state = "row"}
  <1>0. /\ file \in [Files -> File] /\ \A f \in Files : FileOK(f) /\ FileOK(f)' /\ OwnOK(f)
        /\ sweep.rows \subseteq Files /\ \A f \in sweep.rows : file[f].aged
        /\ UNCHANGED <<send, message, cursor, told, answered>>
    BY DEF IInv, TypeOK, SweepDelete, Sweep, SweepOK, Own
  <1>1. ASSUME NEW f \in Files
        PROVE  /\ file'[f].message = file[f].message /\ file'[f].user = file[f].user
               /\ file'[f].state = IF f \in F THEN "gone" ELSE file[f].state
    <2>1. file'[f] = IF f \in sweep.rows /\ file[f].message = 0
                       THEN [file[f] EXCEPT !.state = "gone", !.whole = FALSE] ELSE file[f]
      BY DEF SweepDelete
    <2>2. file[f] \in File /\ (f \in sweep.rows => file[f].state # "none")
      BY <1>0 DEF OwnOK
    <2>3. CASE f \in sweep.rows /\ file[f].message = 0
      <3>1. file'[f] = [file[f] EXCEPT !.state = "gone", !.whole = FALSE]
        BY <2>1, <2>3
      <3>2. /\ file'[f].message = file[f].message /\ file'[f].user = file[f].user
            /\ file'[f].state = "gone"
        BY <2>2, <3>1 DEF File
      <3>3. f \in F \/ file[f].state = "gone"
        BY <2>2, <2>3 DEF File
      <3>4. QED
        BY <3>2, <3>3
    <2>4. CASE ~(f \in sweep.rows /\ file[f].message = 0)
      BY <2>1, <2>4
    <2>5. QED
      BY <2>3, <2>4
  <1>2. posts' = posts
    <2>1. ASSUME NEW m \in Numbers
          PROVE {g \in Files : file'[g].message = m} = {g \in Files : file[g].message = m}
      BY <1>1
    <2>2. QED
      BY <1>0, <2>1 DEF posts, Sent
  <1>3. ASSUME NEW f \in Files
        PROVE  /\ f \in F => PlaceOf(f) = "loose" /\ PlaceOf(f)' = "gone"
               /\ f \notin F => PlaceOf(f)' = PlaceOf(f)
    <2>1. Taken(f)' <=> Taken(f)
      BY <1>0, <1>1 DEF Taken, Sent
    <2>2. file[f].state \in {"none", "row", "gone"} /\ file'[f].state \in {"none", "row", "gone"}
      BY <1>0, <1>1 DEF File
    <2>3. f \in F => ~Taken(f) /\ file[f].state = "row" /\ file'[f].state = "gone"
      BY <1>1 DEF Taken
    <2>4. QED
      BY <1>0, <1>1, <2>1, <2>2, <2>3, PlaceIs, NextPlaceIs
  <1>4. \A f \in F : shelf[f].place = "loose"
    BY <1>0, <1>3 DEF shelf
  <1>5. ASSUME NEW f \in Files
        PROVE  shelf'[f] = IF f \in F THEN [shelf[f] EXCEPT !.place = "gone"] ELSE shelf[f]
    BY <1>1, <1>3 DEF shelf
  <1> HIDE DEF F
  <1>6. shelf' = [f \in Files |-> IF f \in F THEN [shelf[f] EXCEPT !.place = "gone"] ELSE shelf[f]]
    <2>1. shelf' = [f \in Files |-> shelf'[f]]
      BY DEF shelf
    <2>2. QED
      BY <1>5, <2>1
  <1>7. L!Discard(F)
    BY <1>0, <1>2, <1>4, <1>6 DEF L!Discard
  <1>8. F \in SUBSET Files
    BY <1>0 DEF F
  <1>9. QED
    BY <1>7, <1>8 DEF L!Next

\* A message is there for others, with its files and in its author's cursor
LEMMA CommitSeen ==
  ASSUME IInv, IInv', Own, NEW p \in Procs, Commit(p)
  PROVE  L!Next
  <1> USE ChatsAssumption
  <1> DEFINE n == calls[p].number
             k == calls[p].send
             u == send[k].user
  <1>0. /\ file \in [Files -> File] /\ message \in [Numbers -> Message] /\ send \in [Sends -> Send]
        /\ \A f \in Files : FileOK(f) /\ FileOK(f)' /\ OwnOK(f)
        /\ UNCHANGED <<send, file, told, answered>>
    BY DEF IInv, TypeOK, Commit, Own
  <1>1. /\ n \in Numbers /\ Open(n) /\ message[n].send = k /\ k \in Sends /\ u \in Users
        /\ \A f \in send[k].files : file[f].message = n
    BY DEF IInv, Commit, CallOK, At, Numbered
  <1>2. message' = [message EXCEPT ![n].state = "sent"]
        /\ cursor' = [cursor EXCEPT ![Side(u)] = Greatest(@, n)]
    BY DEF Commit
  <1>3. message'[n].state = "sent" /\ message'[n].send = k
        /\ \A m \in Numbers \ {n} : message'[m] = message[m]
    BY <1>0, <1>1, <1>2 DEF Message
  <1>4. send[k].files \subseteq Files /\ n # 0
    BY <1>0, <1>1 DEF Send, Numbers
  <1>5. ASSUME NEW f \in Files PROVE file[f].message = n <=> f \in send[k].files
    BY <1>0, <1>1, <1>4 DEF FileOK
  <1>6. {f \in Files : file[f].message = n} = send[k].files
    BY <1>4, <1>5
  <1>7. posts' = [posts EXCEPT ![n] = [send |-> k, files |-> send[k].files]]
    <2>1. posts'[n] = [send |-> k, files |-> send[k].files]
      BY <1>0, <1>1, <1>3, <1>6 DEF posts, Sent
    <2>2. ASSUME NEW m \in Numbers \ {n} PROVE posts'[m] = posts[m]
      BY <1>0, <1>3 DEF posts, Sent
    <2>3. posts = [m \in Numbers |-> posts[m]] /\ posts' = [m \in Numbers |-> posts'[m]]
      BY DEF posts
    <2>4. QED
      BY <1>1, <2>1, <2>2, <2>3
  <1>8. posts[n] = L!NoPost
    BY <1>1 DEF posts, Open, Sent, L!NoPost
  <1>9. k \in Keyed => \A m \in Numbers : posts[m].send # k
    <2>1. ASSUME k \in Keyed, NEW m \in Numbers, Sent(m), message[m].send = k PROVE FALSE
      <3>1. m = n
        BY <1>1, <2>1 DEF IInv, KeyedOnce, Same
      <3>2. QED
        BY <1>1, <2>1, <3>1 DEF Open, Sent
    <2>2. k # Null
      BY <1>1
    <2>3. QED
      BY <2>1, <2>2 DEF posts
  <1>10. ASSUME NEW f \in Files
         PROVE  /\ f \in send[k].files => /\ PlaceOf(f) = "loose" /\ PlaceOf(f)' = "sent"
                                          /\ file[f].user = u
                /\ f \notin send[k].files => PlaceOf(f)' = PlaceOf(f)
    <2>0. file[f].state \in {"none", "row", "gone"}
      BY <1>0 DEF File
    <2>1. CASE f \in send[k].files
      <3>1. file[f].message = n /\ file[f].state = "row" /\ ~Taken(f) /\ Taken(f)'
        BY <1>0, <1>1, <1>3, <1>4, <2>1 DEF FileOK, Taken, Open, Sent
      <3>2. file[f].user = u
        BY <1>0, <1>1, <1>4, <3>1 DEF OwnOK
      <3>3. QED
        BY <1>0, <2>0, <2>1, <3>1, <3>2, PlaceIs, NextPlaceIs
    <2>2. CASE f \notin send[k].files
      <3>1. file[f].message # 0 => file[f].message \in Numbers \ {n}
        BY <1>0, <1>5, <2>2 DEF File, Numbers
      <3>2. Taken(f)' <=> Taken(f)
        BY <1>0, <1>3, <3>1 DEF Taken, Sent
      <3>3. QED
        BY <1>0, <2>0, <2>2, <3>2, PlaceIs, NextPlaceIs
    <2>3. QED
      BY <2>1, <2>2
  <1>11. \A f \in send[k].files : shelf[f] = [place |-> "loose", owner |-> u]
    BY <1>4, <1>10 DEF shelf
  <1>12. shelf' = [f \in Files |-> IF f \in send[k].files THEN [shelf[f] EXCEPT !.place = "sent"]
                                                          ELSE shelf[f]]
    <2>1. ASSUME NEW f \in Files
          PROVE  shelf'[f] = IF f \in send[k].files THEN [shelf[f] EXCEPT !.place = "sent"]
                                                    ELSE shelf[f]
      BY <1>0, <1>10 DEF shelf
    <2>2. shelf' = [f \in Files |-> shelf'[f]]
      BY DEF shelf
    <2>3. QED
      BY <2>1, <2>2
  <1>13. cursor' = [cursor EXCEPT ![L!Side(u)] = IF @ < n THEN n ELSE @]
    BY <1>2 DEF Greatest, Side, L!Side
  <1>14. u # Null
    BY <1>1
  <1>15. L!Post(n, k)
    BY <1>0, <1>1, <1>7, <1>8, <1>9, <1>11, <1>12, <1>13, <1>14 DEF L!Post, L!Numbers, Numbers
  <1>16. QED
    BY <1>1, <1>15 DEF L!Next, L!Numbers, Numbers

\* Every step is one of the log's, or changes nothing that others see
LEMMA LogStep ==
  IInv /\ IInv' /\ Own /\ [Next]_vars => [L!Next]_<<send, posts, shelf, cursor, told, answered>>
  <1> SUFFICES ASSUME IInv, IInv', Own, [Next]_vars
               PROVE  L!Next \/ UNCHANGED <<send, posts, shelf, cursor, told, answered>>
    OBVIOUS
  <1>1. Hidden => UNCHANGED <<send, posts, shelf, cursor, told, answered>>
    BY ViewSame DEF Hidden
  <1>2. ASSUME NEW p \in Procs, Handle(p) PROVE L!Next \/ Hidden
    BY <1>2, TransactionHidden, PlaceSeen, CommitSeen, DeliverSeen DEF Handle
  <1>3. CASE \E p \in Procs : \E k \in Sends, s \in Send : SendBegin(p, k, s)
    BY <1>3, SendBeginSeen
  <1>4. CASE \E u \in Users, f \in Files : Upload(u, f)
    BY <1>4, UploadSeen
  <1>5. CASE \E s \in Sides, n \in Numbers : Read(s, n)
    BY <1>5, ReadSeen
  <1>6. CASE SweepDelete
    BY <1>6, SweepSeen
  <1>7. CASE TickBegin \/ SweepRead \/ SweepFails \/ Crash
             \/ \E f \in Files : Age(f) \/ SweepRemove(f)
    BY <1>1, <1>7, SweepHidden
  <1>8. CASE UNCHANGED vars
    BY <1>8 DEF vars, posts, shelf, PlaceOf, Orphan, Locked, Open, Sent
  <1>9. QED
    BY <1>1, <1>2, <1>3, <1>4, <1>5, <1>6, <1>7, <1>8 DEF Next

(***************************************************************************)
(* send, read and the sweep look to others as if each were done at once:   *)
(* however their statements interleave, are undone and repeated, the chat  *)
(* is a log of messages that come with their files, once.                  *)
(***************************************************************************)
THEOREM ChatIsLog == Spec => ImplementsChatLog
  <1>1. Init => L!Init /\ Own
    <2> SUFFICES ASSUME Init PROVE L!Init /\ Own
      OBVIOUS
    <2>1. /\ \A f \in Files : file[f] = NoFile
          /\ \A m \in Numbers : ~Sent(m)
      BY DEF Init, Sent, NoMessage
    <2>2. ASSUME NEW f \in Files PROVE PlaceOf(f) = "new" /\ file[f].user = Null /\ OwnOK(f)
      <3>1. /\ file[f].state = "none" /\ file[f].user = Null
            /\ file[f].message = 0 /\ ~file[f].aged
        BY <2>1 DEF NoFile
      <3>2. PlaceOf(f) = "new"
        BY <3>1 DEF PlaceOf, Orphan
      <3>3. OwnOK(f)
        BY <3>1, Zenon DEF OwnOK
      <3>4. QED
        BY <3>1, <3>2, <3>3
    <2>3. /\ posts = [m \in Numbers |-> [send |-> Null, files |-> {}]]
          /\ shelf = [f \in Files |-> [place |-> "new", owner |-> Null]]
      BY <2>1, <2>2 DEF posts, shelf
    <2>4. QED
      BY <2>2, <2>3 DEF Init, Own, NoSend, L!Init, L!NotAsked, L!NoPost, L!Numbers, L!Sides,
         Numbers, Sides
  <1>2. Own /\ IInv /\ IInv' /\ [Next]_vars => Own'
    BY OwnStep
  <1>3. IInv /\ IInv' /\ Own /\ [Next]_vars => [L!Next]_(L!chat)
    BY LogStep DEF L!chat
  <1>4. QED
    BY <1>1, <1>2, <1>3, Inductive, PTL DEF Spec, ImplementsChatLog, L!Spec

=============================================================================
