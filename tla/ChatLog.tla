------------------------------- MODULE ChatLog -------------------------------
(***************************************************************************)
(* What the chat service promises to those who look at a chat, whatever    *)
(* requests are repeated, transactions undone and files swept meanwhile: a *)
(* message is there with its files and read by its author, all at once, or *)
(* it is not there at all.                                                 *)
(*                                                                         *)
(*   new     not uploaded yet                                              *)
(*   loose   uploaded, in no message                                       *)
(*   sent    in a message, for good                                        *)
(*   gone    removed, for good                                             *)
(***************************************************************************)
EXTENDS Naturals

CONSTANTS Customers, Staff, Sends, Keyed, Files, MaxNumber, Null

VARIABLES
  asked,    \* asked[k]: author and files of what an app asks to send
  posts,    \* posts[m]: what message number m says, and its files
  shelf,    \* shelf[f]: where file f is, and whose it is
  cursor,   \* cursor[s]: how far side s has read
  told,     \* told[m]: how often the others were told of message m
  answered  \* what the apps know to be sent

chat == <<asked, posts, shelf, cursor, told, answered>>

Users   == Customers \cup Staff
Sides   == {"client", "store"}
Side(u) == IF u \in Customers THEN "client" ELSE "store"
Numbers == 1 .. MaxNumber

NotAsked == [user |-> Null, files |-> {}]
NoPost   == [send |-> Null, files |-> {}]
Posted(m) == posts[m].send # Null

Init ==
  /\ asked = [k \in Sends |-> NotAsked]
  /\ posts = [m \in Numbers |-> NoPost]
  /\ shelf = [f \in Files |-> [place |-> "new", owner |-> Null]]
  /\ cursor = [s \in Sides |-> 0]
  /\ told = [m \in Numbers |-> 0]
  /\ answered = {}

Upload(u, f) ==
  /\ shelf[f].place = "new"
  /\ shelf' = [shelf EXCEPT ![f] = [place |-> "loose", owner |-> u]]
  /\ UNCHANGED <<asked, posts, cursor, told, answered>>

\* What is asked for does not change when it is asked again
Ask(k, u, files) ==
  /\ asked[k] = NotAsked
  /\ asked' = [asked EXCEPT ![k] = [user |-> u, files |-> files]]
  /\ UNCHANGED <<posts, shelf, cursor, told, answered>>

Post(m, k) ==
  LET u == asked[k].user
      files == asked[k].files
  IN /\ u # Null /\ posts[m] = NoPost
     /\ k \in Keyed => \A n \in Numbers : posts[n].send # k
     /\ \A f \in files : shelf[f] = [place |-> "loose", owner |-> u]
     /\ posts' = [posts EXCEPT ![m] = [send |-> k, files |-> files]]
     /\ shelf' = [f \in Files |-> IF f \in files THEN [shelf[f] EXCEPT !.place = "sent"]
                                                 ELSE shelf[f]]
     /\ cursor' = [cursor EXCEPT ![Side(u)] = IF @ < m THEN m ELSE @]
     /\ UNCHANGED <<asked, told, answered>>

\* The rooms are told of a message, the app is answered, or both
Report(m) ==
  /\ Posted(m)
  /\ told' = told \/ (told[m] = 0 /\ told' = [told EXCEPT ![m] = 1])
  /\ answered' \in {answered, answered \cup {posts[m].send}}
  /\ UNCHANGED <<asked, posts, shelf, cursor>>

Read(s, n) ==
  /\ cursor[s] < n /\ \E m \in Numbers : Posted(m) /\ n <= m
  /\ cursor' = [cursor EXCEPT ![s] = n]
  /\ UNCHANGED <<asked, posts, shelf, told, answered>>

Discard(files) ==
  /\ \A f \in files : shelf[f].place = "loose"
  /\ shelf' = [f \in Files |-> IF f \in files THEN [shelf[f] EXCEPT !.place = "gone"]
                                              ELSE shelf[f]]
  /\ UNCHANGED <<asked, posts, cursor, told, answered>>

Next ==
  \/ \E files \in SUBSET Files : Discard(files)
  \/ \E m \in Numbers : Report(m)
  \/ \E s \in Sides, n \in Numbers : Read(s, n)
  \/ \E u \in Users, f \in Files : Upload(u, f)
  \/ \E k \in Sends, u \in Users, files \in SUBSET Files : Ask(k, u, files)
  \/ \E m \in Numbers, k \in Sends : Post(m, k)

Spec == Init /\ [][Next]_chat
=============================================================================
