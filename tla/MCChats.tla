------------------------------- MODULE MCChats -------------------------------
(* One customer and one user of the store, in one chat. *)
EXTENDS Chats, TLC

Symmetry == Permutations(Procs) \cup Permutations(Files)

OwnNumbers(s) == {m \in Numbers : Sent(m) /\ Side(send[message[m].send].user) = s}

\* Files and reading do not meet in the code: while there are files, the cursors
\* are where the senders' own messages put them
ReadsOrFiles ==
  \/ \A f \in Files : file[f] = NoFile
  \/ \A s \in Sides : cursor[s] \in OwnNumbers(s) \cup {0}

\* The sides are alike: the customer is the one who uploads
CustomersFiles == \A f \in Files : file[f].user \in Customers \cup {Null}

\* and who writes the message that is repeated
CustomersRepeat == \A k \in Keyed : send[k].user \in Customers \cup {Null}
=============================================================================
