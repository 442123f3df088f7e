------------------------------ MODULE ChatRoom ------------------------------
(***************************************************************************)
(* What the talk server promises the clients, without sockets, queues and  *)
(* handlers: a room that clients enter and leave once, in which a name     *)
(* belongs to at most one member, a post is said at one instant to every   *)
(* other member under the name its author has at that instant, and every   *)
(* client hears a prefix of what was said to it.                           *)
(***************************************************************************)
EXTENDS Integers, Sequences

CONSTANTS Clients, Names, NoName, Answers,
          Numbers  \* what tells the posts of one client apart

VARIABLES
  status,  \* status[c]: "out", "in" the room, or has "left" for good
  name,    \* name[c]: the name c was granted, or NoName
  said,    \* said[c]: what the room has said to c
  heard    \* heard[c]: what c has heard of it

vars == <<status, name, said, heard>>

Members == {c \in Clients : status[c] = "in"}

Init ==
  /\ status = [c \in Clients |-> "out"]
  /\ name = [c \in Clients |-> NoName]
  /\ said = [c \in Clients |-> <<>>]
  /\ heard = [c \in Clients |-> <<>>]

Say(R, m) ==
  said' = [c \in Clients |-> IF c \in R THEN Append(said[c], m) ELSE said[c]]

Enter(c) ==
  /\ status[c] = "out"
  /\ status' = [status EXCEPT ![c] = "in"]
  /\ UNCHANGED <<name, said, heard>>

Leave(c) ==
  /\ status[c] = "in"
  /\ status' = [status EXCEPT ![c] = "left"]
  /\ UNCHANGED <<name, said, heard>>

(* The door closes: nobody who is still outside will enter.                *)
TurnAway(R) ==
  /\ R # {}
  /\ \A c \in R : status[c] = "out"
  /\ status' = [c \in Clients |-> IF c \in R THEN "left" ELSE status[c]]
  /\ UNCHANGED <<name, said, heard>>

Answer(c) ==
  /\ c \in Members
  /\ \E a \in Answers : Say({c}, [reply |-> a])
  /\ UNCHANGED <<status, name, heard>>

(* A name is granted when no member has it, ...                            *)
Rename(c, n) ==
  /\ c \in Members
  /\ \A p \in Members : name[p] # n
  /\ name' = [name EXCEPT ![c] = n]
  /\ Say({c}, [reply |-> "on_setUserName_succeeded"])
  /\ UNCHANGED <<status, heard>>

(* ... and a failure is said to a member, which need not have asked: it is *)
(* the one that has the name.  Who asked, and for what, is left open.      *)
Refuse(p) ==
  /\ p \in Members
  /\ Say({p}, [reply |-> "on_setUserName_failed"])
  /\ UNCHANGED <<status, name, heard>>

(* no is larger than in every ship of c that was said before.              *)
Fresh(c, no) ==
  \A d \in Clients : \A i \in 1 .. Len(said[d]) :
    LET m == said[d][i]
    IN  (m.reply = "on_subscribeShip" /\ m.ship.from = c) => m.ship.no < no

Post(c, no) ==
  /\ c \in Members
  /\ Fresh(c, no)
  /\ Say(Members \ {c}, [reply |-> "on_subscribeShip", name |-> name[c],
                         ship |-> [from |-> c, no |-> no]])
  /\ UNCHANGED <<status, name, heard>>

Hear(c) ==
  /\ \E k \in Len(heard[c]) .. Len(said[c]) :
       heard' = [heard EXCEPT ![c] = SubSeq(said[c], 1, k)]
  /\ UNCHANGED <<status, name, said>>

Next ==
  \/ \E c \in Clients : \/ Enter(c) \/ Leave(c) \/ Answer(c) \/ Hear(c)
                        \/ \E n \in Names \cup {NoName} : Rename(c, n)
                        \/ Refuse(c)
                        \/ \E no \in Numbers : Post(c, no)
  \/ \E R \in SUBSET Clients : TurnAway(R)

Spec == Init /\ [][Next]_vars
=============================================================================
