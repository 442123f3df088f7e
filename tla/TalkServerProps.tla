--------------------------- MODULE TalkServerProps ---------------------------
(***************************************************************************)
(* What is claimed of TalkServer.                                          *)
(***************************************************************************)
EXTENDS TalkServer, SequencesExt

(* A connection whose chain of reads is running, and no other, is in the   *)
(* map.  These are the mixin's assertions: on_client_connected finds the   *)
(* key absent, on_client_disconnected and before_process find it present.  *)
ChainIffRegistered ==
  \A c \in Conns : phase[c] \in {"size", "data"} <=> c \in clients_

(* No two registered sessions have the same name, unless it is the empty   *)
(* name they all start with: what setUserName's search is for.             *)
UniqueNames ==
  \A c, d \in clients_ :
    user_name[c] = user_name[d] => c = d \/ user_name[c] = NoName

(* write() tells from the length of the list alone whether a write is      *)
(* under way.  It is right: the list is empty exactly when no async_write  *)
(* waits for its handler.  And an async_write on a socket that is closed   *)
(* is one that fails, so what is queued there is not taken for sent.       *)
WriteMatchesQueue ==
  \A c \in Conns :
    /\ writing[c] = "idle" <=> ListSize(outbound_messages_[c]) = 0
    /\ ~socket_open[c] => writing[c] \in {"idle", "err"}

(* What the transport still has to get across.                             *)
Unsent(c) == IF writing[c] = "ok" THEN Rest(outbound_messages_[c])
                                  ELSE outbound_messages_[c].msgs

(* Concatenating the list, removing the first string on completion and     *)
(* clearing it on an error neither lose, repeat nor reorder a message:     *)
(* a peer that is there will have received everything, in order, once the  *)
(* list is written, and any peer has received a prefix.                    *)
StreamIntegrity ==
  \A c \in Conns :
    /\ IsPrefix(delivered[c], sent[c])
    /\ link[c] => delivered[c] \o Unsent(c) = sent[c]

IsShip(m) == m.reply = "on_subscribeShip"

(* How many of the positions in S are not after i.                         *)
Rank(S, i) == Cardinality({k \in S : k <= i})

(* Where in s the ships stand that neither a nor b posted.                 *)
ShipsOfOthers(s, a, b) ==
  {i \in 1 .. Len(s) : IsShip(s[i]) /\ s[i].ship.from \notin {a, b}}

(* Everybody hears the same conversation.  Line up what a and b have       *)
(* received from the others at any ship both have: then they agree on      *)
(* every ship up to the end of the shorter, and have no ship in common     *)
(* elsewhere.  So there is no gap and no swap, although each client has a  *)
(* list, a write and errors of its own.                                    *)
OneConversation ==
  \A a, b \in Conns :
    LET A == ShipsOfOthers(delivered[a], a, b)
        B == ShipsOfOthers(delivered[b], a, b)
    IN  \A i, m \in A, j, n \in B :
          delivered[a][i] = delivered[b][j] =>
            (delivered[a][m] = delivered[b][n]
               <=> Rank(A, m) - Rank(A, i) = Rank(B, n) - Rank(B, j))

(* Nobody hears a ship twice, or a ship of its own.                        *)
NoEcho ==
  \A c \in Conns : \A i, j \in 1 .. Len(delivered[c]) :
    IsShip(delivered[c][i]) =>
      /\ delivered[c][i].ship.from # c
      /\ delivered[c][i] = delivered[c][j] => i = j

(* The name granted by the first n of the calls that a client made is one  *)
(* it asked for by then, or none.                                          *)
AskedFor(calls, n) ==
  {NoName} \cup {calls[i].name :
                   i \in {j \in 1 .. n : calls[j].call = "setUserName"}}

(* A ship is attributed to the client that posted it: the name a receiver  *)
(* is given is one the author had asked for before it posted.  So the      *)
(* current_client_ of the call is the connection the frame came from,      *)
(* whatever other connections did between its two reads.                   *)
Attribution ==
  \A c \in Conns : \A i \in 1 .. Len(delivered[c]) :
    IsShip(delivered[c][i]) =>
      LET m == delivered[c][i]
      IN  /\ m.ship.no \in 1 .. Len(requests[m.ship.from])
          /\ requests[m.ship.from][m.ship.no].call = "postShip"
          /\ m.name \in AskedFor(requests[m.ship.from], m.ship.no)

(* The reply the code sends for a call that it always answers.             *)
ReplyTo(r) == CASE r.call = "getVersion"  -> "on_getVersion"
                [] r.call = "subscribe"   -> "on_subscribe_succeeded"
                [] r.call = "unsubscribe" -> "on_unsubscribe_succeeded"

AlwaysAnswered == {"getVersion", "subscribe", "unsubscribe"}

AnswerableCalls(calls) ==
  {i \in 1 .. Len(calls) : calls[i].call \in AlwaysAnswered}

Answers ==
  {"on_getVersion", "on_subscribe_succeeded", "on_unsubscribe_succeeded"}

AnswersAmong(s) == {i \in 1 .. Len(s) : s[i].reply \in Answers}

(* The answers a client has received to the calls that are always answered *)
(* are those of its own calls, the first to the first, the second to the   *)
(* second, however ships and answers to others are interleaved.            *)
AnswersInOrder ==
  \A c \in Conns : \A i \in AnswersAmong(delivered[c]) :
    \E n \in AnswerableCalls(requests[c]) :
      /\ Rank(AnswerableCalls(requests[c]), n)
           = Rank(AnswersAmong(delivered[c]), i)
      /\ delivered[c][i].reply = ReplyTo(requests[c][n])

(* A connection whose chain of reads has ended is never registered again,  *)
(* makes no further call, and what it still receives was sent before.      *)
GoneIsFinal ==
  [][\A c \in Conns : phase[c] = "gone" =>
       /\ phase'[c] = "gone" /\ c \notin clients_'
       /\ requests'[c] = requests[c] /\ sent'[c] = sent[c]]_vars

-----------------------------------------------------------------------------
(* The room that the server implements.                                    *)
RoomStatus ==
  [c \in Conns |-> IF c \in clients_ THEN "in"
                   ELSE IF phase[c] = "gone" THEN "left" ELSE "out"]

Room == INSTANCE ChatRoom WITH
          Clients <- Conns,
          Numbers <- 1 .. MaxFrames,
          status  <- RoomStatus,
          name    <- user_name,
          said    <- sent,
          heard   <- delivered

(* The server implements the room: reads, handlers, lists and writes are   *)
(* steps of the room, or none.                                             *)
ImplementsRoom == Room!Spec

-----------------------------------------------------------------------------
(* Liveness.                                                               *)

(* The session of a peer that is gone is erased, so its name becomes free, *)
(* whatever read or write was under way.  The session of a peer that       *)
(* vanished is erased once the server has something to send to it, be it   *)
(* only a ship somebody else posts.                                        *)
DeadClientsReaped ==
  \A c \in Conns :
    (c \in clients_ /\ ~link[c] /\ (c \in silent => Unacked(c)))
      ~> c \notin clients_

(* Once nothing more is asked for, a peer that stays has received all it   *)
(* was sent, although only one write is under way at a time and the next   *)
(* is started by the handler of the last.                                  *)
EverythingDelivered ==
  \A c \in Conns : <>[](link[c] => delivered[c] = sent[c])

(* A peer that connects gets a session, unless it finds all descriptors in *)
(* use: nothing else ends accepting.                                       *)
EveryoneAccepted ==
  \A c \in Conns :
    (phase[c] = "backlog") ~>
      (c \in clients_ \/ Cardinality(FdsInUse) >= MaxFds)

-----------------------------------------------------------------------------
(* What comments say and the code does not do.                             *)

(* "Only valid while a request is processed"                               *)
(* (thrift_asio_connection_management_mixin.hpp:94): the mixin does not    *)
(* hold on to a client that has disconnected.                              *)
NoStaleCurrentClient ==
  current_client_ # NoClient => current_client_ \in clients_

(* "this will accept new connections without any bounds"                   *)
(* (thrift_asio_server.hpp:124): the acceptor never stops.                 *)
AcceptsWithoutBounds == acceptor = "listening"

Count(s, Test(_)) == Len(SelectSeq(s, Test))

(* "to respond to the current client"                                      *)
(* (thrift_asio_connection_management_mixin.hpp:22): whoever asked for a   *)
(* name is told whether it got it.                                         *)
RequesterIsAnswered ==
  \A c \in Conns :
    Count(requests[c], LAMBDA r : r.call = "setUserName") =
    Count(sent[c], LAMBDA m : m.reply \in {"on_setUserName_succeeded",
                                           "on_setUserName_failed"})
=============================================================================
