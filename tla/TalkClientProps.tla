--------------------------- MODULE TalkClientProps ---------------------------
(***************************************************************************)
(* What is claimed of TalkClient.                                          *)
(***************************************************************************)
EXTENDS TalkClient, FiniteSets

One(b) == IF b THEN 1 ELSE 0

ReadyOf(ops) == {i \in 1 .. Len(client.ready) : client.ready[i].op \in ops}

Engagements ==
  One(client.resolving) + One(client.connecting) + client.receiving
    + One(client.timer # "off")
    + Cardinality(ReadyOf({"resolve", "connect", "receive", "timer"}))

(* While the user types nothing and connect_to is not called, the client   *)
(* is always engaged in exactly one thing: waiting to reconnect,           *)
(* resolving, connecting or receiving.  Each handler starts the next, and  *)
(* none starts two, whenever the server goes down and comes back.          *)
SingleAttempt == lines = <<>> /\ moves = 0 => Engagements = 1

(* With writes, whose failure comes on top, and with connect_to, the       *)
(* client is still never left with nothing under way: no handler of an     *)
(* attempt ends without another to come.  (Timers that replace each other  *)
(* count, too: whether the client comes back is for the properties below.) *)
AlwaysEngaged == Engagements >= 1

Connected == client.socket = "connected" \/ ~server_up \/ ~Running

(* The client comes back, once the server is there for good: after any     *)
(* number of crashes, in whatever state they find it, if the user types    *)
(* nothing and connect_to is not called.                                   *)
ReconnectsUndisturbed == <>[](Connected \/ lines # <<>> \/ moves > 0)

(* "reconnect in seconds seconds" (thrift_asio_client.hpp:86): on an error *)
(* the client comes back, whatever was under way.                          *)
Reconnects == <>[]Connected

(* "close the connection and connect to host_name:service_name"            *)
(* (thrift_asio_client.hpp:76): after connect_to the client gets connected,*)
(* and stays so.                                                           *)
ConnectToConnects == <>[](moves > 0 => Connected)

(* The connection was not lost, nor given up.                              *)
NeverLost == crashes = 0 /\ moves = 0

(* A dialogue with the user is in one place at a time: it is a read of the *)
(* terminal, a line that was read, a call that was not sent yet or that    *)
(* the server has not read, or an answer that was not dispatched.          *)
AnswersIn(pieces) ==
  {i \in 1 .. Len(pieces) :
     pieces[i].part = 2 /\ pieces[i].frame # "on_subscribeShip"}

AnswersReceived ==
  UNION {{i} \X AnswersIn(client.ready[i].got) : i \in ReadyOf({"receive"})}

AnswersComing ==
  Cardinality(AnswersIn(client.incomming_bytes_))
    + Cardinality(AnswersReceived) + Cardinality(AnswersIn(wire))

(* What was written stays in the list until its handler runs.              *)
Unsent ==
  IF \E i \in ReadyOf({"write"}) : client.ready[i].ok
    THEN Len(Rest(client.outbound_messages_))
    ELSE Len(client.outbound_messages_.msgs)

Dialogues ==
  Len(client.stdin) + Cardinality(ReadyOf(Prompts)) + Unsent + asked
    + AnswersComing

(* While the connection is not lost, the client has one dialogue with the  *)
(* user, and one more for each refusal it had not asked for (those reach   *)
(* the client that has the name, and prompt its user while another prompt, *)
(* or an answer, is outstanding); a call that the server does not answer   *)
(* ends one.  Other than that none begins.  Frames are not mixed up, and   *)
(* the list of messages is not popped when it is empty.                    *)
OrderlyWithoutCrash ==
  NeverLost => Running /\ Dialogues + unanswered <= 1 + refusals

(* Nor does one end otherwise, on its way from handler to handler across   *)
(* the terminal and the server: unless the user entered an empty line, or  *)
(* a refusal that was not asked for let two reads share a buffer, a client *)
(* that was connected is in its dialogue, or was not answered.             *)
DialogueNotLost ==
  (/\ NeverLost /\ refusals = 0
   /\ \A i \in 1 .. Len(lines) : lines[i] # NoText
   /\ client.receiving > 0 \/ ReadyOf({"receive"}) # {})
    => Dialogues + unanswered = 1

(* Without a loss, every call of the server is dispatched, however it was *)
(* cut on its way: no bytes wait for a handler that does not come.  (A     *)
(* crash in the middle of a frame leaves a half that waits.)               *)
EverythingProcessed ==
  []<>(\/ ~NeverLost
       \/ wire = <<>> /\ client.incomming_bytes_ = <<>> /\ client.half = "none")

(* "we've sent it, remove from queue" (thrift_asio_transport.hpp:160):     *)
(* what was sent is in the list when its handler removes it.               *)
RemovesWhatWasSent == client.failure # "empty list"

=============================================================================
