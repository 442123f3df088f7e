--------------------------- MODULE ClientProcess ---------------------------
(***************************************************************************)
(* The process of the talk client: thrift_asio_client,                     *)
(* thrift_asio_client_transport, the client side of thrift_asio_transport, *)
(* and the talkClient_handler of talkClient.cpp.                           *)
(*                                                                         *)
(* A handler is a function from the state of the process to its next       *)
(* state, so that the calls it makes are composed.  Operations that        *)
(* complete, or are aborted, put their handlers into the queue `ready'.    *)
(***************************************************************************)
EXTENDS WriteQueue

CONSTANTS
  Texts,  \* lines of the terminal that are not empty
  NoText  \* a line that is nothing but the newline

ASSUME TextsAssumption == NoText \notin Texts

Lines == Texts \cup {NoText}

(* What the client calls on the server.                                    *)
Requests == [call : {"setUserName"}, name : Texts]

(* Calls of the server, of which each travels as two pieces that may       *)
(* arrive apart.                                                           *)
ServerCalls == {"on_setUserName_succeeded", "on_setUserName_failed",
            "on_subscribeShip"}
Pieces == [frame : ServerCalls, part : {1, 2}]
Frame(m) == <<[frame |-> m, part |-> 1], [frame |-> m, part |-> 2]>>

(* Handlers that are ready to run.                                         *)
Ops == {"resolve", "connect", "receive", "write", "timer"}
Prompts == {"read_username", "read_message"}

Failed(op) == [op |-> op, ok |-> FALSE, got |-> <<>>, line |-> NoText]
Done(op) == [Failed(op) EXCEPT !.ok = TRUE]
Received(pieces) == [Done("receive") EXCEPT !.got = pieces]
LineRead(prompt, line) == [Done(prompt) EXCEPT !.line = line]

ProcessStates ==
  [socket    : {"closed", "open", "connected"},  \* open: not connected yet
   resolving : BOOLEAN,             \* an async_resolve is outstanding
   connecting : BOOLEAN,            \* an async_connect
   receiving : Nat,                 \* that many async_receives
   writing   : BOOLEAN,             \* an async_write
   timer     : {"off", "set", "elapsing"},       \* reconnect_timer's wait
   stdin     : Seq([prompt : Prompts, alone : BOOLEAN]),
                                    \* the async_read_untils on stdin_
   input_buffer_ : Seq(Lines),
   ready     : Seq([op : Ops \cup Prompts, ok : BOOLEAN,
                    got : Seq(Pieces), line : Lines]),
   incomming_bytes_   : Seq(Pieces),
   outbound_messages_ : Queues(Requests),
   loop      : {"poll", "update", "read"},
                 \* where the thread is: in poll_one, in update, or in the
                 \* loop of run_one that read() makes for the rest of a frame
   half      : ServerCalls \cup {"none"},  \* the frame of which it has one piece
   failure   : {"none", "empty list", "mixed frame"}]

(* The constructor has called open().                                      *)
Constructed ==
  [socket |-> "closed", resolving |-> TRUE, connecting |-> FALSE,
   receiving |-> 0, writing |-> FALSE, timer |-> "off",
   stdin |-> <<>>, input_buffer_ |-> <<>>, ready |-> <<>>,
   incomming_bytes_ |-> <<>>, outbound_messages_ |-> EmptyQueue,
   loop |-> "poll", half |-> "none", failure |-> "none"]

isOpen(s) == s.socket # "closed"

Post(s, handler) == [s EXCEPT !.ready = Append(@, handler)]

-----------------------------------------------------------------------------
(* thrift_asio_client and talkClient_handler.                              *)

(* reconnect_in(): the new timer takes the place of the old one, which is  *)
(* destroyed, so that its wait is aborted.                                 *)
reconnect_in(s) ==
  LET old == IF s.timer = "off" THEN s ELSE Post(s, Failed("timer"))
  IN  [old EXCEPT !.timer = "set"]

on_error(s) == reconnect_in(s)

(* async_read_until(stdin_, input_buffer_, '\n'): done at once if the      *)
(* buffer holds a line already.                                            *)
Prompt(s, p) ==
  IF s.input_buffer_ # <<>>
    THEN Post(s, LineRead(p, Head(s.input_buffer_)))
    ELSE [s EXCEPT !.stdin =
            Append(@, [prompt |-> p, alone |-> s.stdin = <<>>])]

read_username(s) == Prompt(s, "read_username")
read_message(s) == Prompt(s, "read_message")

(* Seeded fault: no message is asked for once the name is granted.         *)
DispatchWithoutPrompt(s, m) ==
  IF m = "on_setUserName_failed" THEN read_username(s) ELSE s

(* The handlers of what the server calls.                                  *)
Dispatch(s, m) ==
  CASE m = "on_setUserName_failed"    -> read_username(s)
    [] m = "on_setUserName_succeeded" -> read_message(s)
    [] m = "on_subscribeShip"         -> s

-----------------------------------------------------------------------------
(* thrift_asio_transport and thrift_asio_client_transport.                 *)

(* cancel() and close() of the socket: what is outstanding on it is        *)
(* aborted, the reads before connect and write.                            *)
CloseSocket(s) ==
  [s EXCEPT
     !.ready = @ \o [i \in 1 .. s.receiving |-> Failed("receive")]
                 \o (IF s.connecting THEN <<Failed("connect")>> ELSE <<>>)
                 \o (IF s.writing THEN <<Failed("write")>> ELSE <<>>),
     !.receiving = 0, !.connecting = FALSE, !.writing = FALSE,
     !.socket = "closed"]

close(s) ==
  [CloseSocket(s) EXCEPT !.incomming_bytes_ = <<>>,
                         !.outbound_messages_ = EmptyQueue]

(* open() of the client transport: a resolve that is outstanding is        *)
(* cancelled.                                                              *)
open(s) ==
  IF s.resolving THEN Post(s, Failed("resolve"))
                 ELSE [s EXCEPT !.resolving = TRUE]

(* connect_to(): close the connection, and open one elsewhere.             *)
connect_to(s) == open(close(s))

(* async_connect closes the socket before it opens it again.               *)
async_connect(s) ==
  [CloseSocket(s) EXCEPT !.socket = "open", !.connecting = TRUE]

async_receive(s) ==
  IF isOpen(s) THEN [s EXCEPT !.receiving = @ + 1]
               ELSE Post(s, Failed("receive"))

(* open() of the base class, once connected.                               *)
transport_open(s) == async_receive(read_username(s))

async_write_one(s) ==
  LET t == [s EXCEPT !.outbound_messages_ = Consolidate(@)]
  IN  IF isOpen(s) THEN [t EXCEPT !.writing = TRUE]
                   ELSE Post(t, Failed("write"))

write(s, m) ==
  LET t == [s EXCEPT !.outbound_messages_ = PushBack(@, m)]
  IN  IF ListSize(t.outbound_messages_) = 1 THEN async_write_one(t) ELSE t

-----------------------------------------------------------------------------
(* The completion handlers.                                                *)

onResolve(s, h) == IF h.ok THEN async_connect(s) ELSE close(on_error(s))

(* Seeded fault: the owner does not hear of a failed connect.              *)
onConnectSilent(s, h) ==
  IF h.ok /\ isOpen(s) THEN transport_open(s) ELSE close(s)

(* async_connect reports an error, too, if the socket was closed before    *)
(* its handler ran.                                                        *)
onConnect(s, h) ==
  IF h.ok /\ isOpen(s) THEN transport_open(s) ELSE close(on_error(s))

(* Seeded faults: one receive only; the next one also after an error.      *)
on_receiveOnce(s, h) ==
  IF h.ok THEN [s EXCEPT !.incomming_bytes_ = @ \o h.got]
          ELSE close(on_error(s))

on_receiveAgain(s, h) ==
  async_receive(IF h.ok THEN [s EXCEPT !.incomming_bytes_ = @ \o h.got]
                        ELSE close(on_error(s)))

on_receive(s, h) ==
  IF h.ok
    THEN async_receive([s EXCEPT !.incomming_bytes_ = @ \o h.got])
    ELSE close(on_error(s))

onWrite(s, h) ==
  IF ~h.ok THEN close(on_error(s))
  ELSE IF s.outbound_messages_.msgs = <<>>
    THEN [s EXCEPT !.failure = "empty list"]   \* pop_front() of no element
    ELSE LET t == [s EXCEPT !.outbound_messages_ = PopFront(@)]
         IN  IF ListSize(t.outbound_messages_) > 0
               THEN async_write_one(t) ELSE t

onTimer(s, h) == IF h.ok THEN open(s) ELSE on_error(s)

(* getline: the line that is in the buffer by now, if there is one.        *)
TakeLine(s) ==
  [s EXCEPT !.input_buffer_ = IF @ = <<>> THEN @ ELSE Tail(@)]
LineIn(s) == IF s.input_buffer_ = <<>> THEN NoText ELSE Head(s.input_buffer_)

(* client_.setUserName(line): one frame.                                   *)
setUserNameCall(line) == [call |-> "setUserName", name |-> line]

(* Seeded fault: the next name is asked for before the server answers.     *)
onUserNameAsksOn(s, h) ==
  IF h.line = NoText THEN s
  ELSE IF LineIn(s) # NoText
         THEN read_username(write(TakeLine(s), setUserNameCall(LineIn(s))))
         ELSE read_username(TakeLine(s))

(* A line of length 1, the newline alone, is neither taken out of the      *)
(* buffer nor asked for again.                                             *)
onUserName(s, h) ==
  IF h.line = NoText THEN s
  ELSE IF LineIn(s) # NoText
         THEN write(TakeLine(s), setUserNameCall(LineIn(s)))
         ELSE read_username(TakeLine(s))

(* The statement under the test of the empty line is commented out: the    *)
(* test governs the call that starts over.                                 *)
onMessageLine(s, h) ==
  IF LineIn(s) # NoText THEN read_message(TakeLine(s)) ELSE TakeLine(s)

Handle(s, h) ==
  CASE h.op = "resolve"       -> onResolve(s, h)
    [] h.op = "connect"       -> onConnect(s, h)
    [] h.op = "receive"       -> on_receive(s, h)
    [] h.op = "write"         -> onWrite(s, h)
    [] h.op = "timer"         -> onTimer(s, h)
    [] h.op = "read_username" -> onUserName(s, h)
    [] h.op = "read_message"  -> onMessageLine(s, h)
=============================================================================
