-------------------------- MODULE ClientProcessProofs --------------------------
(***************************************************************************)
(* What the operators of ClientProcess preserve and return, whatever the   *)
(* process is part of.                                                     *)
(***************************************************************************)
EXTENDS ClientProcess, WriteQueueProofs, FiniteSetTheorems

AttemptOps == {"resolve", "connect", "receive", "timer"}

(* AlwaysEngaged, of a state of the process and without counting.          *)
Engaged(s) ==
  \/ s.resolving \/ s.connecting \/ s.receiving > 0 \/ s.timer # "off"
  \/ \E i \in 1 .. Len(s.ready) : s.ready[i].op \in AttemptOps

Handlers == [op : Ops \cup Prompts, ok : BOOLEAN,
             got : Seq(Pieces), line : Lines]

LEMMA HandlerTypes ==
  /\ \A op \in Ops : Failed(op) \in Handlers /\ Done(op) \in Handlers
  /\ \A pieces \in Seq(Pieces) : Received(pieces) \in Handlers
  /\ \A p \in Prompts, line \in Lines : LineRead(p, line) \in Handlers
  /\ \A x : Failed(x).op = x /\ Done(x).op = x
  /\ \A x : Received(x).op = "receive"
<1>1. <<>> \in Seq(Pieces) /\ NoText \in Lines
  BY EmptySeq DEF Lines
<1>2. \A op \in Ops : Failed(op) \in Handlers /\ Done(op) \in Handlers
  BY <1>1 DEF Failed, Done, Handlers
<1>3. \A pieces \in Seq(Pieces) : Received(pieces) \in Handlers
  BY <1>1 DEF Failed, Done, Received, Handlers, Ops
<1>4. \A p \in Prompts, line \in Lines : LineRead(p, line) \in Handlers
  BY <1>1 DEF Failed, Done, LineRead, Handlers, Prompts
<1>5. /\ \A x : Failed(x).op = x /\ Done(x).op = x
      /\ \A x : Received(x).op = "receive"
  BY DEF Failed, Done, Received
<1> QED  BY <1>2, <1>3, <1>4, <1>5

(* Handlers are only added behind those that are ready.                    *)
LEMMA PostEffect ==
  ASSUME NEW s \in ProcessStates, NEW h \in Handlers
  PROVE  /\ Post(s, h) \in ProcessStates
         /\ Post(s, h).socket = s.socket
         /\ Engaged(s) \/ h.op \in AttemptOps => Engaged(Post(s, h))
<1>1. s.ready \in Seq(Handlers) /\ Len(s.ready) \in Nat
  BY LenProperties DEF ProcessStates, Handlers
<1>2. /\ Append(s.ready, h) \in Seq(Handlers)
      /\ Len(Append(s.ready, h)) = Len(s.ready) + 1
      /\ \A i \in 1 .. Len(s.ready) : Append(s.ready, h)[i] = s.ready[i]
      /\ Append(s.ready, h)[Len(s.ready) + 1] = h
  BY <1>1, AppendProperties
<1>3. Post(s, h) \in ProcessStates
  BY <1>2 DEF Post, ProcessStates, Handlers
<1>4. ASSUME Engaged(s) \/ h.op \in AttemptOps
      PROVE  Engaged(Post(s, h))
  <2>1. /\ Post(s, h).ready = Append(s.ready, h)
        /\ Post(s, h).resolving = s.resolving
        /\ Post(s, h).connecting = s.connecting
        /\ Post(s, h).receiving = s.receiving
        /\ Post(s, h).timer = s.timer
    BY DEF Post, ProcessStates
  <2>2. CASE h.op \in AttemptOps
    BY <2>1, <2>2, <1>1, <1>2 DEF Engaged
  <2>3. CASE Engaged(s)
    BY <2>1, <2>3, <1>1, <1>2 DEF Engaged
  <2> QED  BY <1>4, <2>2, <2>3
<1>5. Post(s, h).socket = s.socket
  BY DEF Post, ProcessStates
<1> QED  BY <1>3, <1>4, <1>5

(* The operators of the process, in the order in which they are defined,  *)
(* keep its type, and what was started is not forgotten.                   *)
LEMMA ErrorEffect ==
  ASSUME NEW s \in ProcessStates
  PROVE  /\ on_error(s) \in ProcessStates
         /\ on_error(s).socket = s.socket
         /\ Engaged(on_error(s))
<1>1. Failed("timer") \in Handlers
  BY HandlerTypes DEF Ops
<1> DEFINE old == IF s.timer = "off" THEN s ELSE Post(s, Failed("timer"))
<1>2. old \in ProcessStates /\ old.socket = s.socket
  BY <1>1, PostEffect
<1>3. on_error(s) = [old EXCEPT !.timer = "set"]
  BY DEF on_error, reconnect_in
<1> HIDE DEF old
<1> QED  BY ZenonT(60), <1>2, <1>3 DEF ProcessStates, Engaged

LEMMA PromptEffect ==
  ASSUME NEW s \in ProcessStates, NEW p \in Prompts
  PROVE  /\ Prompt(s, p) \in ProcessStates
         /\ Prompt(s, p).socket = s.socket
         /\ Engaged(s) => Engaged(Prompt(s, p))
<1>1. CASE s.input_buffer_ # <<>>
  <2>1. Head(s.input_buffer_) \in Lines
    BY <1>1, HeadTailProperties DEF ProcessStates
  <2>2. LineRead(p, Head(s.input_buffer_)) \in Handlers
    BY <2>1, HandlerTypes
  <2> QED  BY <1>1, <2>2, PostEffect DEF Prompt, ProcessStates
<1>2. CASE s.input_buffer_ = <<>>
  <2>1. s.stdin \in Seq([prompt : Prompts, alone : BOOLEAN])
    BY DEF ProcessStates
  <2>2. [prompt |-> p, alone |-> s.stdin = <<>>]
          \in [prompt : Prompts, alone : BOOLEAN]
    OBVIOUS
  <2>3. Append(s.stdin, [prompt |-> p, alone |-> s.stdin = <<>>])
          \in Seq([prompt : Prompts, alone : BOOLEAN])
    BY <2>1, <2>2, AppendProperties
  <2> QED  BY <1>2, <2>3 DEF Prompt, ProcessStates, Engaged
<1> QED  BY <1>1, <1>2

LEMMA Joined ==
  ASSUME NEW S, NEW u \in Seq(S), NEW v \in Seq(S)
  PROVE  /\ u \o v \in Seq(S)
         /\ Len(u) \in Nat /\ Len(v) \in Nat
         /\ Len(u \o v) = Len(u) + Len(v)
         /\ \A i \in 1 .. Len(u) : (u \o v)[i] = u[i]
         /\ \A i \in 1 .. Len(v) : (u \o v)[Len(u) + i] = v[i]
<1>1. Len(u) \in Nat /\ Len(v) \in Nat
  BY LenProperties
<1>2. /\ u \o v \in Seq(S) /\ Len(u \o v) = Len(u) + Len(v)
      /\ \A i \in 1 .. Len(u) + Len(v) :
           (u \o v)[i] = IF i <= Len(u) THEN u[i] ELSE v[i - Len(u)]
  BY ConcatProperties
<1>3. ASSUME NEW i \in 1 .. Len(v) PROVE (u \o v)[Len(u) + i] = v[i]
  <2>1. /\ Len(u) + i \in 1 .. Len(u) + Len(v)
        /\ ~(Len(u) + i <= Len(u)) /\ Len(u) + i - Len(u) = i
    BY <1>1
  <2> QED  BY <1>2, <2>1
<1>4. ASSUME NEW i \in 1 .. Len(u) PROVE (u \o v)[i] = u[i]
  BY <1>1, <1>2
<1> QED  BY <1>1, <1>2, <1>3, <1>4

LEMMA CloseEffect ==
  ASSUME NEW s \in ProcessStates
  PROVE  /\ CloseSocket(s) \in ProcessStates
         /\ close(s) \in ProcessStates
         /\ Engaged(s) => Engaged(CloseSocket(s)) /\ Engaged(close(s))
<1> DEFINE r == [i \in 1 .. s.receiving |-> Failed("receive")]
           k == IF s.connecting THEN <<Failed("connect")>> ELSE <<>>
           w == IF s.writing THEN <<Failed("write")>> ELSE <<>>
           a1 == s.ready \o r
           a2 == a1 \o k
           all == a2 \o w
           t == CloseSocket(s)
<1>1. /\ Failed("receive") \in Handlers /\ Failed("connect") \in Handlers
      /\ Failed("write") \in Handlers
  BY HandlerTypes DEF Ops
<1>2. s.receiving \in Nat /\ s.ready \in Seq(Handlers)
  BY DEF ProcessStates, Handlers
<1>3. r \in Seq(Handlers) /\ Len(r) = s.receiving
  BY <1>1, <1>2
<1>4. k \in Seq(Handlers) /\ w \in Seq(Handlers)
  BY <1>1
<1>5. \A i \in 1 .. Len(r) : r[i].op = "receive"
  BY <1>2, <1>3, HandlerTypes
<1>6. s.connecting => Len(k) = 1 /\ k[1].op = "connect"
  BY HandlerTypes
<1> HIDE DEF r, k, w
<1>7. /\ a1 \in Seq(Handlers) /\ Len(a1) = Len(s.ready) + Len(r)
      /\ \A i \in 1 .. Len(s.ready) : a1[i] = s.ready[i]
      /\ \A i \in 1 .. Len(r) : a1[Len(s.ready) + i] = r[i]
  <2>1. /\ s.ready \o r \in Seq(Handlers)
        /\ Len(s.ready \o r) = Len(s.ready) + Len(r)
    BY <1>2, <1>3, Joined
  <2>2. \A i \in 1 .. Len(s.ready) : (s.ready \o r)[i] = s.ready[i]
    BY <1>2, <1>3, Joined
  <2>3. \A i \in 1 .. Len(r) : (s.ready \o r)[Len(s.ready) + i] = r[i]
    BY <1>2, <1>3, Joined
  <2> QED  BY <2>1, <2>2, <2>3
<1> HIDE DEF a1
<1>8. /\ a2 \in Seq(Handlers) /\ Len(a2) = Len(a1) + Len(k)
      /\ \A i \in 1 .. Len(a1) : a2[i] = a1[i]
      /\ \A i \in 1 .. Len(k) : a2[Len(a1) + i] = k[i]
  <2>1. a1 \o k \in Seq(Handlers) /\ Len(a1 \o k) = Len(a1) + Len(k)
    BY <1>4, <1>7, Joined
  <2>2. \A i \in 1 .. Len(a1) : (a1 \o k)[i] = a1[i]
    BY <1>4, <1>7, Joined
  <2>3. \A i \in 1 .. Len(k) : (a1 \o k)[Len(a1) + i] = k[i]
    BY <1>4, <1>7, Joined
  <2> QED  BY <2>1, <2>2, <2>3
<1> HIDE DEF a2
<1>9. /\ all \in Seq(Handlers) /\ Len(all) = Len(a2) + Len(w)
      /\ \A i \in 1 .. Len(a2) : all[i] = a2[i]
  <2>1. a2 \o w \in Seq(Handlers) /\ Len(a2 \o w) = Len(a2) + Len(w)
    BY <1>4, <1>8, Joined
  <2>2. \A i \in 1 .. Len(a2) : (a2 \o w)[i] = a2[i]
    BY <1>4, <1>8, Joined
  <2> QED  BY <2>1, <2>2
<1>10. /\ t.ready = all /\ t.timer = s.timer /\ t.resolving = s.resolving
       /\ t \in ProcessStates
  BY ZenonT(60), <1>9 DEF CloseSocket, ProcessStates, Handlers, r, k, w, a1, a2
<1> HIDE DEF t, all
<1>11. /\ close(s) \in ProcessStates
       /\ close(s).ready = t.ready /\ close(s).timer = t.timer
       /\ close(s).resolving = t.resolving
  BY <1>10, EmptyQueueProperties, EmptySeq DEF close, ProcessStates, t
<1>12. /\ Len(s.ready) \in Nat /\ Len(r) \in Nat /\ Len(k) \in Nat
       /\ Len(w) \in Nat
  BY <1>2, <1>3, <1>4, LenProperties
<1>13. ASSUME Engaged(s)
       PROVE  \/ s.resolving \/ s.timer # "off"
              \/ \E i \in 1 .. Len(all) : all[i].op \in AttemptOps
  <2>1. ASSUME NEW i \in 1 .. Len(s.ready), s.ready[i].op \in AttemptOps
        PROVE  i \in 1 .. Len(all) /\ all[i].op \in AttemptOps
    <3>1. i \in 1 .. Len(a1) /\ a1[i] = s.ready[i]
      BY <2>1, <1>7, <1>12
    <3>2. i \in 1 .. Len(a2) /\ a2[i] = a1[i]
      BY <3>1, <1>7, <1>8, <1>12
    <3>3. i \in 1 .. Len(all) /\ all[i] = a2[i]
      BY <3>2, <1>7, <1>8, <1>9, <1>12
    <3> QED  BY <2>1, <3>1, <3>2, <3>3
  <2>2. CASE s.receiving > 0
    <3>1. 1 \in 1 .. Len(r) /\ Len(s.ready) + 1 \in 1 .. Len(a1)
      BY <2>2, <1>2, <1>3, <1>7, <1>12
    <3>2. /\ Len(s.ready) + 1 \in 1 .. Len(a2)
          /\ Len(s.ready) + 1 \in 1 .. Len(all)
      BY <3>1, <1>7, <1>8, <1>9, <1>12
    <3>3. all[Len(s.ready) + 1] = r[1]
      BY <3>1, <3>2, <1>7, <1>8, <1>9
    <3> QED  BY <3>1, <3>2, <3>3, <1>5 DEF AttemptOps
  <2>3. CASE s.connecting
    <3>1. 1 \in 1 .. Len(k) /\ k[1].op = "connect"
      BY SMTT(30), <2>3, <1>6
    <3>2. Len(a1) + 1 \in 1 .. Len(a2) /\ Len(a1) + 1 \in 1 .. Len(all)
      BY SMTT(30), <3>1, <1>7, <1>8, <1>9, <1>12
    <3>3. all[Len(a1) + 1] = k[1]
      BY <3>1, <3>2, <1>8, <1>9
    <3> QED  BY <3>1, <3>2, <3>3 DEF AttemptOps
  <2> QED  BY <1>13, <2>1, <2>2, <2>3 DEF Engaged
<1> QED  BY <1>10, <1>11, <1>13 DEF Engaged, t

(* An attempt to connect is under way when these return, ...               *)
LEMMA OpenEffect ==
  ASSUME NEW s \in ProcessStates
  PROVE  /\ open(s) \in ProcessStates /\ Engaged(open(s))
         /\ async_connect(s) \in ProcessStates /\ Engaged(async_connect(s))
<1>1. Failed("resolve") \in Handlers /\ Failed("resolve").op = "resolve"
  BY HandlerTypes DEF Ops
<1>2. open(s) \in ProcessStates /\ Engaged(open(s))
  <2>1. CASE s.resolving
    BY <2>1, <1>1, PostEffect DEF open, AttemptOps
  <2>2. CASE ~s.resolving
    BY <2>2 DEF open, ProcessStates, Engaged
  <2> QED  BY <2>1, <2>2
<1>3. async_connect(s) \in ProcessStates /\ Engaged(async_connect(s))
  <2>1. CloseSocket(s) \in ProcessStates
    BY CloseEffect
  <2>2. async_connect(s) \in ProcessStates /\ async_connect(s).connecting
    BY <2>1 DEF async_connect, ProcessStates
  <2> QED  BY <2>2 DEF Engaged
<1> QED  BY <1>2, <1>3

(* ... or a receive, whose failure starts the next attempt.                *)
LEMMA ReceiveEffect ==
  ASSUME NEW s \in ProcessStates
  PROVE  /\ async_receive(s) \in ProcessStates /\ Engaged(async_receive(s))
         /\ transport_open(s) \in ProcessStates /\ Engaged(transport_open(s))
<1>1. Failed("receive") \in Handlers /\ Failed("receive").op = "receive"
  BY HandlerTypes DEF Ops
<1>2. ASSUME NEW u \in ProcessStates
      PROVE  async_receive(u) \in ProcessStates /\ Engaged(async_receive(u))
  <2>1. CASE isOpen(u)
    <3>1. u.receiving \in Nat
      BY DEF ProcessStates
    <3>2. u.receiving + 1 \in Nat /\ u.receiving + 1 > 0
      BY <3>1
    <3> DEFINE n == u.receiving + 1
    <3> HIDE DEF n
    <3>3. [u EXCEPT !.receiving = n] \in ProcessStates
          /\ [u EXCEPT !.receiving = n].receiving = n
      BY <3>2 DEF n, ProcessStates
    <3>4. async_receive(u) = [u EXCEPT !.receiving = n]
      BY <2>1 DEF async_receive, n
    <3> QED  BY <3>2, <3>3, <3>4 DEF Engaged, n
  <2>2. CASE ~isOpen(u)
    BY <2>2, <1>1, PostEffect DEF async_receive, AttemptOps
  <2> QED  BY <2>1, <2>2
<1>3. read_username(s) \in ProcessStates
  BY PromptEffect DEF read_username, Prompts
<1> QED  BY <1>2, <1>3 DEF transport_open

LEMMA WriteOneEffect ==
  ASSUME NEW s \in ProcessStates, s.outbound_messages_.msgs # <<>>
  PROVE  /\ async_write_one(s) \in ProcessStates
         /\ Engaged(s) => Engaged(async_write_one(s))
<1> DEFINE t == [s EXCEPT !.outbound_messages_ = Consolidate(@)]
<1>1. Consolidate(s.outbound_messages_) \in Queues(Requests)
  BY ConsolidateProperties DEF ProcessStates
<1>2. t \in ProcessStates /\ (Engaged(s) => Engaged(t))
  BY <1>1 DEF ProcessStates, Engaged
<1>3. Failed("write") \in Handlers
  BY HandlerTypes DEF Ops
<1>4. async_write_one(s) = IF isOpen(s) THEN [t EXCEPT !.writing = TRUE]
                                        ELSE Post(t, Failed("write"))
  BY DEF async_write_one
<1> HIDE DEF t
<1>5. CASE isOpen(s)
  <2>1. async_write_one(s) = [t EXCEPT !.writing = TRUE]
    BY <1>4, <1>5
  <2>2. [t EXCEPT !.writing = TRUE] \in ProcessStates
    BY <1>2 DEF ProcessStates
  <2>3. Engaged(t) => Engaged([t EXCEPT !.writing = TRUE])
    BY <1>2 DEF ProcessStates, Engaged
  <2> QED  BY <1>2, <2>1, <2>2, <2>3
<1>6. CASE ~isOpen(s)
  BY <1>2, <1>3, <1>4, <1>6, PostEffect
<1> QED  BY <1>5, <1>6

LEMMA WriteCallEffect ==
  ASSUME NEW s \in ProcessStates, NEW m \in Requests
  PROVE  /\ write(s, m) \in ProcessStates
         /\ Engaged(s) => Engaged(write(s, m))
<1> DEFINE t == [s EXCEPT !.outbound_messages_ = PushBack(@, m)]
<1>1. /\ PushBack(s.outbound_messages_, m) \in Queues(Requests)
      /\ PushBack(s.outbound_messages_, m).msgs # <<>>
  <2>1. s.outbound_messages_ \in Queues(Requests)
    BY DEF ProcessStates
  <2> QED  BY <2>1, PushBackProperties
<1>2. t \in ProcessStates /\ (Engaged(s) => Engaged(t))
  BY <1>1 DEF ProcessStates, Engaged
<1>3. t.outbound_messages_.msgs # <<>>
  BY <1>1 DEF ProcessStates
<1>4. write(s, m) = IF ListSize(t.outbound_messages_) = 1
                      THEN async_write_one(t) ELSE t
  BY DEF write
<1> HIDE DEF t
<1> QED  BY <1>2, <1>3, <1>4, WriteOneEffect

LEMMA TakeLineEffect ==
  ASSUME NEW s \in ProcessStates
  PROVE  /\ TakeLine(s) \in ProcessStates
         /\ Engaged(s) => Engaged(TakeLine(s))
         /\ LineIn(s) \in Lines
<1>1. s.input_buffer_ \in Seq(Lines) /\ NoText \in Lines
  BY DEF ProcessStates, Lines
<1>2. CASE s.input_buffer_ = <<>>
  BY <1>1, <1>2 DEF TakeLine, LineIn, ProcessStates, Engaged
<1>3. CASE s.input_buffer_ # <<>>
  <2>1. Tail(s.input_buffer_) \in Seq(Lines) /\ Head(s.input_buffer_) \in Lines
    BY <1>1, <1>3, HeadTailProperties
  <2> QED  BY <1>3, <2>1 DEF TakeLine, LineIn, ProcessStates, Engaged
<1> QED  BY <1>2, <1>3

(* An error ends in a timer that is set.                                   *)
LEMMA ErrorThenClose ==
  ASSUME NEW s \in ProcessStates
  PROVE  close(on_error(s)) \in ProcessStates /\ Engaged(close(on_error(s)))
<1>1. on_error(s) \in ProcessStates /\ Engaged(on_error(s))
  BY ErrorEffect
<1> DEFINE t == on_error(s)
<1> HIDE DEF t
<1>2. t \in ProcessStates /\ Engaged(t) =>
        close(t) \in ProcessStates /\ Engaged(close(t))
  BY CloseEffect
<1> QED  BY <1>1, <1>2 DEF t

LEMMA on_receiveEffect ==
  ASSUME NEW s \in ProcessStates, NEW h \in Handlers
  PROVE  on_receive(s, h) \in ProcessStates /\ Engaged(on_receive(s, h))
<1> DEFINE t == [s EXCEPT !.incomming_bytes_ = @ \o h.got]
<1>1. t \in ProcessStates
  <2>1. s.incomming_bytes_ \in Seq(Pieces) /\ h.got \in Seq(Pieces)
    BY DEF ProcessStates, Handlers
  <2>2. s.incomming_bytes_ \o h.got \in Seq(Pieces)
    BY <2>1, ConcatProperties
  <2> QED  BY <2>2 DEF ProcessStates
<1>2. on_receive(s, h) = IF h.ok THEN async_receive(t)
                                 ELSE close(on_error(s))
  BY DEF on_receive
<1> HIDE DEF t
<1> QED  BY <1>1, <1>2, ReceiveEffect, ErrorThenClose

LEMMA onWriteEffect ==
  ASSUME NEW s \in ProcessStates, NEW h \in Handlers
  PROVE  /\ onWrite(s, h) \in ProcessStates
         /\ Engaged(s) => Engaged(onWrite(s, h))
<1>1. CASE ~h.ok
  BY <1>1, ErrorThenClose DEF onWrite
<1>2. CASE h.ok /\ s.outbound_messages_.msgs = <<>>
  BY <1>2 DEF onWrite, ProcessStates, Engaged
<1>3. CASE h.ok /\ s.outbound_messages_.msgs # <<>>
  <2> DEFINE t == [s EXCEPT !.outbound_messages_ = PopFront(@)]
  <2>1. s.outbound_messages_ \in Queues(Requests)
    BY DEF ProcessStates
  <2>2. PopFront(s.outbound_messages_) \in Queues(Requests)
    BY <2>1, PopFrontProperties
  <2>3. t \in ProcessStates /\ (Engaged(s) => Engaged(t))
    BY <2>2 DEF ProcessStates, Engaged
  <2>4. onWrite(s, h) = IF ListSize(t.outbound_messages_) > 0
                          THEN async_write_one(t) ELSE t
    BY <1>3 DEF onWrite
  <2> HIDE DEF t
  <2>5. ListSize(t.outbound_messages_) > 0 => t.outbound_messages_.msgs # <<>>
    <3>1. t.outbound_messages_ \in Queues(Requests)
      BY <2>3 DEF ProcessStates
    <3>2. t.outbound_messages_.msgs = <<>> => ListSize(t.outbound_messages_) = 0
      BY DEF ListSize
    <3> QED  BY <3>2
  <2> QED  BY <2>3, <2>4, <2>5, WriteOneEffect
<1> QED  BY <1>1, <1>2, <1>3

LEMMA onUserNameEffect ==
  ASSUME NEW s \in ProcessStates, NEW h \in Handlers
  PROVE  /\ onUserName(s, h) \in ProcessStates
         /\ Engaged(s) => Engaged(onUserName(s, h))
<1> DEFINE t == TakeLine(s)
<1>1. t \in ProcessStates /\ (Engaged(s) => Engaged(t)) /\ LineIn(s) \in Lines
  BY TakeLineEffect
<1>2. LineIn(s) # NoText => setUserNameCall(LineIn(s)) \in Requests
  BY <1>1 DEF Lines, setUserNameCall, Requests
<1>3. onUserName(s, h) \in {s, write(t, setUserNameCall(LineIn(s))),
                            read_username(t)}
  BY DEF onUserName
<1>4. \/ /\ onUserName(s, h) = write(t, setUserNameCall(LineIn(s)))
         /\ LineIn(s) # NoText
      \/ onUserName(s, h) \in {s, read_username(t)}
  BY DEF onUserName
<1> HIDE DEF t
<1>5. /\ read_username(t) \in ProcessStates
      /\ Engaged(t) => Engaged(read_username(t))
  BY <1>1, PromptEffect DEF read_username, Prompts
<1> QED  BY <1>1, <1>2, <1>4, <1>5, WriteCallEffect

LEMMA onMessageLineEffect ==
  ASSUME NEW s \in ProcessStates, NEW h
  PROVE  /\ onMessageLine(s, h) \in ProcessStates
         /\ Engaged(s) => Engaged(onMessageLine(s, h))
<1> DEFINE t == TakeLine(s)
<1>1. t \in ProcessStates /\ (Engaged(s) => Engaged(t))
  BY TakeLineEffect
<1>2. onMessageLine(s, h) \in {t, read_message(t)}
  BY DEF onMessageLine
<1> HIDE DEF t
<1>3. /\ read_message(t) \in ProcessStates
      /\ Engaged(t) => Engaged(read_message(t))
  BY <1>1, PromptEffect DEF read_message, Prompts
<1> QED  BY <1>1, <1>2, <1>3

(* A handler keeps the type.  That of an attempt goes on with it or starts *)
(* the next one, and the others leave what is under way alone.             *)
LEMMA HandleEffect ==
  ASSUME NEW s \in ProcessStates, NEW h \in Handlers
  PROVE  /\ Handle(s, h) \in ProcessStates
         /\ Engaged(s) \/ h.op \in AttemptOps => Engaged(Handle(s, h))
<1>0. h.op \in Ops \cup Prompts
  BY DEF Handlers
<1>1. CASE h.op = "resolve"
  <2>1. Handle(s, h) = IF h.ok THEN async_connect(s) ELSE close(on_error(s))
    BY <1>1 DEF Handle, onResolve
  <2> QED  BY <2>1, OpenEffect, ErrorThenClose
<1>2. CASE h.op = "connect"
  <2>1. Handle(s, h) \in {transport_open(s), close(on_error(s))}
    BY <1>2 DEF Handle, onConnect
  <2> QED  BY <2>1, ReceiveEffect, ErrorThenClose
<1>3. CASE h.op = "receive"
  <2>1. Handle(s, h) = on_receive(s, h)
    BY <1>3 DEF Handle
  <2> QED  BY <2>1, on_receiveEffect
<1>4. CASE h.op = "write"
  <2>1. Handle(s, h) = onWrite(s, h)
    BY <1>4 DEF Handle
  <2> QED  BY <1>4, <2>1, onWriteEffect DEF AttemptOps
<1>5. CASE h.op = "timer"
  <2>1. Handle(s, h) \in {open(s), on_error(s)}
    BY <1>5 DEF Handle, onTimer
  <2> QED  BY <2>1, OpenEffect, ErrorEffect
<1>6. CASE h.op = "read_username"
  <2>1. Handle(s, h) = onUserName(s, h)
    BY <1>6 DEF Handle
  <2> QED  BY <1>6, <2>1, onUserNameEffect DEF AttemptOps
<1>7. CASE h.op = "read_message"
  <2>1. Handle(s, h) = onMessageLine(s, h)
    BY <1>7 DEF Handle
  <2> QED  BY <1>7, <2>1, onMessageLineEffect DEF AttemptOps
<1> QED  BY <1>0, <1>1, <1>2, <1>3, <1>4, <1>5, <1>6, <1>7 DEF Ops, Prompts

(* What the first of the ready handlers was for is not forgotten when it   *)
(* is taken out.                                                           *)
LEMMA HeadEffect ==
  ASSUME NEW s \in ProcessStates, s.ready # <<>>
  PROVE  /\ Head(s.ready) \in Handlers
         /\ [s EXCEPT !.ready = Tail(@)] \in ProcessStates
         /\ Engaged(s) => \/ Engaged([s EXCEPT !.ready = Tail(@)])
                          \/ Head(s.ready).op \in AttemptOps
<1> DEFINE q == s.ready
           t == [s EXCEPT !.ready = Tail(@)]
<1>1. q \in Seq(Handlers) /\ q # <<>>
  BY DEF ProcessStates, Handlers
<1>2. /\ Head(q) \in Handlers /\ Tail(q) \in Seq(Handlers)
      /\ Len(Tail(q)) = Len(q) - 1 /\ Len(q) \in Nat
      /\ \A i \in 1 .. Len(Tail(q)) : Tail(q)[i] = q[i + 1]
  BY <1>1, HeadTailProperties, LenProperties
<1>3. Head(q) = q[1]
  BY <1>1, <1>2
<1>4. t \in ProcessStates /\ t.ready = Tail(q)
  BY <1>2 DEF ProcessStates, Handlers
<1>5. ASSUME NEW i \in 1 .. Len(q), q[i].op \in AttemptOps
      PROVE  \/ Head(q).op \in AttemptOps
             \/ \E j \in 1 .. Len(Tail(q)) : Tail(q)[j].op \in AttemptOps
  <2> HIDE DEF q
  <2>1. CASE i = 1
    BY <1>3, <1>5, <2>1
  <2>2. CASE i # 1
    <3>1. i - 1 \in 1 .. Len(Tail(q)) /\ i - 1 + 1 = i
      BY <1>2, <2>2
    <3>2. Tail(q)[i - 1] = q[i]
      BY <1>2, <3>1
    <3> QED  BY <1>5, <3>1, <3>2
  <2> QED  BY <2>1, <2>2
<1>6. Engaged(s) => Engaged(t) \/ Head(q).op \in AttemptOps
  <2>1. /\ t.resolving = s.resolving /\ t.connecting = s.connecting
        /\ t.receiving = s.receiving /\ t.timer = s.timer
    BY DEF ProcessStates
  <2> QED  BY <1>4, <1>5, <2>1 DEF Engaged
<1> QED  BY <1>1, <1>2, <1>4, <1>6

LEMMA DispatchEffect ==
  ASSUME NEW s \in ProcessStates, NEW m \in ServerCalls
  PROVE  /\ Dispatch(s, m) \in ProcessStates
         /\ Engaged(s) => Engaged(Dispatch(s, m))
<1>1. Dispatch(s, m) \in {s, read_username(s), read_message(s)}
  BY DEF Dispatch, ServerCalls
<1>2. /\ read_username(s) \in ProcessStates /\ read_message(s) \in ProcessStates
      /\ Engaged(s) => Engaged(read_username(s)) /\ Engaged(read_message(s))
  BY PromptEffect DEF read_username, read_message, Prompts
<1> QED  BY <1>1, <1>2

(* An operation that completes leaves its handler in its place.            *)
LEMMA CompletionEffect ==
  ASSUME NEW s \in ProcessStates, NEW op \in Ops, NEW h \in Handlers,
         h.op = op
  PROVE  /\ Post(s, h) \in ProcessStates
         /\ op \in AttemptOps => \E i \in 1 .. Len(Post(s, h).ready) :
                                   Post(s, h).ready[i].op \in AttemptOps
         /\ Engaged(s) => Engaged(Post(s, h))
<1>1. s.ready \in Seq(Handlers) /\ Len(s.ready) \in Nat
  BY LenProperties DEF ProcessStates, Handlers
<1>2. /\ Post(s, h).ready = Append(s.ready, h)
      /\ Len(Append(s.ready, h)) = Len(s.ready) + 1
      /\ Append(s.ready, h)[Len(s.ready) + 1] = h
  <2>1. Post(s, h).ready = Append(s.ready, h)
    BY DEF Post, ProcessStates
  <2>2. /\ Len(Append(s.ready, h)) = Len(s.ready) + 1
        /\ Append(s.ready, h)[Len(s.ready) + 1] = h
    BY <1>1, AppendProperties
  <2> QED  BY <2>1, <2>2
<1>3. Len(s.ready) + 1 \in 1 .. Len(Post(s, h).ready)
  BY <1>1, <1>2
<1> QED  BY <1>2, <1>3, PostEffect

(* One receive fewer is outstanding, whose handler is ready.               *)
LEMMA OneReceived ==
  ASSUME NEW t \in ProcessStates, NEW n \in Nat,
         \E i \in 1 .. Len(t.ready) : t.ready[i].op \in AttemptOps
  PROVE  /\ [t EXCEPT !.receiving = n] \in ProcessStates
         /\ Engaged([t EXCEPT !.receiving = n])
<1>1. [t EXCEPT !.receiving = n] \in ProcessStates
  BY DEF ProcessStates
<1>2. [t EXCEPT !.receiving = n].ready = t.ready
  BY DEF ProcessStates
<1> QED  BY <1>1, <1>2 DEF Engaged

(* Closing a socket on which nothing is outstanding aborts nothing.        *)
LEMMA CloseIdle ==
  ASSUME NEW s \in ProcessStates, ~s.connecting, s.receiving = 0, ~s.writing
  PROVE  CloseSocket(s).ready = s.ready
<1> DEFINE r == [i \in 1 .. s.receiving |-> Failed("receive")]
<1>1. s.ready \in Seq(Handlers)
  BY DEF ProcessStates, Handlers
<1>2. r = <<>>
  OBVIOUS
<1>3. s.ready \o <<>> = s.ready
  BY <1>1, ConcatEmptySeq
<1>4. CloseSocket(s).ready = s.ready \o r \o <<>> \o <<>>
  BY DEF CloseSocket, ProcessStates
<1> QED  BY <1>2, <1>3, <1>4

-----------------------------------------------------------------------------
(* Which handlers are ready: none of certain operations, or a single one.  *)
Without(q, ops) == \A i \in 1 .. Len(q) : q[i].op \notin ops

Lone(q, ops, h) ==
  \E i \in 1 .. Len(q) :
    /\ q[i] = h
    /\ \A j \in 1 .. Len(q) : q[j].op \in ops => j = i

(* Handlers of the terminal stand behind those that were ready.            *)
Followed(q, r) ==
  /\ Len(q) <= Len(r)
  /\ \A i \in 1 .. Len(q) : r[i] = q[i]
  /\ \A i \in 1 .. Len(r) : Len(q) < i => r[i].op \in Prompts

LEMMA Appended ==
  ASSUME NEW q \in Seq(Handlers), NEW h \in Handlers, NEW ops
  PROVE  /\ Without(q, ops) /\ h.op \notin ops => Without(Append(q, h), ops)
         /\ Without(q, ops) /\ h.op \in ops => Lone(Append(q, h), ops, h)
         /\ \A g : Lone(q, ops, g) /\ h.op \notin ops
                   => Lone(Append(q, h), ops, g)
<1> DEFINE n == Len(q)
           r == Append(q, h)
<1>1. /\ n \in Nat /\ Len(r) = n + 1 /\ r[n + 1] = h
      /\ \A i \in 1 .. n : r[i] = q[i]
  BY AppendProperties, LenProperties
<1>2. /\ n + 1 \in 1 .. Len(r)
      /\ \A i \in 1 .. Len(r) : i = n + 1 \/ i \in 1 .. n
      /\ \A i \in 1 .. n : i \in 1 .. Len(r)
  BY <1>1
<1> HIDE DEF n, r
<1>3. Without(q, ops) /\ h.op \notin ops => Without(r, ops)
  BY <1>1, <1>2 DEF Without, n
<1>4. Without(q, ops) => Lone(r, ops, h)
  <2> SUFFICES ASSUME Without(q, ops) PROVE Lone(r, ops, h)
    OBVIOUS
  <2>1. \A j \in 1 .. Len(r) : r[j].op \in ops => j = n + 1
    BY <1>1, <1>2 DEF Without, n
  <2> QED  BY <1>1, <1>2, <2>1 DEF Lone
<1>5. ASSUME NEW g, Lone(q, ops, g), h.op \notin ops PROVE Lone(r, ops, g)
  <2>1. PICK i \in 1 .. n : /\ q[i] = g
                           /\ \A j \in 1 .. n : q[j].op \in ops => j = i
    BY <1>5 DEF Lone, n
  <2>2. i \in 1 .. Len(r) /\ r[i] = g
    BY <1>1, <1>2, <2>1
  <2>3. \A j \in 1 .. Len(r) : r[j].op \in ops => j = i
    BY <1>1, <1>2, <1>5, <2>1
  <2> QED  BY <2>2, <2>3 DEF Lone
<1> QED  BY <1>3, <1>4, <1>5 DEF r

LEMMA Taken ==
  ASSUME NEW q \in Seq(Handlers), q # <<>>, NEW ops
  PROVE  /\ Without(q, ops) => /\ Head(q).op \notin ops
                              /\ Without(Tail(q), ops)
         /\ \A g : Lone(q, ops, g) /\ g.op \in ops =>
              /\ Head(q).op \in ops => Head(q) = g /\ Without(Tail(q), ops)
              /\ Head(q).op \notin ops => Lone(Tail(q), ops, g)
<1> DEFINE n == Len(q)
           r == Tail(q)
<1>1. /\ n \in Nat /\ n # 0 /\ Len(r) = n - 1 /\ Head(q) = q[1]
      /\ \A i \in 1 .. Len(r) : r[i] = q[i + 1]
  BY HeadTailProperties, LenProperties, EmptySeq
<1>2. /\ 1 \in 1 .. n
      /\ \A i \in 1 .. Len(r) : i + 1 \in 1 .. n /\ i + 1 # 1
      /\ \A i \in 1 .. n : i # 1 => i - 1 \in 1 .. Len(r) /\ i - 1 + 1 = i
  BY <1>1
<1> HIDE DEF n, r
<1>3. Without(q, ops) => Head(q).op \notin ops /\ Without(r, ops)
  BY <1>1, <1>2 DEF Without, n
<1>4. ASSUME NEW g, Lone(q, ops, g), g.op \in ops
      PROVE  /\ Head(q).op \in ops => Head(q) = g /\ Without(r, ops)
             /\ Head(q).op \notin ops => Lone(r, ops, g)
  <2>1. PICK i \in 1 .. n : /\ q[i] = g
                           /\ \A j \in 1 .. n : q[j].op \in ops => j = i
    BY <1>4 DEF Lone, n
  <2>2. CASE Head(q).op \in ops
    <3>1. i = 1
      BY <1>1, <1>2, <2>1, <2>2
    <3>2. Without(r, ops)
      BY <1>1, <1>2, <2>1, <3>1 DEF Without
    <3> QED  BY <1>1, <2>1, <2>2, <3>1, <3>2
  <2>3. CASE Head(q).op \notin ops
    <3>1. i # 1
      BY <1>1, <1>4, <2>1, <2>3
    <3>2. i - 1 \in 1 .. Len(r) /\ r[i - 1] = g
      BY <1>1, <1>2, <2>1, <3>1
    <3>3. ASSUME NEW j \in 1 .. Len(r), r[j].op \in ops PROVE j = i - 1
      <4>1. j + 1 = i
        BY <1>1, <1>2, <2>1, <3>3
      <4> QED  BY <1>1, <4>1
    <3> QED  BY <2>3, <3>2, <3>3 DEF Lone
  <2> QED  BY <2>2, <2>3
<1> QED  BY <1>3, <1>4 DEF r

LEMMA FollowedKeeps ==
  ASSUME NEW q \in Seq(Handlers), NEW r \in Seq(Handlers), Followed(q, r),
         NEW ops, ops \cap Prompts = {}
  PROVE  /\ Without(q, ops) <=> Without(r, ops)
         /\ \A g : g.op \in ops => (Lone(q, ops, g) <=> Lone(r, ops, g))
<1>1. Len(q) \in Nat /\ Len(r) \in Nat
  BY LenProperties
<1>2. /\ \A i \in 1 .. Len(q) : i \in 1 .. Len(r) /\ r[i] = q[i]
      /\ \A i \in 1 .. Len(r) : r[i].op \in ops => i \in 1 .. Len(q)
  <2>1. \A i \in 1 .. Len(q) : i \in 1 .. Len(r) /\ r[i] = q[i]
    BY <1>1 DEF Followed
  <2>2. \A i \in 1 .. Len(r) : i \in 1 .. Len(q) \/ r[i].op \in Prompts
    BY <1>1 DEF Followed
  <2> QED  BY <2>1, <2>2
<1>3. Without(q, ops) <=> Without(r, ops)
  BY <1>2 DEF Without
<1>4. ASSUME NEW g, g.op \in ops PROVE Lone(q, ops, g) <=> Lone(r, ops, g)
  <2>1. ASSUME Lone(q, ops, g) PROVE Lone(r, ops, g)
    <3>1. PICK i \in 1 .. Len(q) :
            q[i] = g /\ \A j \in 1 .. Len(q) : q[j].op \in ops => j = i
      BY <2>1 DEF Lone
    <3>2. i \in 1 .. Len(r) /\ r[i] = g
      BY <1>2, <3>1
    <3>3. \A j \in 1 .. Len(r) : r[j].op \in ops => j = i
      BY <1>2, <3>1
    <3> QED  BY <3>2, <3>3 DEF Lone
  <2>2. ASSUME Lone(r, ops, g) PROVE Lone(q, ops, g)
    <3>1. PICK i \in 1 .. Len(r) :
            r[i] = g /\ \A j \in 1 .. Len(r) : r[j].op \in ops => j = i
      BY <2>2 DEF Lone
    <3>2. i \in 1 .. Len(q) /\ q[i] = g
      BY <1>2, <1>4, <3>1
    <3>3. \A j \in 1 .. Len(q) : q[j].op \in ops => j = i
      BY <1>2, <3>1
    <3> QED  BY <3>2, <3>3 DEF Lone
  <2> QED  BY <2>1, <2>2
<1> QED  BY <1>3, <1>4

LEMMA FollowedTwice ==
  ASSUME NEW q \in Seq(Handlers), NEW r \in Seq(Handlers),
         NEW t \in Seq(Handlers), Followed(q, r), Followed(r, t)
  PROVE  Followed(q, t)
<1>1. Len(q) \in Nat /\ Len(r) \in Nat /\ Len(t) \in Nat
  BY LenProperties
<1>2. Len(q) <= Len(t) /\ \A i \in 1 .. Len(q) : t[i] = q[i]
  BY <1>1 DEF Followed
<1>3. ASSUME NEW i \in 1 .. Len(t), Len(q) < i PROVE t[i].op \in Prompts
  <2>1. CASE Len(r) < i
    BY <2>1 DEF Followed
  <2>2. CASE ~(Len(r) < i)
    <3>1. i \in 1 .. Len(r)
      BY <1>1, <2>2
    <3> QED  BY <1>3, <3>1 DEF Followed
  <2> QED  BY <2>1, <2>2
<1> QED  BY <1>2, <1>3 DEF Followed

-----------------------------------------------------------------------------
(* t is s but for the terminal: its reads, its buffer and its handlers.    *)
Aside(s, t) ==
  /\ t.socket = s.socket /\ t.resolving = s.resolving
  /\ t.connecting = s.connecting /\ t.receiving = s.receiving
  /\ t.writing = s.writing /\ t.timer = s.timer
  /\ t.incomming_bytes_ = s.incomming_bytes_
  /\ t.outbound_messages_ = s.outbound_messages_
  /\ t.failure = s.failure
  /\ Followed(s.ready, t.ready)

LEMMA ReadyType ==
  ASSUME NEW s \in ProcessStates
  PROVE  s.ready \in Seq(Handlers) /\ Len(s.ready) \in Nat
BY LenProperties DEF ProcessStates, Handlers

LEMMA AsideSelf ==
  ASSUME NEW s \in ProcessStates, NEW t \in ProcessStates,
         t.socket = s.socket, t.resolving = s.resolving,
         t.connecting = s.connecting, t.receiving = s.receiving,
         t.writing = s.writing, t.timer = s.timer,
         t.incomming_bytes_ = s.incomming_bytes_,
         t.outbound_messages_ = s.outbound_messages_,
         t.failure = s.failure, t.ready = s.ready
  PROVE  Aside(s, t)
<1>1. Followed(s.ready, s.ready)
  BY ReadyType DEF Followed
<1> QED  BY <1>1 DEF Aside

LEMMA AsideTwice ==
  ASSUME NEW s \in ProcessStates, NEW t \in ProcessStates,
         NEW u \in ProcessStates, Aside(s, t), Aside(t, u)
  PROVE  Aside(s, u)
<1>1. Followed(s.ready, u.ready)
  BY ReadyType, FollowedTwice DEF Aside
<1> QED  BY <1>1 DEF Aside

LEMMA PromptAside ==
  ASSUME NEW s \in ProcessStates, NEW p \in Prompts
  PROVE  Prompt(s, p) \in ProcessStates /\ Aside(s, Prompt(s, p))
<1> DEFINE t == Prompt(s, p)
<1>1. t \in ProcessStates
  BY PromptEffect
<1>2. CASE s.input_buffer_ # <<>>
  <2> DEFINE h == LineRead(p, Head(s.input_buffer_))
  <2>1. Head(s.input_buffer_) \in Lines
    BY <1>2, HeadTailProperties DEF ProcessStates
  <2>2. h \in Handlers
    BY <2>1, HandlerTypes
  <2>3. h.op \in Prompts
    BY DEF LineRead, Done, Failed
  <2>4. t = [s EXCEPT !.ready = Append(s.ready, h)]
    BY <1>2 DEF Prompt, Post
  <2> HIDE DEF h
  <2>5. Followed(s.ready, Append(s.ready, h))
    BY <2>2, <2>3, ReadyType, AppendProperties DEF Followed
  <2> QED  BY <1>1, <2>4, <2>5 DEF Aside, ProcessStates
<1>3. CASE s.input_buffer_ = <<>>
  <2>1. t = [s EXCEPT !.stdin = t.stdin]
    BY <1>3 DEF Prompt, ProcessStates
  <2> HIDE DEF t
  <2>2. Aside(s, t)
    BY <1>1, <2>1, AsideSelf DEF ProcessStates
  <2> QED  BY <1>1, <2>2 DEF t
<1> QED  BY <1>1, <1>2, <1>3

LEMMA DispatchAside ==
  ASSUME NEW s \in ProcessStates, NEW m \in ServerCalls
  PROVE  Dispatch(s, m) \in ProcessStates /\ Aside(s, Dispatch(s, m))
<1>1. Dispatch(s, m) \in {s, read_username(s), read_message(s)}
  BY DEF Dispatch, ServerCalls
<1>2. Aside(s, s)
  BY AsideSelf
<1>3. /\ read_username(s) \in ProcessStates /\ Aside(s, read_username(s))
      /\ read_message(s) \in ProcessStates /\ Aside(s, read_message(s))
  BY PromptAside DEF read_username, read_message, Prompts
<1> QED  BY <1>1, <1>2, <1>3

LEMMA TakeLineAside ==
  ASSUME NEW s \in ProcessStates
  PROVE  TakeLine(s) \in ProcessStates /\ Aside(s, TakeLine(s))
<1> DEFINE t == TakeLine(s)
<1>1. t \in ProcessStates
  BY TakeLineEffect
<1>2. t = [s EXCEPT !.input_buffer_ = t.input_buffer_]
  BY DEF TakeLine, ProcessStates
<1> HIDE DEF t
<1>3. Aside(s, t)
  BY <1>1, <1>2, AsideSelf DEF ProcessStates
<1> QED  BY <1>1, <1>3 DEF t

(* A handler of the terminal leaves all else alone, unless it calls.       *)
LEMMA TerminalEffect ==
  ASSUME NEW s \in ProcessStates, NEW h \in Handlers, h.op \in Prompts
  PROVE  \/ Handle(s, h) \in ProcessStates /\ Aside(s, Handle(s, h))
         \/ \E t \in ProcessStates, m \in Requests :
              Aside(s, t) /\ Handle(s, h) = write(t, m)
<1> DEFINE t == TakeLine(s)
<1>1. t \in ProcessStates /\ Aside(s, t) /\ LineIn(s) \in Lines
  BY TakeLineAside, TakeLineEffect
<1>2. LineIn(s) # NoText => setUserNameCall(LineIn(s)) \in Requests
  BY <1>1 DEF Lines, setUserNameCall, Requests
<1>3. CASE h.op = "read_username"
  <2>1. \/ Handle(s, h) \in {s, read_username(t)}
        \/ /\ Handle(s, h) = write(t, setUserNameCall(LineIn(s)))
           /\ LineIn(s) # NoText
    BY <1>3 DEF Handle, onUserName
  <2> HIDE DEF t
  <2>2. read_username(t) \in ProcessStates /\ Aside(t, read_username(t))
    BY <1>1, PromptAside DEF read_username, Prompts
  <2>3. Aside(s, read_username(t)) /\ Aside(s, s)
    BY <1>1, <2>2, AsideTwice, AsideSelf
  <2> QED  BY <1>1, <1>2, <2>1, <2>2, <2>3
<1>4. CASE h.op = "read_message"
  <2>1. Handle(s, h) \in {t, read_message(t)}
    BY <1>4 DEF Handle, onMessageLine
  <2> HIDE DEF t
  <2>2. read_message(t) \in ProcessStates /\ Aside(t, read_message(t))
    BY <1>1, PromptAside DEF read_message, Prompts
  <2>3. Aside(s, read_message(t))
    BY <1>1, <2>2, AsideTwice
  <2> QED  BY <1>1, <2>1, <2>2, <2>3
<1> QED  BY <1>3, <1>4 DEF Prompts

-----------------------------------------------------------------------------
(* Where a client stands, as long as nothing is called without a           *)
(* connection.  It tries to get one, in a single place; ...                *)
NoCall(s) == ~s.writing /\ s.outbound_messages_ = EmptyQueue

Place(s, timer, resolving, connecting, socket) ==
  /\ s.timer = timer /\ s.resolving = resolving
  /\ s.connecting = connecting /\ s.socket = socket

Trying(s) ==
  /\ NoCall(s) /\ Without(s.ready, {"write"})
  /\ s.receiving = 0 /\ s.incomming_bytes_ = <<>>
  /\ \/ /\ \/ Place(s, "elapsing", FALSE, FALSE, "closed")
           \/ Place(s, "off", TRUE, FALSE, "closed")
           \/ Place(s, "off", FALSE, TRUE, "open")
        /\ Without(s.ready, AttemptOps)
     \/ /\ Place(s, "off", FALSE, FALSE, "closed")
        /\ \/ Lone(s.ready, AttemptOps, Done("timer"))
           \/ Lone(s.ready, AttemptOps, Done("resolve"))

(* ... it has one, with one write under way if there is a call to write,   *)
(* and with one receive, once the handler of the connect has run; ...      *)
Calling(s) ==
  IF s.outbound_messages_.msgs = <<>>
    THEN ~s.writing /\ Without(s.ready, {"write"})
    ELSE \/ s.writing /\ Without(s.ready, {"write"})
         \/ /\ ~s.writing
            /\ \/ Lone(s.ready, {"write"}, Done("write"))
               \/ Lone(s.ready, {"write"}, Failed("write"))

Hearing(s) ==
  \/ s.receiving = 0 /\ Lone(s.ready, AttemptOps, Done("connect"))
  \/ s.receiving = 1 /\ Without(s.ready, AttemptOps)
  \/ /\ s.receiving = 0
     /\ \E h \in Handlers : h.op = "receive" /\ Lone(s.ready, AttemptOps, h)

Up(s) ==
  /\ Place(s, "off", FALSE, FALSE, "connected")
  /\ Calling(s) /\ Hearing(s)

Online(s) == Up(s) /\ s.incomming_bytes_ = <<>>

(* ... or it has lost one, and the timer is set.  Handlers of the lost one *)
(* may still be ready, and what was received be taken for what is open.    *)
OldTimers(s) ==
  \A i \in 1 .. Len(s.ready) : s.ready[i].op = "timer" => ~s.ready[i].ok

Lost(s) ==
  /\ NoCall(s) /\ s.receiving = 0
  /\ Place(s, "set", FALSE, FALSE, "closed")
  /\ Without(s.ready, {"resolve"}) /\ OldTimers(s)
  /\ s.incomming_bytes_ # <<>> => ~Without(s.ready, {"receive"})

Placed(s) == Trying(s) \/ Online(s) \/ Lost(s)

(* close() leaves nothing outstanding on the socket.                       *)
LEMMA CloseFields ==
  ASSUME NEW s \in ProcessStates
  PROVE  /\ close(s) \in ProcessStates
         /\ NoCall(close(s)) /\ close(s).receiving = 0
         /\ Place(close(s), s.timer, s.resolving, FALSE, "closed")
         /\ close(s).incomming_bytes_ = <<>>
         /\ close(s).failure = s.failure
         /\ \A i \in 1 .. Len(close(s).ready) :
              \/ \E j \in 1 .. Len(s.ready) : close(s).ready[i] = s.ready[j]
              \/ close(s).ready[i] \in
                   {Failed("receive"), Failed("connect"), Failed("write")}
<1> DEFINE r == [i \in 1 .. s.receiving |-> Failed("receive")]
           k == IF s.connecting THEN <<Failed("connect")>> ELSE <<>>
           w == IF s.writing THEN <<Failed("write")>> ELSE <<>>
           q == s.ready
           all == q \o r \o k \o w
           old == {Failed("receive"), Failed("connect"), Failed("write")}
<1>1. /\ Failed("receive") \in Handlers /\ Failed("connect") \in Handlers
      /\ Failed("write") \in Handlers
  BY HandlerTypes DEF Ops
<1>2. s.receiving \in Nat /\ q \in Seq(Handlers)
  BY DEF ProcessStates, Handlers
<1>3. r \in Seq(Handlers) /\ k \in Seq(Handlers) /\ w \in Seq(Handlers)
  BY <1>1, <1>2
<1>4. /\ \A i \in 1 .. Len(r) : r[i] \in old
      /\ \A i \in 1 .. Len(k) : k[i] \in old
      /\ \A i \in 1 .. Len(w) : w[i] \in old
  BY <1>2
<1>5. close(s) \in ProcessStates
  BY CloseEffect
<1>6. /\ close(s).ready = all /\ NoCall(close(s)) /\ close(s).receiving = 0
      /\ Place(close(s), s.timer, s.resolving, FALSE, "closed")
      /\ close(s).incomming_bytes_ = <<>> /\ close(s).failure = s.failure
  <2> DEFINE t == CloseSocket(s)
  <2>1. /\ t \in ProcessStates
        /\ t.receiving = 0 /\ t.writing = FALSE
        /\ Place(t, s.timer, s.resolving, FALSE, "closed")
        /\ t.failure = s.failure
    <3>1. t \in ProcessStates
      BY CloseEffect
    <3>2. t.timer = s.timer /\ t.resolving = s.resolving
      BY DEF CloseSocket, ProcessStates
    <3>3. t.failure = s.failure
      BY DEF CloseSocket, ProcessStates
    <3>4. t.receiving = 0 /\ t.writing = FALSE
      BY DEF CloseSocket, ProcessStates
    <3>5. t.connecting = FALSE /\ t.socket = "closed"
      BY DEF CloseSocket, ProcessStates
    <3> QED  BY <3>1, <3>2, <3>3, <3>4, <3>5 DEF Place
  <2>2. t.ready = all
    BY DEF CloseSocket, ProcessStates
  <2> HIDE DEF t, all
  <2>3. close(s) = [t EXCEPT !.incomming_bytes_ = <<>>,
                             !.outbound_messages_ = EmptyQueue]
    BY DEF close, t
  <2> QED  BY ZenonT(60), <2>1, <2>2, <2>3 DEF ProcessStates, NoCall, Place
<1> HIDE DEF r, k, w, q, old
<1>7. ASSUME NEW u \in Seq(Handlers), NEW v \in Seq(Handlers),
             NEW i \in 1 .. Len(u \o v)
      PROVE  \/ \E j \in 1 .. Len(u) : (u \o v)[i] = u[j]
             \/ \E j \in 1 .. Len(v) : (u \o v)[i] = v[j]
  <2>1. Len(u) \in Nat /\ Len(v) \in Nat /\ i \in 1 .. Len(u) + Len(v)
    BY LenProperties, ConcatProperties
  <2>2. (u \o v)[i] = IF i <= Len(u) THEN u[i] ELSE v[i - Len(u)]
    BY <2>1, ConcatProperties
  <2>3. i <= Len(u) => i \in 1 .. Len(u)
    BY <2>1
  <2>4. ~(i <= Len(u)) => i - Len(u) \in 1 .. Len(v)
    BY <2>1
  <2> QED  BY <2>2, <2>3, <2>4
<1>8. q \o r \in Seq(Handlers) /\ q \o r \o k \in Seq(Handlers)
  BY <1>2, <1>3, ConcatProperties
<1>9. \A i \in 1 .. Len(q \o r) :
        (\E j \in 1 .. Len(q) : (q \o r)[i] = q[j]) \/ (q \o r)[i] \in old
  BY <1>2, <1>3, <1>4, <1>7
<1>10. \A i \in 1 .. Len(q \o r \o k) :
         \/ \E j \in 1 .. Len(q) : (q \o r \o k)[i] = q[j]
         \/ (q \o r \o k)[i] \in old
  <2> DEFINE u == q \o r
  <2> HIDE DEF u
  <2>1. \A i \in 1 .. Len(u \o k) : \/ \E j \in 1 .. Len(u) : (u \o k)[i] = u[j]
                                    \/ (u \o k)[i] \in old
    BY <1>3, <1>4, <1>7, <1>8 DEF u
  <2>2. \A i \in 1 .. Len(u) : (\E j \in 1 .. Len(q) : u[i] = q[j]) \/ u[i] \in old
    BY <1>9 DEF u
  <2>3. \A i \in 1 .. Len(u \o k) : \/ \E j \in 1 .. Len(q) : (u \o k)[i] = q[j]
                                    \/ (u \o k)[i] \in old
    BY <2>1, <2>2
  <2> QED  BY <2>3 DEF u
<1>11. \A i \in 1 .. Len(all) :
         (\E j \in 1 .. Len(q) : all[i] = q[j]) \/ all[i] \in old
  <2> DEFINE u == q \o r \o k
  <2> HIDE DEF u
  <2>1. \A i \in 1 .. Len(u \o w) : \/ \E j \in 1 .. Len(u) : (u \o w)[i] = u[j]
                                    \/ (u \o w)[i] \in old
    <3>1. u \in Seq(Handlers) /\ w \in Seq(Handlers)
      BY <1>3, <1>8 DEF u
    <3>2. ASSUME NEW i \in 1 .. Len(u \o w)
          PROVE  \/ \E j \in 1 .. Len(u) : (u \o w)[i] = u[j]
                 \/ \E j \in 1 .. Len(w) : (u \o w)[i] = w[j]
      BY <1>7, <3>1, Zenon
    <3> QED  BY <1>4, <3>2
  <2>2. \A i \in 1 .. Len(u) : (\E j \in 1 .. Len(q) : u[i] = q[j]) \/ u[i] \in old
    BY <1>10 DEF u
  <2>3. \A i \in 1 .. Len(u \o w) : \/ \E j \in 1 .. Len(q) : (u \o w)[i] = q[j]
                                    \/ (u \o w)[i] \in old
    BY <2>1, <2>2
  <2> QED  BY <2>3 DEF u
<1> HIDE DEF all
<1> QED  BY <1>5, <1>6, <1>11 DEF old, q

(* An error, while the client does not resolve, leaves it lost.            *)
LEMMA ErrorLoses ==
  ASSUME NEW s \in ProcessStates, ~s.resolving,
         Without(s.ready, {"resolve"}), OldTimers(s)
  PROVE  /\ close(on_error(s)) \in ProcessStates
         /\ Lost(close(on_error(s)))
         /\ close(on_error(s)).failure = s.failure
<1> DEFINE t == on_error(s)
           u == close(t)
<1>1. /\ Failed("timer") \in Handlers
      /\ ~Failed("timer").ok /\ Failed("timer").op = "timer"
      /\ Failed("receive").op = "receive" /\ Failed("connect").op = "connect"
      /\ Failed("write").op = "write"
  BY HandlerTypes DEF Ops, Failed
<1>2. /\ t \in ProcessStates /\ t.timer = "set"
      /\ t.resolving = s.resolving /\ t.failure = s.failure
      /\ t.ready \in {s.ready, Append(s.ready, Failed("timer"))}
  <2>1. t \in ProcessStates
    BY ErrorEffect
  <2>2. CASE s.timer = "off"
    BY <2>1, <2>2 DEF on_error, reconnect_in, ProcessStates
  <2>3. CASE s.timer # "off"
    <3>1. t = [Post(s, Failed("timer")) EXCEPT !.timer = "set"]
      BY <2>3 DEF on_error, reconnect_in
    <3> HIDE DEF t
    <3> QED  BY ZenonT(60), <2>1, <3>1 DEF Post, ProcessStates
  <2> QED  BY <2>2, <2>3
<1>3. \A i \in 1 .. Len(t.ready) : t.ready[i].op # "resolve"
                                   /\ (t.ready[i].op = "timer" => ~t.ready[i].ok)
  <2>1. CASE t.ready = s.ready
    BY <2>1 DEF Without, OldTimers
  <2>2. CASE t.ready = Append(s.ready, Failed("timer"))
    <3> DEFINE r == Append(s.ready, Failed("timer"))
    <3>1. /\ Len(r) = Len(s.ready) + 1 /\ r[Len(s.ready) + 1] = Failed("timer")
          /\ \A i \in 1 .. Len(s.ready) : r[i] = s.ready[i]
      BY <1>1, ReadyType, AppendProperties
    <3>2. \A i \in 1 .. Len(r) : i = Len(s.ready) + 1 \/ i \in 1 .. Len(s.ready)
      BY <3>1, ReadyType
    <3> HIDE DEF r, t
    <3>3. \A i \in 1 .. Len(r) : r[i].op # "resolve" /\ (r[i].op = "timer" => ~r[i].ok)
      BY <1>1, <3>1, <3>2 DEF Without, OldTimers
    <3> QED  BY <2>2, <3>3 DEF r
  <2> QED  BY <1>2, <2>1, <2>2
<1> HIDE DEF t
<1>4. /\ u \in ProcessStates /\ NoCall(u) /\ u.receiving = 0
      /\ Place(u, "set", FALSE, FALSE, "closed")
      /\ u.incomming_bytes_ = <<>> /\ u.failure = s.failure
  <2>1. t.resolving = FALSE
    BY <1>2 DEF ProcessStates
  <2> QED  BY <1>2, <2>1, CloseFields
<1>5. \A i \in 1 .. Len(u.ready) :
        \/ \E j \in 1 .. Len(t.ready) : u.ready[i] = t.ready[j]
        \/ u.ready[i] \in {Failed("receive"), Failed("connect"), Failed("write")}
  BY <1>2, CloseFields
<1> HIDE DEF u
<1>6. \A i \in 1 .. Len(u.ready) : u.ready[i].op # "resolve"
                                   /\ (u.ready[i].op = "timer" => ~u.ready[i].ok)
  BY <1>1, <1>3, <1>5
<1> QED  BY <1>4, <1>6 DEF u, t, Lost, Without, OldTimers

(* The handlers of the terminal move nothing of this.                      *)
LEMMA AsidePlaced ==
  ASSUME NEW s \in ProcessStates, NEW t \in ProcessStates, Aside(s, t)
  PROVE  /\ Trying(s) => Trying(t)
         /\ Up(s) => Up(t)
         /\ Online(s) => Online(t)
         /\ Lost(s) => Lost(t)
<1>1. /\ s.ready \in Seq(Handlers) /\ t.ready \in Seq(Handlers)
      /\ Len(s.ready) \in Nat /\ Len(t.ready) \in Nat
      /\ Followed(s.ready, t.ready)
  BY ReadyType DEF Aside
<1>2. /\ AttemptOps \cap Prompts = {} /\ {"write"} \cap Prompts = {}
      /\ {"resolve"} \cap Prompts = {} /\ {"receive"} \cap Prompts = {}
  BY DEF AttemptOps, Prompts
<1>3. /\ Without(s.ready, AttemptOps) <=> Without(t.ready, AttemptOps)
      /\ Without(s.ready, {"write"}) <=> Without(t.ready, {"write"})
      /\ Without(s.ready, {"resolve"}) <=> Without(t.ready, {"resolve"})
      /\ Without(s.ready, {"receive"}) <=> Without(t.ready, {"receive"})
  BY <1>1, <1>2, FollowedKeeps
<1>4. /\ \A g : g.op \in AttemptOps =>
           (Lone(s.ready, AttemptOps, g) <=> Lone(t.ready, AttemptOps, g))
      /\ \A g : g.op \in {"write"} =>
           (Lone(s.ready, {"write"}, g) <=> Lone(t.ready, {"write"}, g))
  BY <1>1, <1>2, FollowedKeeps
<1>5. /\ Done("timer").op \in AttemptOps /\ Done("resolve").op \in AttemptOps
      /\ Done("connect").op \in AttemptOps
      /\ Done("write").op \in {"write"} /\ Failed("write").op \in {"write"}
      /\ \A h \in Handlers : h.op = "receive" => h.op \in AttemptOps
  BY HandlerTypes DEF AttemptOps
<1>6. Trying(s) => Trying(t)
  BY <1>3, <1>4, <1>5 DEF Trying, NoCall, Place, Aside
<1>7. Calling(s) => Calling(t)
  BY <1>3, <1>4, <1>5 DEF Calling, Aside
<1>8. Hearing(s) => Hearing(t)
  BY <1>3, <1>4, <1>5 DEF Hearing, Aside
<1>9. (Up(s) => Up(t)) /\ (Online(s) => Online(t))
  BY <1>7, <1>8 DEF Up, Online, Place, Aside
<1>10. OldTimers(s) => OldTimers(t)
  <2> SUFFICES ASSUME OldTimers(s), NEW i \in 1 .. Len(t.ready),
                      t.ready[i].op = "timer"
               PROVE  ~t.ready[i].ok
    BY DEF OldTimers
  <2>1. i \in 1 .. Len(s.ready)
    BY <1>1 DEF Followed, Prompts
  <2>2. t.ready[i] = s.ready[i]
    BY <1>1, <2>1 DEF Followed
  <2> QED  BY <2>1, <2>2 DEF OldTimers
<1>11. Lost(s) => Lost(t)
  BY <1>3, <1>10 DEF Lost, NoCall, Place, Aside
<1> QED  BY <1>6, <1>9, <1>11

(* What write() does to the list and to the rest of the process.           *)
LEMMA WriteCallFields ==
  ASSUME NEW s \in ProcessStates, NEW m \in Requests
  PROVE  /\ write(s, m).outbound_messages_.msgs
              = Append(s.outbound_messages_.msgs, m)
         /\ write(s, m) \in ProcessStates
         /\ isOpen(s) =>
              /\ write(s, m).ready = s.ready
              /\ write(s, m).receiving = s.receiving
              /\ write(s, m).incomming_bytes_ = s.incomming_bytes_
              /\ write(s, m).failure = s.failure
              /\ Place(write(s, m), s.timer, s.resolving, s.connecting, s.socket)
              /\ s.outbound_messages_.msgs = <<>> => write(s, m).writing
              /\ s.outbound_messages_.msgs # <<>> =>
                   /\ write(s, m).writing = s.writing
                   /\ write(s, m).outbound_messages_
                        = PushBack(s.outbound_messages_, m)
<1> DEFINE q == PushBack(s.outbound_messages_, m)
           t == [s EXCEPT !.outbound_messages_ = q]
           u == write(s, m)
<1>1. s.outbound_messages_ \in Queues(Requests)
  BY DEF ProcessStates
<1>2. /\ q \in Queues(Requests)
      /\ q.msgs = Append(s.outbound_messages_.msgs, m)
      /\ ListSize(q) = 1 <=> s.outbound_messages_.msgs = <<>>
  BY <1>1, PushBackProperties
<1>3. Consolidate(q).msgs = q.msgs
  BY <1>2, ConsolidateProperties
<1>4. u \in ProcessStates
  BY WriteCallEffect
<1> HIDE DEF q
<1>5. t.outbound_messages_ = q
  BY DEF ProcessStates
<1>6. u = IF ListSize(q) = 1 THEN async_write_one(t) ELSE t
  BY <1>5 DEF write, q
<1>7. CASE s.outbound_messages_.msgs # <<>>
  <2>1. u = t
    BY <1>2, <1>6, <1>7
  <2> HIDE DEF u
  <2> QED  BY <1>2, <1>4, <1>7, <2>1 DEF ProcessStates, Place, u, q
<1>8. CASE s.outbound_messages_.msgs = <<>>
  <2> DEFINE v == [s EXCEPT !.outbound_messages_ = Consolidate(q)]
  <2>1. u = IF isOpen(s) THEN [v EXCEPT !.writing = TRUE]
                         ELSE Post(v, Failed("write"))
    <3>1. u = async_write_one(t)
      BY <1>2, <1>6, <1>8
    <3>2. [t EXCEPT !.outbound_messages_ = Consolidate(@)] = v /\ isOpen(t) = isOpen(s)
      BY DEF ProcessStates, isOpen
    <3> HIDE DEF t, v, u
    <3> QED  BY <3>1, <3>2 DEF async_write_one
  <2> HIDE DEF u
  <2>2. u.outbound_messages_ = Consolidate(q)
    <3>1. CASE isOpen(s)
      BY <2>1, <3>1 DEF ProcessStates
    <3>2. CASE ~isOpen(s)
      BY <2>1, <3>2 DEF Post, ProcessStates
    <3> QED  BY <3>1, <3>2
  <2>3. ASSUME isOpen(s)
        PROVE  /\ u.ready = s.ready /\ u.receiving = s.receiving
               /\ u.incomming_bytes_ = s.incomming_bytes_
               /\ u.failure = s.failure /\ u.writing
               /\ Place(u, s.timer, s.resolving, s.connecting, s.socket)
    BY <2>1, <2>3 DEF ProcessStates, Place
  <2> QED  BY <1>2, <1>3, <1>4, <1>8, <2>2, <2>3 DEF u
<1> QED  BY <1>7, <1>8

(* update() dispatches what was received, while the socket is open.        *)
Updated(s, t) ==
  IF isOpen(s) THEN Aside([s EXCEPT !.incomming_bytes_ = <<>>], t) ELSE t = s

LEMMA UpdatedAside ==
  ASSUME NEW s \in ProcessStates, NEW t \in ProcessStates, Updated(s, t),
         isOpen(s) => s.incomming_bytes_ = <<>>
  PROVE  Aside(s, t)
<1>1. CASE isOpen(s)
  <2>1. [s EXCEPT !.incomming_bytes_ = <<>>] = s
    BY <1>1 DEF ProcessStates
  <2> QED  BY <1>1, <2>1 DEF Updated
<1>2. CASE ~isOpen(s)
  BY <1>2, AsideSelf DEF Updated
<1> QED  BY <1>1, <1>2

-----------------------------------------------------------------------------
(* The first of the ready handlers runs, and update() after it.            *)
Next1(s) == [s EXCEPT !.ready = Tail(@)]
Handled(s) == Handle(Next1(s), Head(s.ready))

(* The handler has made a call.                                            *)
Called(s) ==
  Len(Handled(s).outbound_messages_.msgs) > Len(s.outbound_messages_.msgs)

LEMMA NextFields ==
  ASSUME NEW s \in ProcessStates, s.ready # <<>>
  PROVE  /\ Next1(s) \in ProcessStates /\ Head(s.ready) \in Handlers
         /\ Handled(s) \in ProcessStates
         /\ Next1(s).ready = Tail(s.ready)
         /\ Next1(s).socket = s.socket /\ Next1(s).resolving = s.resolving
         /\ Next1(s).connecting = s.connecting
         /\ Next1(s).receiving = s.receiving
         /\ Next1(s).writing = s.writing /\ Next1(s).timer = s.timer
         /\ Next1(s).incomming_bytes_ = s.incomming_bytes_
         /\ Next1(s).outbound_messages_ = s.outbound_messages_
         /\ Next1(s).failure = s.failure
<1>1. Next1(s) \in ProcessStates /\ Head(s.ready) \in Handlers
  BY HeadEffect DEF Next1
<1>2. Handled(s) \in ProcessStates
  BY <1>1, HandleEffect DEF Handled
<1> QED  BY <1>1, <1>2 DEF Next1, ProcessStates

(* A handler of the terminal that calls adds to the list.                  *)
LEMMA TerminalStep ==
  ASSUME NEW s \in ProcessStates, s.ready # <<>>, Head(s.ready).op \in Prompts
  PROVE  \/ Aside(Next1(s), Handled(s)) /\ ~Called(s)
         \/ /\ Called(s)
            /\ \E t \in ProcessStates, m \in Requests :
                 Aside(Next1(s), t) /\ Handled(s) = write(t, m)
<1>1. /\ Next1(s) \in ProcessStates /\ Head(s.ready) \in Handlers
      /\ Next1(s).outbound_messages_ = s.outbound_messages_
  BY NextFields
<1>2. s.outbound_messages_.msgs \in Seq(Requests)
  BY DEF ProcessStates, Queues
<1>3. Len(s.outbound_messages_.msgs) \in Nat
  BY <1>2, LenProperties
<1>4. CASE Aside(Next1(s), Handled(s))
  <2>1. Handled(s).outbound_messages_ = s.outbound_messages_
    BY <1>1, <1>4 DEF Aside
  <2> QED  BY <1>3, <1>4, <2>1 DEF Called
<1>5. ASSUME NEW t \in ProcessStates, NEW m \in Requests,
             Aside(Next1(s), t), Handled(s) = write(t, m)
      PROVE  Called(s)
  <2>1. t.outbound_messages_.msgs = s.outbound_messages_.msgs
    BY <1>1, <1>5 DEF Aside
  <2>2. Handled(s).outbound_messages_.msgs
          = Append(s.outbound_messages_.msgs, m)
    <3>1. write(t, m).outbound_messages_.msgs
            = Append(t.outbound_messages_.msgs, m)
      BY WriteCallFields, Zenon
    <3> QED  BY <1>5, <2>1, <3>1, Zenon
  <2>3. Len(Append(s.outbound_messages_.msgs, m))
          = Len(s.outbound_messages_.msgs) + 1
    BY <1>2, AppendProperties
  <2> QED  BY <1>3, <2>2, <2>3 DEF Called
<1> QED  BY <1>1, <1>4, <1>5, TerminalEffect DEF Handled

(* While it tries, a handler takes the attempt one place further.          *)
LEMMA TryingStep ==
  ASSUME NEW s \in ProcessStates, s.ready # <<>>, Trying(s), ~Called(s),
         NEW t \in ProcessStates, Updated(Handled(s), t)
  PROVE  /\ Trying(t) /\ t.failure = s.failure
         /\ Handled(s).incomming_bytes_ = <<>>
         /\ Handled(s).socket # "connected"
<1> DEFINE h == Head(s.ready)
           n == Next1(s)
           u == Handled(s)
<1>1. /\ n \in ProcessStates /\ h \in Handlers /\ u \in ProcessStates
      /\ n.ready = Tail(s.ready)
      /\ n.socket = s.socket /\ n.resolving = s.resolving
      /\ n.connecting = s.connecting /\ n.receiving = s.receiving
      /\ n.writing = s.writing /\ n.timer = s.timer
      /\ n.incomming_bytes_ = s.incomming_bytes_
      /\ n.outbound_messages_ = s.outbound_messages_
      /\ n.failure = s.failure
  BY NextFields
<1>2. s.ready \in Seq(Handlers)
  BY ReadyType
<1>3. /\ h.op \notin {"write"} /\ Without(n.ready, {"write"})
      /\ Without(s.ready, AttemptOps) =>
           h.op \notin AttemptOps /\ Without(n.ready, AttemptOps)
  BY <1>1, <1>2, Taken DEF Trying
<1>4. \A g : Lone(s.ready, AttemptOps, g) /\ g.op \in AttemptOps =>
        /\ h.op \in AttemptOps => h = g /\ Without(n.ready, AttemptOps)
        /\ h.op \notin AttemptOps => Lone(n.ready, AttemptOps, g)
  <2>1. n.ready = Tail(s.ready)
    BY <1>1
  <2>2. \A g : Lone(s.ready, AttemptOps, g) /\ g.op \in AttemptOps =>
          /\ h.op \in AttemptOps => h = g /\ Without(Tail(s.ready), AttemptOps)
          /\ h.op \notin AttemptOps => Lone(Tail(s.ready), AttemptOps, g)
    BY <1>2, Taken, Zenon
  <2> QED  BY <2>1, <2>2, Zenon
<1>5. /\ Done("timer").op \in AttemptOps /\ Done("resolve").op \in AttemptOps
      /\ Done("timer").op = "timer" /\ Done("resolve").op = "resolve"
      /\ Done("timer").ok /\ Done("resolve").ok
  BY HandlerTypes DEF AttemptOps, Done, Failed
<1>6. h.op \in Prompts \/ h.op \in AttemptOps
  BY <1>1, <1>3 DEF Handlers, Ops, AttemptOps, Prompts
<1>7. /\ Trying(u) /\ u.failure = s.failure
  <2>1. CASE h.op \in Prompts
    <3>1. h.op \notin AttemptOps
      BY <2>1 DEF Prompts, AttemptOps
    <3>2. Trying(n)
      BY <1>1, <1>3, <1>4, <1>5, <3>1 DEF Trying, NoCall, Place
    <3>3. Aside(n, u)
      BY <2>1, TerminalStep
    <3> QED  BY <1>1, <3>2, <3>3, AsidePlaced DEF Aside
  <2>2. CASE h.op \in AttemptOps
    <3>1. /\ Without(n.ready, AttemptOps)
          /\ Place(n, "off", FALSE, FALSE, "closed")
          /\ h = Done("timer") \/ h = Done("resolve")
      BY <1>1, <1>3, <1>4, <1>5, <2>2 DEF Trying, Place
    <3>2. CASE h = Done("timer")
      <4>1. u = [n EXCEPT !.resolving = TRUE]
        BY <1>5, <3>1, <3>2 DEF Handled, Handle, onTimer, open, Place
      <4> HIDE DEF u
      <4> QED  BY ZenonT(60), <1>1, <1>3, <3>1, <4>1
               DEF Trying, NoCall, Place, ProcessStates
    <3>3. CASE h = Done("resolve")
      <4>1. u = async_connect(n)
        BY <1>5, <3>3 DEF Handled, Handle, onResolve
      <4>2. CloseSocket(n).ready = n.ready /\ CloseSocket(n) \in ProcessStates
        BY <1>1, <3>1, CloseIdle, CloseEffect DEF Trying, NoCall, Place
      <4> DEFINE c == CloseSocket(n)
      <4>3. /\ c.receiving = 0 /\ c.writing = FALSE /\ c.timer = n.timer
            /\ c.resolving = n.resolving /\ c.failure = n.failure
            /\ c.incomming_bytes_ = n.incomming_bytes_
            /\ c.outbound_messages_ = n.outbound_messages_
        BY <1>1 DEF CloseSocket, ProcessStates
      <4>4. u = [c EXCEPT !.socket = "open", !.connecting = TRUE]
        BY <4>1 DEF async_connect
      <4> HIDE DEF u, c
      <4>5. /\ u.receiving = 0 /\ u.writing = FALSE /\ u.failure = c.failure
            /\ u.incomming_bytes_ = c.incomming_bytes_
            /\ u.outbound_messages_ = c.outbound_messages_
            /\ u.ready = c.ready /\ u.socket = "open" /\ u.connecting = TRUE
            /\ u.timer = c.timer /\ u.resolving = c.resolving
        BY <4>2, <4>3, <4>4 DEF c, ProcessStates
      <4>6. /\ u.failure = s.failure /\ u.incomming_bytes_ = <<>>
            /\ u.outbound_messages_ = EmptyQueue /\ u.ready = n.ready
            /\ Place(u, "off", FALSE, TRUE, "open")
        BY <1>1, <3>1, <4>2, <4>3, <4>5 DEF c, Trying, NoCall, Place
      <4> QED  BY <1>3, <3>1, <4>5, <4>6 DEF Trying, NoCall
    <3> QED  BY <3>1, <3>2, <3>3
  <2> QED  BY <1>6, <2>1, <2>2
<1> HIDE DEF u
<1>8. u.incomming_bytes_ = <<>> /\ u.socket # "connected"
  BY <1>7 DEF Trying, Place
<1>9. Aside(u, t)
  BY <1>1, <1>8, UpdatedAside DEF u
<1> QED  BY <1>1, <1>7, <1>8, <1>9, AsidePlaced DEF Aside, u

(* What handlers of another kind stand among stays when one is taken, and  *)
(* when one is added.                                                      *)
LEMMA StillAmong ==
  ASSUME NEW q \in Seq(Handlers), NEW ops, ~Without(q, ops)
  PROVE  /\ q # <<>> /\ Head(q).op \notin ops => ~Without(Tail(q), ops)
         /\ \A h \in Handlers : ~Without(Append(q, h), ops)
<1>1. Len(q) \in Nat
  BY LenProperties
<1>2. PICK i \in 1 .. Len(q) : q[i].op \in ops
  BY DEF Without
<1>3. ASSUME q # <<>>, Head(q).op \notin ops PROVE ~Without(Tail(q), ops)
  <2>1. /\ Head(q) = q[1] /\ Len(Tail(q)) = Len(q) - 1
        /\ \A j \in 1 .. Len(Tail(q)) : Tail(q)[j] = q[j + 1]
    BY <1>3, HeadTailProperties
  <2>2. i # 1
    BY <1>2, <1>3, <2>1
  <2>3. i - 1 \in 1 .. Len(Tail(q)) /\ i - 1 + 1 = i
    BY <1>1, <2>1, <2>2
  <2>4. Tail(q)[i - 1] = q[i]
    BY <2>1, <2>3
  <2> QED  BY <1>2, <2>3, <2>4 DEF Without
<1>4. ASSUME NEW h \in Handlers PROVE ~Without(Append(q, h), ops)
  <2>1. i \in 1 .. Len(Append(q, h)) /\ Append(q, h)[i] = q[i]
    BY <1>1, AppendProperties
  <2> QED  BY <1>2, <2>1 DEF Without
<1> QED  BY <1>3, <1>4

LEMMA OldTimersKept ==
  ASSUME NEW s \in ProcessStates, NEW t \in ProcessStates, OldTimers(s),
         \/ s.ready # <<>> /\ t.ready = Tail(s.ready)
         \/ \E h \in Handlers : /\ t.ready = Append(s.ready, h)
                                /\ h.op = "timer" => ~h.ok
  PROVE  OldTimers(t)
<1> SUFFICES ASSUME NEW i \in 1 .. Len(t.ready), t.ready[i].op = "timer"
             PROVE  ~t.ready[i].ok
  BY DEF OldTimers
<1>1. s.ready \in Seq(Handlers) /\ Len(s.ready) \in Nat
  BY ReadyType
<1>2. CASE s.ready # <<>> /\ t.ready = Tail(s.ready)
  <2>1. i + 1 \in 1 .. Len(s.ready) /\ t.ready[i] = s.ready[i + 1]
    BY <1>1, <1>2, HeadTailProperties
  <2> QED  BY <2>1 DEF OldTimers
<1>3. ASSUME NEW h \in Handlers, t.ready = Append(s.ready, h),
             h.op = "timer" => ~h.ok
      PROVE  ~t.ready[i].ok
  <2>1. \/ i = Len(s.ready) + 1 /\ t.ready[i] = h
        \/ i \in 1 .. Len(s.ready) /\ t.ready[i] = s.ready[i]
    BY <1>1, <1>3, AppendProperties
  <2> QED  BY <1>3, <2>1 DEF OldTimers
<1> QED  BY <1>2, <1>3

(* Once it has lost its connection, what still comes of that one changes  *)
(* nothing, unless it removes from a list that close() has emptied.        *)
LEMMA LostStep ==
  ASSUME NEW s \in ProcessStates, s.ready # <<>>, Lost(s), ~Called(s),
         NEW t \in ProcessStates, Updated(Handled(s), t)
  PROVE  ~isOpen(Handled(s)) /\ (t.failure = "none" => Lost(t))
<1> DEFINE h == Head(s.ready)
           n == Next1(s)
           u == Handled(s)
<1>1. /\ n \in ProcessStates /\ h \in Handlers /\ u \in ProcessStates
      /\ n.ready = Tail(s.ready)
      /\ n.socket = s.socket /\ n.resolving = s.resolving
      /\ n.connecting = s.connecting /\ n.receiving = s.receiving
      /\ n.writing = s.writing /\ n.timer = s.timer
      /\ n.incomming_bytes_ = s.incomming_bytes_
      /\ n.outbound_messages_ = s.outbound_messages_
      /\ n.failure = s.failure
  BY NextFields
<1>2. s.ready \in Seq(Handlers)
  BY ReadyType
<1>3. Without(n.ready, {"resolve"}) /\ h.op # "resolve"
  BY <1>1, <1>2, Taken DEF Lost
<1>4. OldTimers(n) /\ (h.op = "timer" => ~h.ok)
  <2>1. OldTimers(n)
    BY <1>1, OldTimersKept DEF Lost
  <2>2. h = s.ready[1] /\ 1 \in 1 .. Len(s.ready)
    BY <1>2, HeadTailProperties, LenProperties, EmptySeq
  <2> QED  BY <2>1, <2>2 DEF Lost, OldTimers
<1>5. h.op # "receive" /\ n.incomming_bytes_ # <<>> =>
        ~Without(n.ready, {"receive"})
  BY <1>1, <1>2, StillAmong DEF Lost
<1>6. Place(n, "set", FALSE, FALSE, "closed") /\ NoCall(n) /\ n.receiving = 0
  BY <1>1 DEF Lost, Place, NoCall
<1>7. Lost(close(on_error(n)))
  BY <1>1, <1>3, <1>4, <1>6, ErrorLoses DEF Place
<1>8. Lost(u) \/ (u.failure # "none" /\ ~isOpen(u))
  <2>1. CASE h.op \in Prompts
    <3>1. Lost(n)
      BY <1>3, <1>4, <1>5, <1>6, <2>1 DEF Lost, Prompts
    <3> QED  BY <1>1, <2>1, <3>1, TerminalStep, AsidePlaced
  <2>2. CASE h.op = "connect"
    <3>1. u = close(on_error(n))
      BY <1>6, <2>2 DEF Handled, Handle, onConnect, isOpen, Place
    <3> QED  BY <1>7, <3>1
  <2>3. CASE h.op = "receive"
    <3>1. CASE ~h.ok
      <4>1. u = close(on_error(n))
        BY <2>3, <3>1 DEF Handled, Handle, on_receive
      <4> QED  BY <1>7, <4>1
    <3>2. CASE h.ok
      <4> DEFINE v == [n EXCEPT !.incomming_bytes_ = @ \o h.got]
      <4>1. u = Post(v, Failed("receive"))
        <5>1. u = async_receive(v)
          BY <2>3, <3>2 DEF Handled, Handle, on_receive
        <5>2. ~isOpen(v)
          BY <1>1, <1>6 DEF isOpen, Place, ProcessStates
        <5> HIDE DEF v
        <5> QED  BY <5>1, <5>2 DEF async_receive
      <4>2. /\ u.ready = Append(n.ready, Failed("receive"))
            /\ u.receiving = 0 /\ NoCall(u)
            /\ Place(u, "set", FALSE, FALSE, "closed")
        <5>1. /\ v.ready = n.ready /\ v.receiving = n.receiving
              /\ v.writing = n.writing /\ v.timer = n.timer
              /\ v.resolving = n.resolving /\ v.connecting = n.connecting
              /\ v.socket = n.socket
              /\ v.outbound_messages_ = n.outbound_messages_
          BY <1>1 DEF ProcessStates
        <5>2. v \in ProcessStates
          <6>1. n.incomming_bytes_ \in Seq(Pieces) /\ h.got \in Seq(Pieces)
            BY <1>1 DEF ProcessStates, Handlers
          <6>2. n.incomming_bytes_ \o h.got \in Seq(Pieces)
            BY <6>1, ConcatProperties
          <6> QED  BY <1>1, <6>2 DEF ProcessStates
        <5> HIDE DEF v, u, n
        <5>3. u = [v EXCEPT !.ready = Append(v.ready, Failed("receive"))]
          BY <4>1 DEF Post
        <5>4. /\ u.receiving = v.receiving /\ u.writing = v.writing
              /\ u.timer = v.timer /\ u.resolving = v.resolving
              /\ u.connecting = v.connecting /\ u.socket = v.socket
              /\ u.outbound_messages_ = v.outbound_messages_
              /\ u.ready = Append(v.ready, Failed("receive"))
          BY <5>2, <5>3 DEF ProcessStates
        <5> QED  BY <1>6, <5>1, <5>4 DEF NoCall, Place
      <4>3. /\ Failed("receive") \in Handlers /\ Failed("receive").op = "receive"
            /\ n.ready \in Seq(Handlers)
        BY <1>1, HandlerTypes, ReadyType DEF Ops
      <4>4. Without(u.ready, {"resolve"}) /\ OldTimers(u)
        BY <1>1, <1>3, <1>4, <4>2, <4>3, Appended, OldTimersKept
      <4>5. ~Without(u.ready, {"receive"})
        <5>1. /\ Len(n.ready) + 1 \in 1 .. Len(u.ready)
              /\ u.ready[Len(n.ready) + 1] = Failed("receive")
          BY <4>2, <4>3, AppendProperties, LenProperties
        <5> QED  BY <4>3, <5>1 DEF Without
      <4> QED  BY <4>2, <4>4, <4>5 DEF Lost
    <3> QED  BY <3>1, <3>2
  <2>4. CASE h.op = "write"
    <3>1. n.outbound_messages_.msgs = <<>>
      BY <1>6 DEF NoCall, EmptyQueue
    <3>2. u = IF ~h.ok THEN close(on_error(n))
                       ELSE [n EXCEPT !.failure = "empty list"]
      BY <2>4, <3>1 DEF Handled, Handle, onWrite
    <3>3. /\ [n EXCEPT !.failure = "empty list"].failure # "none"
          /\ [n EXCEPT !.failure = "empty list"].socket = "closed"
      BY <1>1, <1>6 DEF ProcessStates, Place
    <3> QED  BY <1>7, <3>2, <3>3 DEF isOpen
  <2>5. CASE h.op = "timer"
    <3>1. u = on_error(n)
      BY <1>4, <2>5 DEF Handled, Handle, onTimer
    <3>2. u = [Post(n, Failed("timer")) EXCEPT !.timer = "set"]
      BY <1>6, <3>1 DEF on_error, reconnect_in, Place
    <3>3. /\ u.ready = Append(n.ready, Failed("timer"))
          /\ u.receiving = 0 /\ NoCall(u)
          /\ Place(u, "set", FALSE, FALSE, "closed")
          /\ u.incomming_bytes_ = n.incomming_bytes_
      <4> DEFINE q == Append(n.ready, Failed("timer"))
                 w == [n EXCEPT !.ready = q]
      <4>1. u = [w EXCEPT !.timer = "set"]
        BY <3>2 DEF Post
      <4>2. q \in Seq(Handlers)
        BY <1>1, HandlerTypes, ReadyType, AppendProperties DEF Ops
      <4> HIDE DEF u, n, q
      <4>3. /\ w \in ProcessStates /\ w.ready = q
            /\ w.receiving = n.receiving /\ w.writing = n.writing
            /\ w.resolving = n.resolving /\ w.connecting = n.connecting
            /\ w.socket = n.socket /\ w.incomming_bytes_ = n.incomming_bytes_
            /\ w.outbound_messages_ = n.outbound_messages_
        BY <1>1, <4>2 DEF ProcessStates, Handlers
      <4> HIDE DEF w
      <4>4. /\ u.ready = q /\ u.timer = "set"
            /\ u.receiving = w.receiving /\ u.writing = w.writing
            /\ u.resolving = w.resolving /\ u.connecting = w.connecting
            /\ u.socket = w.socket /\ u.incomming_bytes_ = w.incomming_bytes_
            /\ u.outbound_messages_ = w.outbound_messages_
        BY <4>1, <4>3 DEF ProcessStates
      <4> QED  BY <1>6, <4>3, <4>4 DEF NoCall, Place, q
    <3>4. /\ Failed("timer") \in Handlers /\ Failed("timer").op = "timer"
          /\ ~Failed("timer").ok /\ n.ready \in Seq(Handlers)
      BY <1>1, HandlerTypes, ReadyType DEF Ops, Failed
    <3>5. Without(u.ready, {"resolve"}) /\ OldTimers(u)
      BY <1>1, <1>3, <1>4, <3>3, <3>4, Appended, OldTimersKept
    <3>6. u.incomming_bytes_ # <<>> => ~Without(u.ready, {"receive"})
      BY <1>5, <2>5, <3>3, <3>4, StillAmong
    <3> QED  BY <3>3, <3>5, <3>6 DEF Lost
  <2> QED  BY <1>1, <1>3, <2>1, <2>2, <2>3, <2>4, <2>5
           DEF Handlers, Ops, Prompts
<1> HIDE DEF u
<1>9. CASE Lost(u)
  <2>1. ~isOpen(u)
    BY <1>9 DEF Lost, Place, isOpen
  <2>2. t = u
    BY <2>1 DEF Updated, u
  <2> QED  BY <1>9, <2>1, <2>2 DEF u
<1>10. CASE u.failure # "none" /\ ~isOpen(u)
  <2>1. t = u
    BY <1>10 DEF Updated, u
  <2> QED  BY <1>10, <2>1 DEF u
<1> QED  BY <1>8, <1>9, <1>10

-----------------------------------------------------------------------------
(* The calls that have not been taken out to be written, and the pieces    *)
(* that were received and not been handled.                                *)
Pending(s) ==
  IF Lone(s.ready, {"write"}, Done("write"))
    THEN Rest(s.outbound_messages_) ELSE s.outbound_messages_.msgs

GotOf(q) == {q[i].got : i \in {j \in 1 .. Len(q) : q[j].op = "receive"}}

LEMMA GotWithout ==
  ASSUME NEW q \in Seq(Handlers)
  PROVE  /\ Without(q, {"receive"}) <=> GotOf(q) = {}
         /\ Without(q, AttemptOps) => GotOf(q) = {}
<1>1. Without(q, {"receive"}) <=> GotOf(q) = {}
  BY DEF Without, GotOf
<1>2. Without(q, AttemptOps) => Without(q, {"receive"})
  BY DEF Without, AttemptOps
<1> QED  BY <1>1, <1>2

LEMMA GotFollowed ==
  ASSUME NEW q \in Seq(Handlers), NEW r \in Seq(Handlers), Followed(q, r)
  PROVE  GotOf(r) = GotOf(q)
<1>1. Len(q) \in Nat /\ Len(r) \in Nat
  BY LenProperties
<1>2. \A i \in 1 .. Len(q) : i \in 1 .. Len(r) /\ r[i] = q[i]
  BY <1>1 DEF Followed
<1>3. \A i \in 1 .. Len(r) : r[i].op = "receive" => i \in 1 .. Len(q)
  BY <1>1 DEF Followed, Prompts
<1> QED  BY <1>2, <1>3 DEF GotOf

LEMMA GotTaken ==
  ASSUME NEW q \in Seq(Handlers), q # <<>>
  PROVE  /\ Head(q).op # "receive" => GotOf(Tail(q)) = GotOf(q)
         /\ Head(q).op = "receive" => Head(q).got \in GotOf(q)
<1> DEFINE r == Tail(q)
           n == Len(q)
<1>1. /\ n \in Nat /\ n # 0 /\ Len(r) = n - 1 /\ Head(q) = q[1]
      /\ \A i \in 1 .. Len(r) : r[i] = q[i + 1]
  BY HeadTailProperties, LenProperties, EmptySeq
<1>2. /\ 1 \in 1 .. n
      /\ \A i \in 1 .. Len(r) : i + 1 \in 1 .. n
      /\ \A i \in 1 .. n : i # 1 => i - 1 \in 1 .. Len(r) /\ i - 1 + 1 = i
  BY <1>1
<1> HIDE DEF r, n
<1>3. Head(q).op = "receive" => Head(q).got \in GotOf(q)
  BY <1>1, <1>2 DEF GotOf, n
<1>4. ASSUME Head(q).op # "receive" PROVE GotOf(r) = GotOf(q)
  <2>1. ASSUME NEW g \in GotOf(r) PROVE g \in GotOf(q)
    <3>1. PICK i \in 1 .. Len(r) : r[i].op = "receive" /\ g = r[i].got
      BY DEF GotOf
    <3>2. i + 1 \in 1 .. n /\ q[i + 1] = r[i]
      BY <1>1, <1>2
    <3> QED  BY <3>1, <3>2 DEF GotOf, n
  <2>2. ASSUME NEW g \in GotOf(q) PROVE g \in GotOf(r)
    <3>1. PICK i \in 1 .. n : q[i].op = "receive" /\ g = q[i].got
      BY DEF GotOf, n
    <3>2. i # 1
      BY <1>1, <1>4, <3>1
    <3>3. i - 1 \in 1 .. Len(r) /\ r[i - 1] = q[i]
      BY <1>1, <1>2, <3>2
    <3> QED  BY <3>1, <3>3 DEF GotOf
  <2> QED  BY <2>1, <2>2
<1> QED  BY <1>3, <1>4 DEF r

LEMMA TakenBack ==
  ASSUME NEW q \in Seq(Handlers), q # <<>>, NEW ops, Head(q).op \notin ops,
         NEW g, Lone(Tail(q), ops, g)
  PROVE  Lone(q, ops, g)
<1> DEFINE r == Tail(q)
           n == Len(q)
<1>1. /\ n \in Nat /\ n # 0 /\ Len(r) = n - 1 /\ Head(q) = q[1]
      /\ \A i \in 1 .. Len(r) : r[i] = q[i + 1]
  BY HeadTailProperties, LenProperties, EmptySeq
<1>2. /\ \A i \in 1 .. Len(r) : i + 1 \in 1 .. n
      /\ \A i \in 1 .. n : i # 1 => i - 1 \in 1 .. Len(r) /\ i - 1 + 1 = i
  BY <1>1
<1>3. PICK i \in 1 .. Len(r) :
        r[i] = g /\ \A j \in 1 .. Len(r) : r[j].op \in ops => j = i
  BY DEF Lone
<1> HIDE DEF r, n
<1>4. i + 1 \in 1 .. n /\ q[i + 1] = g
  BY <1>1, <1>2, <1>3
<1>5. ASSUME NEW j \in 1 .. n, q[j].op \in ops PROVE j = i + 1
  <2>1. j # 1
    BY <1>1, <1>5
  <2>2. j - 1 \in 1 .. Len(r) /\ r[j - 1] = q[j]
    BY <1>1, <1>2, <2>1
  <2>3. j - 1 = i
    BY <1>3, <1>5, <2>2
  <2> QED  BY <1>1, <2>3
<1> QED  BY <1>4, <1>5 DEF Lone, n

LEMMA AsidePending ==
  ASSUME NEW s \in ProcessStates, NEW t \in ProcessStates, Aside(s, t)
  PROVE  /\ Pending(t) = Pending(s) /\ GotOf(t.ready) = GotOf(s.ready)
         /\ Lone(t.ready, {"write"}, Failed("write"))
              <=> Lone(s.ready, {"write"}, Failed("write"))
<1>1. /\ s.ready \in Seq(Handlers) /\ t.ready \in Seq(Handlers)
      /\ Followed(s.ready, t.ready)
      /\ t.outbound_messages_ = s.outbound_messages_
  BY ReadyType DEF Aside
<1>2. {"write"} \cap Prompts = {}
  BY DEF Prompts
<1>3. Done("write").op \in {"write"} /\ Failed("write").op \in {"write"}
  BY HandlerTypes
<1>4. \A g : g.op \in {"write"} =>
        (Lone(s.ready, {"write"}, g) <=> Lone(t.ready, {"write"}, g))
  BY <1>1, <1>2, FollowedKeeps
<1> QED  BY <1>1, <1>3, <1>4, GotFollowed DEF Pending

(* What is left of an online client when its first handler is taken.       *)
LEMMA OnlineTaken ==
  ASSUME NEW s \in ProcessStates, s.ready # <<>>, Up(s)
  PROVE  /\ Head(s.ready).op # "write" =>
              /\ Calling(Next1(s)) /\ Pending(Next1(s)) = Pending(s)
              /\ Lone(Next1(s).ready, {"write"}, Failed("write"))
                   => Lone(s.ready, {"write"}, Failed("write"))
         /\ Head(s.ready).op = "write" =>
              /\ Without(Next1(s).ready, {"write"}) /\ ~s.writing
              /\ s.outbound_messages_.msgs # <<>>
              /\ Head(s.ready).ok => Lone(s.ready, {"write"}, Done("write"))
         /\ Head(s.ready).op \in AttemptOps =>
              /\ Without(Next1(s).ready, AttemptOps) /\ s.receiving = 0
              /\ Head(s.ready) = Done("connect") \/ Head(s.ready).op = "receive"
         /\ Head(s.ready).op \notin AttemptOps => Hearing(Next1(s))
         /\ Head(s.ready).op # "receive" => GotOf(Next1(s).ready) = GotOf(s.ready)
         /\ Head(s.ready).op = "receive" => /\ GotOf(Next1(s).ready) = {}
                                            /\ Head(s.ready).got \in GotOf(s.ready)
<1> DEFINE h == Head(s.ready)
           n == Next1(s)
           W == {"write"}
<1>1. /\ n \in ProcessStates /\ h \in Handlers
      /\ n.ready = Tail(s.ready) /\ n.receiving = s.receiving
      /\ n.writing = s.writing /\ n.outbound_messages_ = s.outbound_messages_
  BY NextFields
<1>2. s.ready \in Seq(Handlers) /\ n.ready \in Seq(Handlers)
  BY <1>1, ReadyType
<1> HIDE DEF n
<1>3. /\ Without(s.ready, W) => h.op \notin W /\ Without(n.ready, W)
      /\ Without(s.ready, AttemptOps) =>
           h.op \notin AttemptOps /\ Without(n.ready, AttemptOps)
  BY <1>1, <1>2, Taken
<1>4. \A g : Lone(s.ready, W, g) /\ g.op \in W =>
        /\ h.op \in W => h = g /\ Without(n.ready, W)
        /\ h.op \notin W => Lone(n.ready, W, g)
  <2>1. n.ready = Tail(s.ready)
    BY <1>1
  <2>2. \A g : Lone(s.ready, W, g) /\ g.op \in W =>
          /\ h.op \in W => h = g /\ Without(Tail(s.ready), W)
          /\ h.op \notin W => Lone(Tail(s.ready), W, g)
    BY <1>2, Taken, Zenon
  <2> QED  BY <2>1, <2>2, Zenon
<1>5. \A g : Lone(s.ready, AttemptOps, g) /\ g.op \in AttemptOps =>
        /\ h.op \in AttemptOps => h = g /\ Without(n.ready, AttemptOps)
        /\ h.op \notin AttemptOps => Lone(n.ready, AttemptOps, g)
  <2>1. n.ready = Tail(s.ready)
    BY <1>1
  <2>2. \A g : Lone(s.ready, AttemptOps, g) /\ g.op \in AttemptOps =>
          /\ h.op \in AttemptOps => h = g /\ Without(Tail(s.ready), AttemptOps)
          /\ h.op \notin AttemptOps => Lone(Tail(s.ready), AttemptOps, g)
    BY <1>2, Taken, Zenon
  <2> QED  BY <2>1, <2>2, Zenon
<1>6. h.op \notin W => \A g : Lone(n.ready, W, g) => Lone(s.ready, W, g)
  BY <1>1, <1>2, TakenBack
<1>7. /\ Done("write").op \in W /\ Failed("write").op \in W
      /\ Done("write").ok /\ ~Failed("write").ok
      /\ Done("connect").op \in AttemptOps
      /\ \A g \in Handlers : g.op = "receive" => g.op \in AttemptOps
  BY HandlerTypes DEF AttemptOps, Done, Failed
<1>8. Calling(s) /\ Hearing(s)
  BY DEF Up
<1>9. ASSUME h.op # "write"
      PROVE  /\ Calling(n) /\ Pending(n) = Pending(s)
             /\ Lone(n.ready, W, Failed("write"))
                  => Lone(s.ready, W, Failed("write"))
  <2>1. h.op \notin W
    BY <1>9
  <2>2. Calling(n)
    BY <1>1, <1>3, <1>4, <1>7, <1>8, <2>1 DEF Calling
  <2>3. Lone(n.ready, W, Done("write")) <=> Lone(s.ready, W, Done("write"))
    BY <1>4, <1>6, <1>7, <2>1
  <2> QED  BY <1>1, <1>6, <2>1, <2>2, <2>3 DEF Pending
<1>10. ASSUME h.op = "write"
       PROVE  /\ Without(n.ready, W) /\ ~s.writing
              /\ s.outbound_messages_.msgs # <<>>
              /\ h.ok => Lone(s.ready, W, Done("write"))
  <2>1. h.op \in W
    BY <1>10
  <2> HIDE DEF h, W
  <2>2. /\ ~s.writing /\ s.outbound_messages_.msgs # <<>>
        /\ \/ Lone(s.ready, W, Done("write")) \/ Lone(s.ready, W, Failed("write"))
    BY <1>3, <1>8, <2>1 DEF Calling, W
  <2> QED  BY <1>4, <1>7, <2>1, <2>2
<1>11. ASSUME h.op \in AttemptOps
       PROVE  /\ Without(n.ready, AttemptOps) /\ s.receiving = 0
              /\ h = Done("connect") \/ h.op = "receive"
  BY <1>3, <1>5, <1>7, <1>8, <1>11 DEF Hearing
<1>12. ASSUME h.op \notin AttemptOps PROVE Hearing(n)
  BY <1>1, <1>3, <1>5, <1>7, <1>8, <1>12 DEF Hearing
<1>13. h.op # "receive" => GotOf(n.ready) = GotOf(s.ready)
  BY <1>1, <1>2, GotTaken
<1>14. h.op = "receive" => GotOf(n.ready) = {} /\ h.got \in GotOf(s.ready)
  <2> SUFFICES ASSUME h.op = "receive"
               PROVE  GotOf(n.ready) = {} /\ h.got \in GotOf(s.ready)
    OBVIOUS
  <2>1. Without(n.ready, AttemptOps)
    BY <1>11 DEF AttemptOps
  <2> QED  BY <1>2, <2>1, GotWithout, GotTaken
<1> QED  BY <1>9, <1>10, <1>11, <1>12, <1>13, <1>14 DEF n

(* What a handler leaves of an online client: calls are only added behind  *)
(* those pending, and what was received is for update() to dispatch.       *)
Onward(s, u) ==
  /\ Place(u, "off", FALSE, FALSE, "connected") /\ u.failure = s.failure
  /\ Calling(u) /\ Hearing(u)
  /\ ~Called(s) => Pending(u) = Pending(s)
  /\ Called(s) => \E m \in Requests :
       /\ u.outbound_messages_.msgs = Append(s.outbound_messages_.msgs, m)
       /\ Pending(u) = Append(Pending(s), m)
  /\ Lone(u.ready, {"write"}, Failed("write"))
       => Lone(s.ready, {"write"}, Failed("write"))
  /\ IF Head(s.ready).op = "receive"
       THEN /\ u.incomming_bytes_ = s.incomming_bytes_ \o Head(s.ready).got
            /\ Head(s.ready).got \in GotOf(s.ready) /\ GotOf(u.ready) = {}
       ELSE /\ u.incomming_bytes_ = s.incomming_bytes_
            /\ GotOf(u.ready) = GotOf(s.ready)

(* A call on a connection joins what is pending.                           *)
LEMMA CallPending ==
  ASSUME NEW s \in ProcessStates, NEW m \in Requests, Up(s)
  PROVE  /\ Up(write(s, m))
         /\ write(s, m).incomming_bytes_ = s.incomming_bytes_
         /\ Pending(write(s, m)) = Append(Pending(s), m)
         /\ write(s, m).ready = s.ready
         /\ write(s, m).failure = s.failure
<1> DEFINE u == write(s, m)
           q == s.outbound_messages_
           W == {"write"}
<1>1. q \in Queues(Requests) /\ s.ready \in Seq(Handlers)
  BY ReadyType DEF ProcessStates
<1>2. isOpen(s)
  BY DEF Up, Place, isOpen
<1>3. /\ u.outbound_messages_.msgs = Append(q.msgs, m) /\ u \in ProcessStates
      /\ u.ready = s.ready /\ u.receiving = s.receiving
      /\ u.incomming_bytes_ = s.incomming_bytes_ /\ u.failure = s.failure
      /\ Place(u, s.timer, s.resolving, s.connecting, s.socket)
      /\ q.msgs = <<>> => u.writing
      /\ q.msgs # <<>> => /\ u.writing = s.writing
                          /\ u.outbound_messages_ = PushBack(q, m)
  BY <1>2, WriteCallFields
<1>4. /\ PushBack(q, m).msgs = Append(q.msgs, m) /\ PushBack(q, m).msgs # <<>>
  BY <1>1, PushBackProperties
<1>5. q.msgs # <<>> => Rest(PushBack(q, m)) = Append(Rest(q), m)
  BY <1>1, RestOfPushBack
<1>6. Done("write").op = "write"
  BY HandlerTypes
<1> HIDE DEF u, q
<1>7. u.outbound_messages_.msgs # <<>>
  BY <1>3, <1>4
<1>8. Calling(s) /\ Hearing(s)
  BY DEF Up
<1>9. Calling(u)
  BY <1>3, <1>7, <1>8 DEF Calling, q
<1>10. Hearing(u)
  BY <1>3, <1>8 DEF Hearing
<1>11. Place(u, "off", FALSE, FALSE, "connected")
  BY <1>3 DEF Up, Place
<1>12. Lone(s.ready, W, Done("write")) => q.msgs # <<>>
  <2>1. Lone(s.ready, W, Done("write")) => ~Without(s.ready, W)
    BY <1>6 DEF Lone, Without
  <2> QED  BY <1>8, <2>1 DEF Calling, q
<1>13. Pending(u) = Append(Pending(s), m)
  <2>1. CASE Lone(s.ready, W, Done("write"))
    BY <1>3, <1>5, <1>12, <2>1 DEF Pending, q
  <2>2. CASE ~Lone(s.ready, W, Done("write"))
    BY <1>3, <2>2 DEF Pending, q
  <2> QED  BY <2>1, <2>2
<1> QED  BY <1>3, <1>9, <1>10, <1>11, <1>13 DEF Up, u

LEMMA OnlinePrompt ==
  ASSUME NEW s \in ProcessStates, s.ready # <<>>, Up(s),
         Head(s.ready).op \in Prompts
  PROVE  Onward(s, Handled(s))
<1> DEFINE n == Next1(s)
           u == Handled(s)
           W == {"write"}
<1>1. /\ n \in ProcessStates /\ u \in ProcessStates
      /\ n.socket = s.socket /\ n.resolving = s.resolving
      /\ n.connecting = s.connecting /\ n.timer = s.timer
      /\ n.incomming_bytes_ = s.incomming_bytes_ /\ n.failure = s.failure
      /\ n.outbound_messages_ = s.outbound_messages_
  BY NextFields
<1>2. /\ Head(s.ready).op # "write" /\ Head(s.ready).op # "receive"
      /\ Head(s.ready).op \notin AttemptOps
  BY DEF Prompts, AttemptOps
<1>3. /\ Calling(n) /\ Pending(n) = Pending(s) /\ Hearing(n)
      /\ Lone(n.ready, W, Failed("write")) => Lone(s.ready, W, Failed("write"))
      /\ GotOf(n.ready) = GotOf(s.ready)
  BY <1>2, OnlineTaken
<1>4. Up(n)
  BY <1>1, <1>3 DEF Up, Place
<1>5. ASSUME NEW v \in ProcessStates, Aside(n, v)
      PROVE  /\ Up(v) /\ v.failure = s.failure
             /\ v.incomming_bytes_ = s.incomming_bytes_
             /\ v.outbound_messages_ = s.outbound_messages_
             /\ Pending(v) = Pending(s) /\ GotOf(v.ready) = GotOf(s.ready)
             /\ Lone(v.ready, W, Failed("write"))
                  => Lone(s.ready, W, Failed("write"))
  <2>1. /\ Up(v) /\ v.failure = n.failure
        /\ v.incomming_bytes_ = n.incomming_bytes_
        /\ v.outbound_messages_ = n.outbound_messages_
    BY <1>1, <1>4, <1>5, AsidePlaced DEF Aside
  <2>2. /\ Pending(v) = Pending(n) /\ GotOf(v.ready) = GotOf(n.ready)
        /\ Lone(v.ready, W, Failed("write")) <=> Lone(n.ready, W, Failed("write"))
    BY <1>1, <1>5, AsidePending
  <2> QED  BY <1>1, <1>3, <2>1, <2>2
<1> HIDE DEF n, u
<1>6. CASE Aside(n, u) /\ ~Called(s)
  <2>1. /\ Up(u) /\ u.failure = s.failure
        /\ u.incomming_bytes_ = s.incomming_bytes_
        /\ Pending(u) = Pending(s) /\ GotOf(u.ready) = GotOf(s.ready)
        /\ Lone(u.ready, W, Failed("write")) => Lone(s.ready, W, Failed("write"))
    BY <1>1, <1>5, <1>6
  <2> QED  BY <1>2, <1>6, <2>1 DEF Onward, Up, u
<1>7. ASSUME Called(s), NEW v \in ProcessStates, NEW m \in Requests,
             Aside(n, v), u = write(v, m)
      PROVE  Onward(s, u)
  <2>1. /\ Up(v) /\ v.failure = s.failure
        /\ v.incomming_bytes_ = s.incomming_bytes_
        /\ v.outbound_messages_ = s.outbound_messages_
        /\ Pending(v) = Pending(s) /\ GotOf(v.ready) = GotOf(s.ready)
        /\ Lone(v.ready, W, Failed("write")) => Lone(s.ready, W, Failed("write"))
    BY <1>5, <1>7
  <2>2. /\ Up(u) /\ Pending(u) = Append(Pending(v), m)
        /\ u.ready = v.ready /\ u.failure = v.failure
        /\ u.incomming_bytes_ = v.incomming_bytes_
    BY <1>7, <2>1, CallPending
  <2>3. u.outbound_messages_.msgs = Append(v.outbound_messages_.msgs, m)
    BY <1>7, WriteCallFields
  <2> QED  BY <1>2, <1>7, <2>1, <2>2, <2>3 DEF Onward, Up
<1>8. \/ Aside(n, u) /\ ~Called(s)
      \/ /\ Called(s)
         /\ \E v \in ProcessStates, m \in Requests :
              Aside(n, v) /\ u = write(v, m)
  BY TerminalStep DEF n, u
<1>9. CASE /\ Called(s)
           /\ \E v \in ProcessStates, m \in Requests :
                Aside(n, v) /\ u = write(v, m)
  <2>1. PICK v \in ProcessStates, m \in Requests :
          Aside(n, v) /\ u = write(v, m)
    BY <1>9
  <2>2. Onward(s, u)
    BY <1>7, <1>9, <2>1
  <2> QED  BY <2>2 DEF u
<1> QED  BY <1>6, <1>8, <1>9

LEMMA AsideCalling ==
  ASSUME NEW s \in ProcessStates, NEW t \in ProcessStates, Aside(s, t)
  PROVE  /\ Calling(s) => Calling(t)
         /\ Without(s.ready, AttemptOps) => Without(t.ready, AttemptOps)
<1>1. /\ s.ready \in Seq(Handlers) /\ t.ready \in Seq(Handlers)
      /\ Followed(s.ready, t.ready)
  BY ReadyType DEF Aside
<1>2. AttemptOps \cap Prompts = {} /\ {"write"} \cap Prompts = {}
  BY DEF AttemptOps, Prompts
<1>3. /\ Without(s.ready, AttemptOps) <=> Without(t.ready, AttemptOps)
      /\ Without(s.ready, {"write"}) <=> Without(t.ready, {"write"})
  BY <1>1, <1>2, FollowedKeeps
<1>4. \A g : g.op \in {"write"} =>
        (Lone(s.ready, {"write"}, g) <=> Lone(t.ready, {"write"}, g))
  BY <1>1, <1>2, FollowedKeeps
<1>5. Done("write").op \in {"write"} /\ Failed("write").op \in {"write"}
  BY HandlerTypes
<1> QED  BY <1>3, <1>4, <1>5 DEF Calling, Aside

(* Neither a resolve nor a timer is ready while there is a connection.     *)
LEMMA HearingOnly ==
  ASSUME NEW s \in ProcessStates,
         Hearing(s) \/ Without(s.ready, AttemptOps)
  PROVE  Without(s.ready, {"resolve"}) /\ OldTimers(s)
<1>1. Done("connect").op = "connect"
  BY HandlerTypes
<1>2. ASSUME NEW h, h.op \in {"connect", "receive"},
             Lone(s.ready, AttemptOps, h)
      PROVE  Without(s.ready, {"resolve"}) /\ OldTimers(s)
  <2>1. PICK i \in 1 .. Len(s.ready) :
          /\ s.ready[i] = h
          /\ \A j \in 1 .. Len(s.ready) : s.ready[j].op \in AttemptOps => j = i
    BY <1>2 DEF Lone
  <2>2. \A j \in 1 .. Len(s.ready) : s.ready[j].op \notin {"resolve", "timer"}
    BY <1>2, <2>1 DEF AttemptOps
  <2> QED  BY <2>2 DEF Without, OldTimers
<1>3. CASE Without(s.ready, AttemptOps)
  BY <1>3 DEF Without, AttemptOps, OldTimers
<1>4. CASE Hearing(s)
  BY <1>1, <1>2, <1>3, <1>4 DEF Hearing
<1> QED  BY <1>3, <1>4

LEMMA OnlineConnect ==
  ASSUME NEW s \in ProcessStates, s.ready # <<>>, Up(s),
         Head(s.ready).op = "connect"
  PROVE  Onward(s, Handled(s))
<1> DEFINE n == Next1(s)
           v == read_username(n)
           u == Handled(s)
           W == {"write"}
<1>1. /\ n \in ProcessStates /\ n.receiving = s.receiving
      /\ n.socket = s.socket /\ n.resolving = s.resolving
      /\ n.connecting = s.connecting /\ n.timer = s.timer
      /\ n.incomming_bytes_ = s.incomming_bytes_ /\ n.failure = s.failure
      /\ n.outbound_messages_ = s.outbound_messages_
  BY NextFields
<1>2. /\ Calling(n) /\ Pending(n) = Pending(s) /\ GotOf(n.ready) = GotOf(s.ready)
      /\ Lone(n.ready, W, Failed("write")) => Lone(s.ready, W, Failed("write"))
      /\ Without(n.ready, AttemptOps) /\ s.receiving = 0
      /\ Head(s.ready) = Done("connect")
  BY OnlineTaken DEF AttemptOps
<1>3. /\ Place(n, "off", FALSE, FALSE, "connected")
      /\ n.incomming_bytes_ = s.incomming_bytes_
  BY <1>1 DEF Up, Place
<1>4. v \in ProcessStates /\ Aside(n, v)
  BY <1>1, PromptAside DEF read_username, Prompts
<1>5. u = async_receive(v)
  <2>1. Done("connect").op = "connect" /\ Done("connect").ok
    BY DEF Done, Failed
  <2> QED  BY <1>2, <1>3, <2>1
           DEF Handled, Handle, onConnect, isOpen, Place, transport_open
<1> HIDE DEF n, u, v
<1>6. /\ Calling(v) /\ Without(v.ready, AttemptOps)
      /\ Pending(v) = Pending(s) /\ GotOf(v.ready) = GotOf(s.ready)
      /\ Lone(v.ready, W, Failed("write")) => Lone(s.ready, W, Failed("write"))
  BY <1>1, <1>2, <1>4, AsideCalling, AsidePending
<1>7. /\ Place(v, "off", FALSE, FALSE, "connected")
      /\ v.incomming_bytes_ = s.incomming_bytes_ /\ v.receiving = 0
      /\ v.failure = s.failure
      /\ v.outbound_messages_ = s.outbound_messages_
  BY <1>1, <1>2, <1>3, <1>4 DEF Aside, Place
<1>8. u = [v EXCEPT !.receiving = 1]
  BY <1>5, <1>7 DEF async_receive, isOpen, Place
<1>9. /\ u.receiving = 1 /\ u.ready = v.ready /\ u.writing = v.writing
      /\ u.outbound_messages_ = v.outbound_messages_
      /\ u.incomming_bytes_ = v.incomming_bytes_ /\ u.failure = v.failure
      /\ Place(u, v.timer, v.resolving, v.connecting, v.socket)
  BY <1>4, <1>8 DEF ProcessStates, Place
<1>10. Calling(u) /\ Hearing(u) /\ Pending(u) = Pending(v)
  BY <1>6, <1>9 DEF Calling, Hearing, Pending
<1>11. ~Called(s)
  <2>1. Len(s.outbound_messages_.msgs) \in Nat
    BY LenProperties DEF ProcessStates, Queues
  <2> QED  BY <1>7, <1>9, <2>1 DEF Called, u
<1>12. Onward(s, u)
  <2>1. Place(u, "off", FALSE, FALSE, "connected")
    BY <1>7, <1>9 DEF Place
  <2> QED  BY <1>6, <1>7, <1>9, <1>10, <1>11, <2>1 DEF Onward
<1> QED  BY <1>12 DEF u

LEMMA OnlineReceive ==
  ASSUME NEW s \in ProcessStates, s.ready # <<>>, Up(s),
         Head(s.ready).op = "receive"
  PROVE  IF Head(s.ready).ok THEN Onward(s, Handled(s))
                             ELSE Handled(s) = close(on_error(Next1(s)))
<1> SUFFICES ASSUME Head(s.ready).ok PROVE Onward(s, Handled(s))
  BY DEF Handled, Handle, on_receive
<1> DEFINE n == Next1(s)
           h == Head(s.ready)
           b == s.incomming_bytes_ \o h.got
           v == [n EXCEPT !.incomming_bytes_ = b]
           u == Handled(s)
           W == {"write"}
<1>1. /\ n \in ProcessStates /\ h \in Handlers /\ n.receiving = s.receiving
      /\ n.socket = s.socket /\ n.resolving = s.resolving
      /\ n.connecting = s.connecting /\ n.timer = s.timer
      /\ n.incomming_bytes_ = s.incomming_bytes_ /\ n.failure = s.failure
      /\ n.outbound_messages_ = s.outbound_messages_
  BY NextFields
<1>2. /\ Calling(n) /\ Pending(n) = Pending(s)
      /\ Lone(n.ready, W, Failed("write")) => Lone(s.ready, W, Failed("write"))
      /\ Without(n.ready, AttemptOps) /\ s.receiving = 0
      /\ GotOf(n.ready) = {} /\ h.got \in GotOf(s.ready)
  BY OnlineTaken DEF AttemptOps
<1>3. /\ Place(n, "off", FALSE, FALSE, "connected")
      /\ n.incomming_bytes_ = s.incomming_bytes_
  BY <1>1 DEF Up, Place
<1>4. b \in Seq(Pieces)
  BY <1>1, ConcatProperties DEF Handlers, ProcessStates
<1>5. u = async_receive(v)
  BY <1>3, <1>4 DEF Handled, Handle, on_receive
<1> HIDE DEF n, u, h, b
<1>6. /\ v.receiving = 0 /\ v.ready = n.ready /\ v.writing = n.writing
      /\ v.outbound_messages_ = n.outbound_messages_
      /\ v.incomming_bytes_ = b /\ v.failure = n.failure
      /\ Place(v, "off", FALSE, FALSE, "connected") /\ v \in ProcessStates
  BY <1>1, <1>2, <1>3, <1>4 DEF ProcessStates, Place
<1> HIDE DEF v
<1>7. u = [v EXCEPT !.receiving = 1]
  BY <1>5, <1>6 DEF async_receive, isOpen, Place
<1>8. /\ u.receiving = 1 /\ u.ready = v.ready /\ u.writing = v.writing
      /\ u.outbound_messages_ = v.outbound_messages_
      /\ u.incomming_bytes_ = v.incomming_bytes_ /\ u.failure = v.failure
      /\ Place(u, "off", FALSE, FALSE, "connected")
  BY <1>6, <1>7 DEF ProcessStates, Place
<1>9. Calling(u) /\ Hearing(u) /\ Pending(u) = Pending(n)
  BY <1>2, <1>6, <1>8 DEF Calling, Hearing, Pending
<1>10. ~Called(s)
  <2>1. Len(s.outbound_messages_.msgs) \in Nat
    BY LenProperties DEF ProcessStates, Queues
  <2> QED  BY <1>1, <1>6, <1>8, <2>1 DEF Called, u
<1>11. Onward(s, u)
  <2>1. u.ready = n.ready /\ u.incomming_bytes_ = b /\ u.failure = s.failure
    BY <1>1, <1>6, <1>8
  <2> QED  BY <1>2, <1>8, <1>9, <1>10, <2>1 DEF Onward, b, h
<1> QED  BY <1>11 DEF u

LEMMA OnlineWrite ==
  ASSUME NEW s \in ProcessStates, s.ready # <<>>, Up(s),
         Head(s.ready).op = "write"
  PROVE  IF Head(s.ready).ok THEN Onward(s, Handled(s))
                             ELSE Handled(s) = close(on_error(Next1(s)))
<1> SUFFICES ASSUME Head(s.ready).ok PROVE Onward(s, Handled(s))
  BY DEF Handled, Handle, onWrite
<1> DEFINE n == Next1(s)
           q == s.outbound_messages_
           v == [n EXCEPT !.outbound_messages_ = PopFront(q)]
           u == Handled(s)
           W == {"write"}
<1>1. /\ n \in ProcessStates /\ n.receiving = s.receiving
      /\ n.socket = s.socket /\ n.resolving = s.resolving
      /\ n.connecting = s.connecting /\ n.timer = s.timer
      /\ n.incomming_bytes_ = s.incomming_bytes_ /\ n.failure = s.failure
      /\ n.outbound_messages_ = s.outbound_messages_
      /\ n.writing = s.writing
  BY NextFields
<1>2. /\ Without(n.ready, W) /\ ~s.writing /\ q.msgs # <<>>
      /\ Lone(s.ready, W, Done("write"))
      /\ Hearing(n) /\ GotOf(n.ready) = GotOf(s.ready)
  BY OnlineTaken DEF AttemptOps
<1>3. /\ Place(n, "off", FALSE, FALSE, "connected")
      /\ n.incomming_bytes_ = s.incomming_bytes_
  BY <1>1 DEF Up, Place
<1>4. Pending(s) = Rest(q)
  BY <1>2 DEF Pending
<1>5. q \in Queues(Requests) /\ PopFront(q) \in Queues(Requests)
      /\ PopFront(q).msgs = Rest(q)
  <2>1. q \in Queues(Requests)
    BY DEF ProcessStates
  <2> QED  BY <2>1, PopFrontProperties
<1>6. u = IF ListSize(PopFront(q)) > 0 THEN async_write_one(v) ELSE v
  <2>1. u = onWrite(n, Head(s.ready))
    BY DEF Handled, Handle
  <2>2. [n EXCEPT !.outbound_messages_ = PopFront(@)] = v
    BY <1>1
  <2>3. v.outbound_messages_ = PopFront(q)
    BY <1>1 DEF ProcessStates
  <2> HIDE DEF u, v, n
  <2>4. onWrite(n, Head(s.ready))
          = IF ListSize(v.outbound_messages_) > 0 THEN async_write_one(v) ELSE v
    BY <1>1, <1>2, <2>2 DEF onWrite
  <2> QED  BY <2>1, <2>3, <2>4
<1> HIDE DEF n, u, q
<1>7. /\ v.receiving = n.receiving /\ v.ready = n.ready /\ ~v.writing
      /\ v.outbound_messages_ = PopFront(q)
      /\ v.incomming_bytes_ = s.incomming_bytes_ /\ v.failure = s.failure
      /\ Place(v, "off", FALSE, FALSE, "connected") /\ v \in ProcessStates
  BY <1>1, <1>2, <1>3, <1>5 DEF ProcessStates, Place
<1> HIDE DEF v
<1>8. /\ u.receiving = n.receiving /\ u.ready = n.ready
      /\ u.outbound_messages_.msgs = Rest(q)
      /\ u.incomming_bytes_ = s.incomming_bytes_ /\ u.failure = s.failure
      /\ Place(u, "off", FALSE, FALSE, "connected")
      /\ u.writing <=> Rest(q) # <<>>
  <2>1. /\ ListSize(PopFront(q)) \in Nat
        /\ ListSize(PopFront(q)) = 0 <=> Rest(q) = <<>>
    BY <1>5, ListSizeProperties
  <2>2. Consolidate(PopFront(q)).msgs = Rest(q)
    BY <1>5, ConsolidateProperties
  <2>3. CASE Rest(q) = <<>>
    <3>1. u = v
      BY <1>6, <2>1, <2>3
    <3> QED  BY <1>5, <1>7, <2>3, <3>1
  <2>4. CASE Rest(q) # <<>>
    <3> DEFINE c == Consolidate(PopFront(q))
    <3>1. u = async_write_one(v)
      BY <1>6, <2>1, <2>4
    <3>2. u = [[v EXCEPT !.outbound_messages_ = c] EXCEPT !.writing = TRUE]
      BY <1>7, <3>1 DEF async_write_one, isOpen, Place
    <3> HIDE DEF c
    <3>3. /\ u.receiving = v.receiving /\ u.ready = v.ready
          /\ u.outbound_messages_ = c /\ u.writing = TRUE
          /\ u.incomming_bytes_ = v.incomming_bytes_ /\ u.failure = v.failure
          /\ Place(u, v.timer, v.resolving, v.connecting, v.socket)
      BY <1>7, <3>2 DEF ProcessStates, Place
    <3> QED  BY <1>7, <2>2, <2>4, <3>3 DEF c, Place
  <2> QED  BY <2>3, <2>4
<1>9. ~Lone(u.ready, W, Done("write")) /\ ~Lone(u.ready, W, Failed("write"))
  BY <1>2, <1>8, HandlerTypes DEF Lone, Without
<1>10. Calling(u) /\ Hearing(u) /\ Pending(u) = Pending(s)
  BY <1>1, <1>2, <1>4, <1>8, <1>9 DEF Calling, Hearing, Pending
<1>11. ~Called(s)
  <2>1. /\ Len(Rest(q)) = Len(q.msgs) - q.front
        /\ q.front \in Nat /\ Len(q.msgs) \in Nat
    BY <1>5, RestElements, LenProperties DEF Queues
  <2> QED  BY <1>8, <2>1 DEF Called, q, u
<1>12. Onward(s, u)
  BY <1>2, <1>8, <1>9, <1>10, <1>11 DEF Onward
<1> QED  BY <1>12 DEF u

LEMMA OnwardBytes ==
  ASSUME NEW s \in ProcessStates, s.ready # <<>>, Online(s), NEW u, Onward(s, u)
  PROVE  u.incomming_bytes_ = IF Head(s.ready).op = "receive"
                                THEN Head(s.ready).got ELSE <<>>
<1>1. Head(s.ready).got \in Seq(Pieces)
  BY NextFields DEF Handlers
<1>2. <<>> \o Head(s.ready).got = Head(s.ready).got
  BY <1>1, ConcatEmptySeq
<1> QED  BY <1>2 DEF Onward, Online

(* A handler of an online client loses the connection, or goes on with it; *)
(* update() after it moves no call and nothing that was received since.    *)
LEMMA OnlineStep ==
  ASSUME NEW s \in ProcessStates, s.ready # <<>>, Online(s),
         NEW t \in ProcessStates, Updated(Handled(s), t)
  PROVE  /\ t.failure = s.failure
         /\ \/ Lost(t) /\ ~isOpen(Handled(s)) /\ ~Called(s)
            \/ /\ Onward(s, Handled(s)) /\ Online(t)
               /\ Pending(t) = Pending(Handled(s))
               /\ GotOf(t.ready) = GotOf(Handled(s).ready)
               /\ Lone(t.ready, {"write"}, Failed("write"))
                    => Lone(s.ready, {"write"}, Failed("write"))
<1> DEFINE n == Next1(s)
           h == Head(s.ready)
           u == Handled(s)
           W == {"write"}
<1>1. /\ n \in ProcessStates /\ h \in Handlers /\ u \in ProcessStates
      /\ n.resolving = s.resolving /\ n.failure = s.failure
  BY NextFields
<1>2. CASE u = close(on_error(n)) /\ h.op \in {"receive", "write"}
  <2>1. Hearing(n) \/ Without(n.ready, AttemptOps)
    BY <1>2, OnlineTaken DEF Online
  <2>2. ~n.resolving
    BY <1>1 DEF Online, Up, Place
  <2>3. Lost(u) /\ u.failure = s.failure
    BY <1>1, <1>2, <2>1, <2>2, HearingOnly, ErrorLoses
  <2> HIDE DEF u, n
  <2>4. ~isOpen(u)
    BY <2>3 DEF Lost, Place, isOpen
  <2>5. t = u
    BY <2>4 DEF Updated, u
  <2>6. ~Called(s)
    <3>1. u.outbound_messages_.msgs = <<>>
      BY <2>3 DEF Lost, NoCall, EmptyQueue
    <3>2. Len(s.outbound_messages_.msgs) \in Nat
      BY LenProperties DEF ProcessStates, Queues
    <3> QED  BY <3>1, <3>2 DEF Called, u
  <2> QED  BY <2>3, <2>4, <2>5, <2>6 DEF u
<1>3. CASE Onward(s, u)
  <2> HIDE DEF u
  <2> DEFINE v == [u EXCEPT !.incomming_bytes_ = <<>>]
  <2>1. Aside(v, t)
    BY <1>3 DEF Updated, u, Onward, Place, isOpen
  <2>2. /\ v \in ProcessStates /\ v.ready = u.ready /\ v.writing = u.writing
        /\ v.outbound_messages_ = u.outbound_messages_
        /\ v.receiving = u.receiving /\ v.failure = u.failure
        /\ v.incomming_bytes_ = <<>>
        /\ Place(v, u.timer, u.resolving, u.connecting, u.socket)
    BY <1>1, EmptySeq DEF ProcessStates, Place, u
  <2> HIDE DEF v
  <2>3. /\ Online(v) /\ Pending(v) = Pending(u)
        /\ GotOf(v.ready) = GotOf(u.ready) /\ v.failure = s.failure
    BY <1>3, <2>2
       DEF Onward, Online, Up, Calling, Hearing, Pending, Place
  <2>4. Online(t) /\ t.failure = s.failure
    BY <2>1, <2>2, <2>3, AsidePlaced DEF Aside
  <2>5. /\ Pending(t) = Pending(u) /\ GotOf(t.ready) = GotOf(u.ready)
        /\ Lone(t.ready, W, Failed("write")) => Lone(u.ready, W, Failed("write"))
    BY <2>1, <2>2, <2>3, AsidePending
  <2>6. Lone(u.ready, W, Failed("write")) => Lone(s.ready, W, Failed("write"))
    BY <1>3 DEF Onward
  <2> QED  BY <1>3, <2>4, <2>5, <2>6 DEF u
<1>4. h.op \in {"connect", "receive", "write"} \cup Prompts
  <2>1. h.op \in AttemptOps => h.op \in {"connect", "receive"}
    BY OnlineTaken, HandlerTypes DEF Online
  <2> QED  BY <1>1, <2>1 DEF Handlers, Ops, AttemptOps
<1>5. Onward(s, u) \/ (u = close(on_error(n)) /\ h.op \in {"receive", "write"})
  BY <1>4, OnlinePrompt, OnlineConnect, OnlineReceive, OnlineWrite DEF Online
<1> QED  BY <1>2, <1>3, <1>5

-----------------------------------------------------------------------------
(* Operations complete.                                                    *)
LEMMA AppendedBack ==
  ASSUME NEW q \in Seq(Handlers), NEW h \in Handlers, NEW ops,
         h.op \notin ops, NEW g, g.op \in ops, Lone(Append(q, h), ops, g)
  PROVE  Lone(q, ops, g)
<1> DEFINE n == Len(q)
           r == Append(q, h)
<1>1. /\ n \in Nat /\ Len(r) = n + 1 /\ r[n + 1] = h
      /\ \A i \in 1 .. n : r[i] = q[i]
  BY AppendProperties, LenProperties
<1>2. /\ \A i \in 1 .. Len(r) : i = n + 1 \/ i \in 1 .. n
      /\ \A i \in 1 .. n : i \in 1 .. Len(r)
  BY <1>1
<1>3. PICK i \in 1 .. Len(r) :
        r[i] = g /\ \A j \in 1 .. Len(r) : r[j].op \in ops => j = i
  BY DEF Lone
<1> HIDE DEF r, n
<1>4. i \in 1 .. n /\ q[i] = g
  BY <1>1, <1>2, <1>3
<1>5. \A j \in 1 .. n : q[j].op \in ops => j = i
  BY <1>1, <1>2, <1>3
<1> QED  BY <1>4, <1>5 DEF Lone, n

LEMMA GotAppended ==
  ASSUME NEW q \in Seq(Handlers), NEW h \in Handlers
  PROVE  GotOf(Append(q, h))
           = IF h.op = "receive" THEN GotOf(q) \cup {h.got} ELSE GotOf(q)
<1> DEFINE n == Len(q)
           r == Append(q, h)
<1>1. /\ n \in Nat /\ Len(r) = n + 1 /\ r[n + 1] = h
      /\ \A i \in 1 .. n : r[i] = q[i]
  BY AppendProperties, LenProperties
<1>2. /\ n + 1 \in 1 .. Len(r)
      /\ \A i \in 1 .. Len(r) : i = n + 1 \/ i \in 1 .. n
      /\ \A i \in 1 .. n : i \in 1 .. Len(r)
  BY <1>1
<1> HIDE DEF r, n
<1>3. GotOf(q) = {q[i].got : i \in {j \in 1 .. n : q[j].op = "receive"}}
  BY DEF GotOf, n
<1>4. GotOf(r) = {r[i].got : i \in {j \in 1 .. Len(r) : r[j].op = "receive"}}
  BY DEF GotOf
<1>5. ASSUME NEW x \in GotOf(q) PROVE x \in GotOf(r)
  BY <1>1, <1>2, <1>3, <1>4
<1>6. h.op = "receive" => h.got \in GotOf(r)
  BY <1>1, <1>2, <1>4
<1>7. ASSUME NEW x \in GotOf(r), x \notin GotOf(q)
      PROVE  h.op = "receive" /\ x = h.got
  BY <1>1, <1>2, <1>3, <1>4, <1>7
<1> QED  BY <1>5, <1>6, <1>7 DEF r

(* A handler that is not one of a write leaves the calls as they were, and *)
(* one that is not of an attempt what is heard.                            *)
LEMMA PostedCalls ==
  ASSUME NEW s \in ProcessStates, NEW t \in ProcessStates, NEW h \in Handlers,
         t.ready = Append(s.ready, h), h.op # "write",
         t.outbound_messages_ = s.outbound_messages_, t.writing = s.writing
  PROVE  /\ Calling(s) => Calling(t)
         /\ Pending(t) = Pending(s)
         /\ Without(s.ready, {"write"}) => Without(t.ready, {"write"})
         /\ Lone(t.ready, {"write"}, Failed("write"))
              => Lone(s.ready, {"write"}, Failed("write"))
<1> DEFINE W == {"write"}
<1>1. s.ready \in Seq(Handlers) /\ h.op \notin W
  BY ReadyType
<1>2. Done("write").op \in W /\ Failed("write").op \in W
  BY HandlerTypes
<1>3. /\ Without(s.ready, W) => Without(t.ready, W)
      /\ \A g : Lone(s.ready, W, g) => Lone(t.ready, W, g)
  BY <1>1, Appended
<1>4. ASSUME NEW g, g.op \in W, Lone(t.ready, W, g) PROVE Lone(s.ready, W, g)
  <2> HIDE DEF W
  <2>1. Lone(Append(s.ready, h), W, g)
    BY <1>4
  <2> QED  BY <1>1, <1>4, <2>1, AppendedBack
<1> HIDE DEF W
<1>5. /\ Lone(t.ready, W, Failed("write")) => Lone(s.ready, W, Failed("write"))
      /\ Lone(t.ready, W, Done("write")) <=> Lone(s.ready, W, Done("write"))
      /\ Lone(s.ready, W, Failed("write")) => Lone(t.ready, W, Failed("write"))
  BY <1>2, <1>3, <1>4
<1> QED  BY <1>3, <1>5 DEF Calling, Pending, W

LEMMA PostedAttempt ==
  ASSUME NEW s \in ProcessStates, NEW t \in ProcessStates, NEW h \in Handlers,
         t.ready = Append(s.ready, h)
  PROVE  /\ h.op \in AttemptOps /\ Without(s.ready, AttemptOps)
              => Lone(t.ready, AttemptOps, h)
         /\ h.op \notin AttemptOps /\ t.receiving = s.receiving
              => /\ Hearing(s) => Hearing(t)
                 /\ GotOf(t.ready) = GotOf(s.ready)
         /\ h.op \in AttemptOps /\ Without(s.ready, AttemptOps) =>
              GotOf(t.ready) = IF h.op = "receive" THEN {h.got} ELSE {}
<1>1. s.ready \in Seq(Handlers)
  BY ReadyType
<1>2. h.op \in AttemptOps /\ Without(s.ready, AttemptOps)
        => Lone(t.ready, AttemptOps, h)
  BY <1>1, Appended
<1>3. ASSUME h.op \notin AttemptOps, t.receiving = s.receiving, Hearing(s)
      PROVE  Hearing(t)
  <2>1. /\ Without(s.ready, AttemptOps) => Without(t.ready, AttemptOps)
        /\ \A g : Lone(s.ready, AttemptOps, g) => Lone(t.ready, AttemptOps, g)
    BY <1>1, <1>3, Appended
  <2> QED  BY <1>3, <2>1 DEF Hearing
<1>4. h.op \notin AttemptOps => h.op # "receive"
  BY DEF AttemptOps
<1>5. GotOf(t.ready)
        = IF h.op = "receive" THEN GotOf(s.ready) \cup {h.got} ELSE GotOf(s.ready)
  BY <1>1, GotAppended
<1>6. Without(s.ready, AttemptOps) => GotOf(s.ready) = {}
  BY <1>1, GotWithout
<1> QED  BY <1>2, <1>3, <1>4, <1>5, <1>6

LEMMA PostFields ==
  ASSUME NEW s \in ProcessStates, NEW h \in Handlers
  PROVE  /\ Post(s, h) \in ProcessStates
         /\ Post(s, h).ready = Append(s.ready, h)
         /\ Post(s, h).socket = s.socket /\ Post(s, h).resolving = s.resolving
         /\ Post(s, h).connecting = s.connecting
         /\ Post(s, h).receiving = s.receiving
         /\ Post(s, h).writing = s.writing /\ Post(s, h).timer = s.timer
         /\ Post(s, h).incomming_bytes_ = s.incomming_bytes_
         /\ Post(s, h).outbound_messages_ = s.outbound_messages_
         /\ Post(s, h).failure = s.failure
<1>1. Post(s, h) \in ProcessStates
  BY PostEffect
<1> QED  BY <1>1 DEF Post, ProcessStates

(* The timer, the resolve and the connect of an attempt.                   *)
LEMMA AttemptCompletes ==
  ASSUME NEW s \in ProcessStates, Placed(s)
  PROVE  /\ s.resolving =>
              LET t == [Post(s, Done("resolve")) EXCEPT !.resolving = FALSE]
              IN  t \in ProcessStates /\ Trying(t) /\ t.failure = s.failure
         /\ s.timer = "elapsing" =>
              LET t == [Post(s, Done("timer")) EXCEPT !.timer = "off"]
              IN  t \in ProcessStates /\ Trying(t) /\ t.failure = s.failure
         /\ s.timer = "set" /\ s.ready = <<>> =>
              LET t == [s EXCEPT !.timer = "elapsing"]
              IN  t \in ProcessStates /\ Trying(t) /\ t.failure = s.failure
<1>1. /\ Done("resolve") \in Handlers /\ Done("timer") \in Handlers
      /\ Done("resolve").op = "resolve" /\ Done("timer").op = "timer"
  BY HandlerTypes DEF Ops
<1>2. ASSUME NEW h \in Handlers, h.op \in AttemptOps,
             NEW t \in ProcessStates, t.ready = Append(s.ready, h),
             t.outbound_messages_ = s.outbound_messages_, t.writing = s.writing,
             t.receiving = s.receiving,
             t.incomming_bytes_ = s.incomming_bytes_,
             Trying(s), Without(s.ready, AttemptOps),
             Place(t, "off", FALSE, FALSE, "closed"),
             h = Done("timer") \/ h = Done("resolve")
      PROVE  Trying(t)
  <2>1. Lone(t.ready, AttemptOps, h)
    BY <1>2, PostedAttempt
  <2>2. Without(t.ready, {"write"})
    BY <1>2, PostedCalls DEF Trying, AttemptOps
  <2> QED  BY <1>2, <2>1, <2>2 DEF Trying, NoCall
<1>3. ASSUME s.resolving
      PROVE  LET t == [Post(s, Done("resolve")) EXCEPT !.resolving = FALSE]
             IN  t \in ProcessStates /\ Trying(t) /\ t.failure = s.failure
  <2> DEFINE p == Post(s, Done("resolve"))
             t == [p EXCEPT !.resolving = FALSE]
  <2>1. /\ p \in ProcessStates /\ p.ready = Append(s.ready, Done("resolve"))
        /\ p.socket = s.socket /\ p.connecting = s.connecting
        /\ p.receiving = s.receiving /\ p.writing = s.writing
        /\ p.timer = s.timer /\ p.incomming_bytes_ = s.incomming_bytes_
        /\ p.outbound_messages_ = s.outbound_messages_
        /\ p.failure = s.failure
    BY <1>1, PostFields
  <2>2. /\ Trying(s) /\ Without(s.ready, AttemptOps)
        /\ Place(s, "off", TRUE, FALSE, "closed")
    BY <1>3 DEF Placed, Trying, Online, Up, Lost, Place
  <2> HIDE DEF p
  <2>3. /\ t \in ProcessStates /\ t.ready = p.ready /\ t.failure = p.failure
        /\ t.outbound_messages_ = p.outbound_messages_ /\ t.writing = p.writing
        /\ t.receiving = p.receiving
        /\ t.incomming_bytes_ = p.incomming_bytes_
        /\ Place(t, p.timer, FALSE, p.connecting, p.socket)
    BY <2>1 DEF ProcessStates, Place
  <2> HIDE DEF t
  <2>4. Place(t, "off", FALSE, FALSE, "closed")
    BY <2>1, <2>2, <2>3 DEF Place
  <2>5. Trying(t)
    BY <1>1, <1>2, <2>1, <2>2, <2>3, <2>4 DEF AttemptOps
  <2> QED  BY <2>1, <2>3, <2>5 DEF t, p
<1>4. ASSUME s.timer = "elapsing"
      PROVE  LET t == [Post(s, Done("timer")) EXCEPT !.timer = "off"]
             IN  t \in ProcessStates /\ Trying(t) /\ t.failure = s.failure
  <2> DEFINE p == Post(s, Done("timer"))
             t == [p EXCEPT !.timer = "off"]
  <2>1. /\ p \in ProcessStates /\ p.ready = Append(s.ready, Done("timer"))
        /\ p.socket = s.socket /\ p.connecting = s.connecting
        /\ p.receiving = s.receiving /\ p.writing = s.writing
        /\ p.resolving = s.resolving /\ p.incomming_bytes_ = s.incomming_bytes_
        /\ p.outbound_messages_ = s.outbound_messages_
        /\ p.failure = s.failure
    BY <1>1, PostFields
  <2>2. /\ Trying(s) /\ Without(s.ready, AttemptOps)
        /\ Place(s, "elapsing", FALSE, FALSE, "closed")
    BY <1>4 DEF Placed, Trying, Online, Up, Lost, Place
  <2> HIDE DEF p
  <2>3. /\ t \in ProcessStates /\ t.ready = p.ready /\ t.failure = p.failure
        /\ t.outbound_messages_ = p.outbound_messages_ /\ t.writing = p.writing
        /\ t.receiving = p.receiving
        /\ t.incomming_bytes_ = p.incomming_bytes_
        /\ Place(t, "off", p.resolving, p.connecting, p.socket)
    BY <2>1 DEF ProcessStates, Place
  <2> HIDE DEF t
  <2>4. Place(t, "off", FALSE, FALSE, "closed")
    BY <2>1, <2>2, <2>3 DEF Place
  <2>5. Trying(t)
    BY <1>1, <1>2, <2>1, <2>2, <2>3, <2>4 DEF AttemptOps
  <2> QED  BY <2>1, <2>3, <2>5 DEF t, p
<1>5. ASSUME s.timer = "set", s.ready = <<>>
      PROVE  LET t == [s EXCEPT !.timer = "elapsing"]
             IN  t \in ProcessStates /\ Trying(t) /\ t.failure = s.failure
  <2> DEFINE t == [s EXCEPT !.timer = "elapsing"]
  <2>1. \A ops : Without(<<>>, ops)
    BY EmptySeq DEF Without
  <2>2. Lost(s) /\ s.incomming_bytes_ = <<>>
    <3>1. Lost(s)
      BY <1>5 DEF Placed, Trying, Online, Up, Place
    <3> QED  BY <1>5, <2>1, <3>1 DEF Lost
  <2>3. /\ t \in ProcessStates /\ t.ready = s.ready /\ t.failure = s.failure
        /\ t.outbound_messages_ = s.outbound_messages_ /\ t.writing = s.writing
        /\ t.receiving = s.receiving
        /\ t.incomming_bytes_ = s.incomming_bytes_
        /\ Place(t, "elapsing", s.resolving, s.connecting, s.socket)
    BY DEF ProcessStates, Place
  <2> HIDE DEF t
  <2>4. Trying(t)
    BY <1>5, <2>1, <2>2, <2>3 DEF Lost, Trying, NoCall, Place
  <2> QED  BY <2>3, <2>4 DEF t
<1> QED  BY <1>3, <1>4, <1>5

(* The connection is there; what was aborted before it does not come back. *)
LEMMA ConnectCompletes ==
  ASSUME NEW s \in ProcessStates, Placed(s), s.connecting
  PROVE  LET t == [Post(s, Done("connect"))
                     EXCEPT !.connecting = FALSE, !.socket = "connected"]
         IN  /\ t \in ProcessStates /\ Online(t) /\ t.failure = s.failure
             /\ Pending(t) = <<>> /\ GotOf(t.ready) = {} /\ ~s.writing
             /\ ~Lone(t.ready, {"write"}, Failed("write"))
<1> DEFINE h == Done("connect")
           p == Post(s, h)
           t == [p EXCEPT !.connecting = FALSE, !.socket = "connected"]
           W == {"write"}
<1>1. /\ h \in Handlers /\ h.op = "connect" /\ h.op \in AttemptOps
      /\ Done("write").op = "write" /\ Failed("write").op = "write"
  BY HandlerTypes DEF Ops, AttemptOps
<1>2. /\ p \in ProcessStates /\ p.ready = Append(s.ready, h)
      /\ p.receiving = s.receiving /\ p.writing = s.writing
      /\ p.timer = s.timer /\ p.resolving = s.resolving
      /\ p.incomming_bytes_ = s.incomming_bytes_
      /\ p.outbound_messages_ = s.outbound_messages_
      /\ p.failure = s.failure
  BY <1>1, PostFields
<1>3. /\ Trying(s) /\ Without(s.ready, AttemptOps) /\ Without(s.ready, W)
      /\ Place(s, "off", FALSE, TRUE, "open") /\ ~s.writing
      /\ s.outbound_messages_.msgs = <<>> /\ s.receiving = 0
      /\ s.incomming_bytes_ = <<>>
  BY DEF Placed, Trying, Online, Up, Lost, Place, NoCall, EmptyQueue
<1> HIDE DEF p, h
<1>4. /\ t \in ProcessStates /\ t.ready = p.ready /\ t.failure = p.failure
      /\ t.outbound_messages_ = p.outbound_messages_ /\ t.writing = p.writing
      /\ t.receiving = p.receiving
      /\ t.incomming_bytes_ = p.incomming_bytes_
      /\ Place(t, p.timer, p.resolving, FALSE, "connected")
  BY <1>2 DEF ProcessStates, Place
<1> HIDE DEF t
<1>5. Lone(t.ready, AttemptOps, h) /\ GotOf(t.ready) = {}
  BY <1>1, <1>2, <1>3, <1>4, PostedAttempt
<1>6. Without(t.ready, W)
  BY <1>1, <1>2, <1>3, <1>4, PostedCalls
<1>7. ~Lone(t.ready, W, Failed("write")) /\ ~Lone(t.ready, W, Done("write"))
  BY <1>1, <1>6 DEF Lone, Without
<1>8. Calling(t) /\ Hearing(t) /\ Pending(t) = <<>>
  BY <1>2, <1>3, <1>4, <1>5, <1>6, <1>7 DEF Calling, Hearing, Pending, h
<1>9. Online(t)
  BY <1>2, <1>3, <1>4, <1>8 DEF Online, Up, Place
<1> QED  BY <1>2, <1>3, <1>4, <1>5, <1>7, <1>8, <1>9 DEF t, p, h

(* What is connected receives, or writes; ...                              *)
LEMMA UpReceives ==
  ASSUME NEW s \in ProcessStates, Up(s), s.receiving > 0,
         NEW h \in Handlers, h.op = "receive"
  PROVE  LET t == [Post(s, h) EXCEPT !.receiving = @ - 1]
         IN  /\ t \in ProcessStates /\ Up(t) /\ t.failure = s.failure
             /\ t.incomming_bytes_ = s.incomming_bytes_
             /\ Pending(t) = Pending(s)
             /\ GotOf(s.ready) = {} /\ GotOf(t.ready) = {h.got}
             /\ Lone(t.ready, {"write"}, Failed("write"))
                  => Lone(s.ready, {"write"}, Failed("write"))
<1> DEFINE p == Post(s, h)
           t == [p EXCEPT !.receiving = @ - 1]
           W == {"write"}
<1>1. h.op \in AttemptOps /\ h.op # "write"
  BY DEF AttemptOps
<1>2. /\ p \in ProcessStates /\ p.ready = Append(s.ready, h)
      /\ p.socket = s.socket /\ p.connecting = s.connecting
      /\ p.receiving = s.receiving /\ p.writing = s.writing
      /\ p.timer = s.timer /\ p.resolving = s.resolving
      /\ p.incomming_bytes_ = s.incomming_bytes_
      /\ p.outbound_messages_ = s.outbound_messages_
      /\ p.failure = s.failure
  BY PostFields
<1>4. Without(s.ready, AttemptOps) /\ s.receiving = 1
  BY DEF Up, Hearing
<1>5. GotOf(s.ready) = {}
  BY <1>4, ReadyType, GotWithout
<1> HIDE DEF p
<1>6. t = [p EXCEPT !.receiving = 0]
  BY <1>2, <1>4
<1> HIDE DEF t
<1>7. /\ t \in ProcessStates /\ t.ready = p.ready /\ t.failure = p.failure
      /\ t.outbound_messages_ = p.outbound_messages_ /\ t.writing = p.writing
      /\ t.receiving = 0
      /\ t.incomming_bytes_ = p.incomming_bytes_
      /\ Place(t, p.timer, p.resolving, p.connecting, p.socket)
  BY <1>2, <1>6 DEF ProcessStates, Place
<1>8. Lone(t.ready, AttemptOps, h) /\ GotOf(t.ready) = {h.got}
  BY ZenonT(60), <1>1, <1>2, <1>4, <1>7, PostedAttempt
<1>9. /\ Calling(s) => Calling(t)
      /\ Pending(t) = Pending(s)
      /\ Lone(t.ready, W, Failed("write")) => Lone(s.ready, W, Failed("write"))
  BY <1>1, <1>2, <1>7, PostedCalls
<1>10. Up(t) /\ t.incomming_bytes_ = s.incomming_bytes_
  BY <1>2, <1>7, <1>8, <1>9 DEF Up, Hearing, Place
<1> QED  BY <1>2, <1>5, <1>7, <1>8, <1>9, <1>10 DEF t, p

(* Only an online client receives, ...                                     *)
LEMMA ReceiveCompletes ==
  ASSUME NEW s \in ProcessStates, Placed(s), s.receiving > 0,
         NEW h \in Handlers, h.op = "receive"
  PROVE  LET t == [Post(s, h) EXCEPT !.receiving = @ - 1]
         IN  /\ t \in ProcessStates /\ Online(t) /\ t.failure = s.failure
             /\ Online(s) /\ Pending(t) = Pending(s)
             /\ GotOf(s.ready) = {} /\ GotOf(t.ready) = {h.got}
             /\ Lone(t.ready, {"write"}, Failed("write"))
                  => Lone(s.ready, {"write"}, Failed("write"))
<1>1. Online(s)
  <2>1. s.receiving # 0
    OBVIOUS
  <2> QED  BY <2>1 DEF Placed, Trying, Lost
<1> QED  BY <1>1, UpReceives DEF Online

LEMMA UpWrites ==
  ASSUME NEW s \in ProcessStates, Up(s), s.writing,
         NEW h, h \in {Done("write"), Failed("write")}
  PROVE  LET t == [Post(s, h) EXCEPT !.writing = FALSE]
         IN  /\ t \in ProcessStates /\ Up(t) /\ t.failure = s.failure
             /\ t.incomming_bytes_ = s.incomming_bytes_
             /\ GotOf(t.ready) = GotOf(s.ready)
             /\ Pending(s) = s.outbound_messages_.msgs
             /\ h = Done("write") =>
                  /\ Pending(t) = Rest(s.outbound_messages_)
                  /\ ~Lone(t.ready, {"write"}, Failed("write"))
             /\ h = Failed("write") => Pending(t) = Pending(s)
<1> DEFINE p == Post(s, h)
           t == [p EXCEPT !.writing = FALSE]
           W == {"write"}
<1>1. /\ h \in Handlers /\ h.op \in W /\ h.op \notin AttemptOps
      /\ Done("write") # Failed("write")
      /\ Done("write").op \in W
  <2>1. /\ Done("write") \in Handlers /\ Failed("write") \in Handlers
        /\ Done("write").op = "write" /\ Failed("write").op = "write"
    BY HandlerTypes DEF Ops
  <2>2. Done("write").ok # Failed("write").ok
    BY DEF Done, Failed
  <2> QED  BY <2>1, <2>2 DEF AttemptOps
<1>2. /\ p \in ProcessStates /\ p.ready = Append(s.ready, h)
      /\ p.socket = s.socket /\ p.connecting = s.connecting
      /\ p.receiving = s.receiving /\ p.timer = s.timer
      /\ p.resolving = s.resolving
      /\ p.incomming_bytes_ = s.incomming_bytes_
      /\ p.outbound_messages_ = s.outbound_messages_
      /\ p.failure = s.failure
  BY <1>1, PostFields
<1>4. Without(s.ready, W) /\ s.outbound_messages_.msgs # <<>>
  BY DEF Up, Calling
<1>5. Pending(s) = s.outbound_messages_.msgs
  BY <1>1, <1>4 DEF Pending, Lone, Without
<1> HIDE DEF p
<1>6. /\ t \in ProcessStates /\ t.ready = p.ready /\ t.failure = p.failure
      /\ t.outbound_messages_ = p.outbound_messages_ /\ ~t.writing
      /\ t.receiving = p.receiving
      /\ t.incomming_bytes_ = p.incomming_bytes_
      /\ Place(t, p.timer, p.resolving, p.connecting, p.socket)
  BY <1>2 DEF ProcessStates, Place
<1> HIDE DEF t
<1>7. Lone(t.ready, W, h)
  BY <1>1, <1>2, <1>4, <1>6, ReadyType, Appended
<1>8. \A g : Lone(t.ready, W, g) /\ g.op \in W => g = h
  BY <1>1, <1>7 DEF Lone
<1>9. (Hearing(s) => Hearing(t)) /\ GotOf(t.ready) = GotOf(s.ready)
  <2>1. t.ready = Append(s.ready, h) /\ t.receiving = s.receiving
    BY <1>2, <1>6
  <2> QED  BY <1>1, <1>6, <2>1, PostedAttempt
<1>10. Calling(t)
  BY <1>2, <1>4, <1>6, <1>7 DEF Calling
<1>11. Up(t) /\ t.incomming_bytes_ = s.incomming_bytes_
  BY <1>2, <1>6, <1>9, <1>10 DEF Up, Place
<1>12. h = Done("write") => /\ Pending(t) = Rest(s.outbound_messages_)
                            /\ ~Lone(t.ready, W, Failed("write"))
  BY <1>1, <1>2, <1>6, <1>7, <1>8, HandlerTypes DEF Pending
<1>13. h = Failed("write") => Pending(t) = Pending(s)
  BY <1>1, <1>2, <1>5, <1>6, <1>8 DEF Pending
<1> QED  BY <1>2, <1>5, <1>6, <1>9, <1>11, <1>12, <1>13 DEF t, p

(* ... or writes: all that is pending, or what it gave to the write, which *)
(* is the first string of the list.                                        *)
LEMMA CallCompletes ==
  ASSUME NEW s \in ProcessStates, Placed(s), s.writing,
         NEW h, h \in {Done("write"), Failed("write")}
  PROVE  LET t == [Post(s, h) EXCEPT !.writing = FALSE]
         IN  /\ t \in ProcessStates /\ Online(t) /\ t.failure = s.failure
             /\ Online(s) /\ GotOf(t.ready) = GotOf(s.ready)
             /\ Pending(s) = s.outbound_messages_.msgs
             /\ h = Done("write") =>
                  /\ Pending(t) = Rest(s.outbound_messages_)
                  /\ ~Lone(t.ready, {"write"}, Failed("write"))
             /\ h = Failed("write") => Pending(t) = Pending(s)
<1>1. Online(s)
  BY DEF Placed, Trying, Lost, NoCall
<1> QED  BY <1>1, UpWrites DEF Online

(* A line moves nothing of this.                                           *)
LEMMA LineAside ==
  ASSUME NEW s \in ProcessStates, s.stdin # <<>>, NEW line \in Lines
  PROVE  LET t == [Post(s, LineRead(Head(s.stdin).prompt, line))
                     EXCEPT !.stdin = Tail(@),
                            !.input_buffer_ = Append(@, line)]
         IN  t \in ProcessStates /\ Aside(s, t)
<1> DEFINE h == LineRead(Head(s.stdin).prompt, line)
           p == Post(s, h)
           t == [p EXCEPT !.stdin = Tail(@), !.input_buffer_ = Append(@, line)]
<1>1. /\ s.stdin \in Seq([prompt : Prompts, alone : BOOLEAN])
      /\ s.input_buffer_ \in Seq(Lines)
  BY DEF ProcessStates
<1>2. /\ Head(s.stdin).prompt \in Prompts
      /\ Tail(s.stdin) \in Seq([prompt : Prompts, alone : BOOLEAN])
      /\ Append(s.input_buffer_, line) \in Seq(Lines)
  <2>1. Append(s.input_buffer_, line) \in Seq(Lines)
    BY <1>1, AppendProperties
  <2>2. /\ Head(s.stdin) \in [prompt : Prompts, alone : BOOLEAN]
        /\ Tail(s.stdin) \in Seq([prompt : Prompts, alone : BOOLEAN])
    BY <1>1, HeadTailProperties
  <2> QED  BY <2>1, <2>2
<1>3. h \in Handlers /\ h.op \in Prompts
  BY <1>2, HandlerTypes DEF LineRead, Done, Failed
<1> HIDE DEF h
<1>4. /\ p \in ProcessStates /\ p.ready = Append(s.ready, h)
      /\ p.socket = s.socket /\ p.connecting = s.connecting
      /\ p.receiving = s.receiving /\ p.timer = s.timer
      /\ p.resolving = s.resolving /\ p.writing = s.writing
      /\ p.incomming_bytes_ = s.incomming_bytes_
      /\ p.outbound_messages_ = s.outbound_messages_
      /\ p.failure = s.failure
  BY <1>3, PostFields
<1>5. p.stdin = s.stdin /\ p.input_buffer_ = s.input_buffer_
  BY DEF Post, ProcessStates
<1> HIDE DEF p
<1>6. t = [p EXCEPT !.stdin = Tail(s.stdin),
                    !.input_buffer_ = Append(s.input_buffer_, line)]
  BY <1>5
<1> HIDE DEF t
<1>7. /\ t \in ProcessStates /\ t.ready = p.ready /\ t.failure = p.failure
      /\ t.outbound_messages_ = p.outbound_messages_ /\ t.writing = p.writing
      /\ t.receiving = p.receiving
      /\ t.incomming_bytes_ = p.incomming_bytes_
      /\ t.timer = p.timer /\ t.resolving = p.resolving
      /\ t.connecting = p.connecting /\ t.socket = p.socket
  BY <1>2, <1>4, <1>6 DEF ProcessStates
<1>8. Followed(s.ready, Append(s.ready, h))
  BY <1>3, ReadyType, AppendProperties DEF Followed
<1> QED  BY <1>4, <1>7, <1>8 DEF Aside, t, p, h

-----------------------------------------------------------------------------
(* The handlers of the terminal among those that are ready.                *)
PromptsIn(q) == {i \in DOMAIN q : q[i].op \in Prompts}
Asking(s) == Len(s.stdin) + Cardinality(PromptsIn(s.ready))

LEMMA PromptsFinite ==
  ASSUME NEW q \in Seq(Handlers)
  PROVE  /\ IsFiniteSet(PromptsIn(q)) /\ Cardinality(PromptsIn(q)) \in Nat
         /\ DOMAIN q = 1 .. Len(q)
         /\ Without(q, Prompts) <=> Cardinality(PromptsIn(q)) = 0
<1>1. DOMAIN q = 1 .. Len(q) /\ Len(q) \in Nat
  BY LenProperties
<1>2. IsFiniteSet(1 .. Len(q))
  BY <1>1, FS_Interval
<1>3. IsFiniteSet(PromptsIn(q))
  BY <1>1, <1>2, FS_Subset DEF PromptsIn
<1>4. Without(q, Prompts) <=> PromptsIn(q) = {}
  BY <1>1 DEF Without, PromptsIn
<1> QED  BY <1>1, <1>3, <1>4, FS_CardinalityType, FS_EmptySet

LEMMA PromptsAppended ==
  ASSUME NEW q \in Seq(Handlers), NEW h \in Handlers
  PROVE  Cardinality(PromptsIn(Append(q, h)))
           = Cardinality(PromptsIn(q)) + (IF h.op \in Prompts THEN 1 ELSE 0)
<1> DEFINE n == Len(q)
           r == Append(q, h)
<1>1. /\ n \in Nat /\ Len(r) = n + 1 /\ r[n + 1] = h /\ r \in Seq(Handlers)
      /\ \A i \in 1 .. n : r[i] = q[i]
  BY AppendProperties, LenProperties
<1>2. DOMAIN q = 1 .. n /\ DOMAIN r = 1 .. n + 1
  BY <1>1, PromptsFinite
<1>3. PromptsIn(r) = PromptsIn(q) \cup (IF h.op \in Prompts THEN {n + 1} ELSE {})
  <2> HIDE DEF n, r
  <2>1. 1 .. n + 1 = (1 .. n) \cup {n + 1} /\ n + 1 \notin 1 .. n
    BY <1>1
  <2> QED  BY <1>1, <1>2, <2>1 DEF PromptsIn
<1>4. n + 1 \notin PromptsIn(q)
  BY <1>1, <1>2 DEF PromptsIn
<1>5. IsFiniteSet(PromptsIn(q)) /\ Cardinality(PromptsIn(q)) \in Nat
  BY PromptsFinite
<1> HIDE DEF n, r
<1>6. CASE h.op \in Prompts
  BY <1>3, <1>4, <1>5, <1>6, FS_AddElement DEF r
<1>7. CASE h.op \notin Prompts
  BY <1>3, <1>5, <1>7 DEF r
<1> QED  BY <1>6, <1>7

LEMMA PromptsTaken ==
  ASSUME NEW q \in Seq(Handlers), q # <<>>
  PROVE  Cardinality(PromptsIn(q))
           = Cardinality(PromptsIn(Tail(q)))
               + (IF Head(q).op \in Prompts THEN 1 ELSE 0)
<1> DEFINE n == Len(q)
           r == Tail(q)
<1>1. /\ n \in Nat /\ n # 0 /\ Len(r) = n - 1 /\ Head(q) = q[1]
      /\ r \in Seq(Handlers)
      /\ \A i \in 1 .. Len(r) : r[i] = q[i + 1]
  BY HeadTailProperties, LenProperties, EmptySeq
<1>2. DOMAIN q = 1 .. n /\ DOMAIN r = 1 .. n - 1
  BY <1>1, PromptsFinite
<1> DEFINE T == {i \in 2 .. n : q[i].op \in Prompts}
           f == [i \in PromptsIn(r) |-> i + 1]
<1>3. f \in Surjection(PromptsIn(r), T) /\ f \in Injection(PromptsIn(r), T)
  <2> HIDE DEF r
  <2>1. \A i \in PromptsIn(r) : i \in 1 .. n - 1 /\ r[i].op \in Prompts
    BY <1>2 DEF PromptsIn
  <2>2. \A i \in PromptsIn(r) : i + 1 \in T
    BY <1>1, <2>1
  <2>3. ASSUME NEW j \in T PROVE j - 1 \in PromptsIn(r) /\ f[j - 1] = j
    <3>1. j - 1 \in 1 .. n - 1 /\ j - 1 + 1 = j
      BY <1>1
    <3>2. r[j - 1] = q[j]
      BY <1>1, <3>1
    <3>3. j - 1 \in PromptsIn(r)
      BY <1>2, <3>1, <3>2 DEF PromptsIn
    <3> QED  BY <3>1, <3>3
  <2>4. \A i, j \in PromptsIn(r) : f[i] = f[j] => i = j
    BY <2>1
  <2>5. f \in [PromptsIn(r) -> T]
    BY <2>2
  <2> HIDE DEF f, T
  <2> QED  BY <2>3, <2>4, <2>5 DEF Surjection, Injection, IsInjective
<1>4. IsFiniteSet(PromptsIn(r)) /\ Cardinality(PromptsIn(r)) \in Nat
  BY <1>1, PromptsFinite
<1>5. IsFiniteSet(T) /\ Cardinality(T) = Cardinality(PromptsIn(r))
  BY <1>3, <1>4, FS_Surjection
<1>6. PromptsIn(q) = T \cup (IF q[1].op \in Prompts THEN {1} ELSE {}) /\ 1 \notin T
  <2>1. 1 .. n = {1} \cup (2 .. n)
    BY <1>1
  <2> QED  BY <1>2, <2>1 DEF PromptsIn
<1> HIDE DEF T, r
<1>7. CASE q[1].op \in Prompts
  <2>1. Cardinality(T \cup {1}) = Cardinality(T) + 1
    BY <1>5, <1>6, FS_AddElement
  <2>2. PromptsIn(q) = T \cup {1} /\ Head(q).op \in Prompts
    BY <1>1, <1>6, <1>7
  <2> QED  BY <1>5, <2>1, <2>2 DEF r
<1>8. CASE q[1].op \notin Prompts
  BY <1>1, <1>4, <1>5, <1>6, <1>8 DEF r
<1> QED  BY <1>7, <1>8

(* What a prompt and a line that is taken do to the dialogues.             *)
LEMMA AskingType ==
  ASSUME NEW s \in ProcessStates
  PROVE  Asking(s) \in Nat /\ Len(s.stdin) \in Nat
<1>1. Len(s.stdin) \in Nat
  BY LenProperties DEF ProcessStates
<1>2. Cardinality(PromptsIn(s.ready)) \in Nat
  BY ReadyType, PromptsFinite
<1> QED  BY <1>1, <1>2 DEF Asking

(* The receives that are ready have received.                              *)
ReceivesOk(q) == \A i \in 1 .. Len(q) : q[i].op = "receive" => q[i].ok

(* t has the terminal of s, and the same handlers are ready.               *)
AtTerminal(s, t) ==
  /\ t.stdin = s.stdin /\ t.input_buffer_ = s.input_buffer_
  /\ t.ready = s.ready

(* A client without a dialogue at its terminal, ...                        *)
Silent(s) ==
  s.stdin = <<>> /\ s.input_buffer_ = <<>> /\ Without(s.ready, Prompts)

(* ... with one that waits for the user, alone, ...                        *)
Asked(s) ==
  /\ \E e : s.stdin = <<e>> /\ e.alone
  /\ s.input_buffer_ = <<>> /\ Without(s.ready, Prompts)

(* ... and with one the user has answered.                                 *)
Typed(s) ==
  /\ s.stdin = <<>>
  /\ \E l : s.input_buffer_ = <<l>> /\ l # NoText
  /\ \E h \in Handlers : /\ h.op \in Prompts /\ h.line # NoText
                         /\ Lone(s.ready, Prompts, h)

(* One with whom the dialogue ends, at an empty line, ...                  *)
Blanked(s) ==
  /\ s.stdin = <<>> /\ s.input_buffer_ = <<NoText>>
  /\ \E h \in Handlers : /\ h.op \in Prompts /\ h.line = NoText
                         /\ Lone(s.ready, Prompts, h)

(* ... and one with whom it has.                                           *)
Finished(s) == s.stdin = <<>> /\ Without(s.ready, Prompts)

LEMMA SameTerminal ==
  ASSUME NEW s, NEW t, AtTerminal(s, t)
  PROVE  /\ Asking(t) = Asking(s)
         /\ Silent(s) => Silent(t)
         /\ Asked(s) => Asked(t)
         /\ Typed(s) => Typed(t)
         /\ Blanked(s) => Blanked(t)
         /\ Finished(s) => Finished(t)
         /\ ReceivesOk(s.ready) => ReceivesOk(t.ready)
BY DEF AtTerminal, Asking, Silent, Asked, Typed, Blanked, Finished

LEMMA PromptAsks ==
  ASSUME NEW s \in ProcessStates, NEW p \in Prompts
  PROVE  /\ Asking(Prompt(s, p)) = Asking(s) + 1
         /\ Silent(s) => Asked(Prompt(s, p))
<1>1. CASE s.input_buffer_ # <<>>
  <2> DEFINE h == LineRead(p, Head(s.input_buffer_))
  <2>1. Head(s.input_buffer_) \in Lines
    BY <1>1, HeadTailProperties DEF ProcessStates
  <2>2. h \in Handlers
    BY <2>1, HandlerTypes
  <2>3. h.op \in Prompts
    BY DEF LineRead, Done, Failed
  <2>4. Prompt(s, p) = Post(s, h)
    BY <1>1 DEF Prompt
  <2> HIDE DEF h
  <2>5. Post(s, h).ready = Append(s.ready, h) /\ Post(s, h).stdin = s.stdin
    BY DEF Post, ProcessStates
  <2>6. Cardinality(PromptsIn(Append(s.ready, h)))
          = Cardinality(PromptsIn(s.ready)) + 1
    BY <2>2, <2>3, ReadyType, PromptsAppended
  <2>7. Len(s.stdin) \in Nat /\ Cardinality(PromptsIn(s.ready)) \in Nat
    BY ReadyType, PromptsFinite, AskingType
  <2>8. Asking(Post(s, h)) = Asking(s) + 1
    BY <2>5, <2>6, <2>7 DEF Asking
  <2> QED  BY <1>1, <2>4, <2>8 DEF Silent
<1>2. CASE s.input_buffer_ = <<>>
  <2> DEFINE e == [prompt |-> p, alone |-> s.stdin = <<>>]
             t == Prompt(s, p)
  <2>1. t = [s EXCEPT !.stdin = Append(s.stdin, e)]
    BY <1>2 DEF Prompt
  <2>2. s.stdin \in Seq([prompt : Prompts, alone : BOOLEAN])
        /\ e \in [prompt : Prompts, alone : BOOLEAN]
    BY DEF ProcessStates
  <2>3. s.stdin = <<>> => e.alone
    OBVIOUS
  <2> HIDE DEF e, t
  <2>4. Len(Append(s.stdin, e)) = Len(s.stdin) + 1
    BY <2>2, AppendProperties
  <2>5. s.stdin = <<>> => Append(s.stdin, e) = <<e>>
    OBVIOUS
  <2>6. /\ t.stdin = Append(s.stdin, e) /\ t.ready = s.ready
        /\ t.input_buffer_ = s.input_buffer_
    BY <2>1 DEF ProcessStates
  <2>7. Len(s.stdin) \in Nat /\ Cardinality(PromptsIn(s.ready)) \in Nat
    BY ReadyType, PromptsFinite, AskingType
  <2>8. Asking(t) = Asking(s) + 1
    BY <2>4, <2>6, <2>7 DEF Asking
  <2>9. Silent(s) => Asked(t)
    BY <2>3, <2>5, <2>6 DEF Silent, Asked
  <2> QED  BY <2>8, <2>9 DEF t
<1> QED  BY <1>1, <1>2

LEMMA TakeLineAsks ==
  ASSUME NEW s \in ProcessStates
  PROVE  /\ Asking(TakeLine(s)) = Asking(s)
         /\ TakeLine(s).ready = s.ready /\ TakeLine(s).stdin = s.stdin
         /\ \A l : s.input_buffer_ = <<l>> =>
              TakeLine(s).input_buffer_ = <<>> /\ LineIn(s) = l
<1>1. TakeLine(s) = [s EXCEPT !.input_buffer_ = TakeLine(s).input_buffer_]
  BY DEF TakeLine, ProcessStates
<1>2. TakeLine(s).ready = s.ready /\ TakeLine(s).stdin = s.stdin
  BY <1>1 DEF ProcessStates
<1>3. ASSUME NEW l, s.input_buffer_ = <<l>>
      PROVE  TakeLine(s).input_buffer_ = <<>> /\ LineIn(s) = l
  <2>1. <<l>> # <<>> /\ Head(<<l>>) = l /\ Tail(<<l>>) = <<>>
    OBVIOUS
  <2>2. TakeLine(s).input_buffer_ = Tail(s.input_buffer_)
    BY <1>3, <2>1 DEF TakeLine, ProcessStates
  <2> QED  BY <1>3, <2>1, <2>2 DEF LineIn
<1> QED  BY <1>2, <1>3 DEF Asking

LEMMA DispatchAsks ==
  ASSUME NEW s \in ProcessStates, NEW m \in ServerCalls
  PROVE  /\ Asking(Dispatch(s, m)) <= Asking(s) + 1
         /\ m # "on_subscribeShip" => Asking(Dispatch(s, m)) = Asking(s) + 1
         /\ Silent(s) /\ m # "on_subscribeShip" => Asked(Dispatch(s, m))
<1>1. IF m = "on_subscribeShip" THEN Dispatch(s, m) = s
      ELSE \E p \in Prompts : Dispatch(s, m) = Prompt(s, p)
  BY DEF Dispatch, ServerCalls, read_username, read_message, Prompts
<1>2. Asking(s) \in Nat
  BY AskingType
<1> QED  BY <1>1, <1>2, PromptAsks

(* write() leaves the terminal alone, and so do the handlers of a receive  *)
(* and of a write.                                                         *)
LEMMA WriteAtTerminal ==
  ASSUME NEW s \in ProcessStates, NEW m \in Requests, isOpen(s)
  PROVE  AtTerminal(s, write(s, m))
<1> DEFINE t == [s EXCEPT !.outbound_messages_ = PushBack(@, m)]
           v == [t EXCEPT !.outbound_messages_ = Consolidate(@)]
<1>1. write(s, m) \in {t, async_write_one(t)}
  BY DEF write
<1>2. isOpen(t)
  BY DEF isOpen, ProcessStates
<1>3. AtTerminal(s, t)
  BY DEF AtTerminal, ProcessStates
<1>4. async_write_one(t) = [v EXCEPT !.writing = TRUE]
  BY <1>2 DEF async_write_one
<1>5. AtTerminal(s, [v EXCEPT !.writing = TRUE])
  BY DEF AtTerminal, ProcessStates
<1> QED  BY <1>1, <1>3, <1>4, <1>5

LEMMA ReceiveAtTerminal ==
  ASSUME NEW s \in ProcessStates, isOpen(s)
  PROVE  /\ AtTerminal(s, async_receive(s))
         /\ async_receive(s).outbound_messages_ = s.outbound_messages_
         /\ async_receive(s).receiving = s.receiving + 1
BY DEF async_receive, AtTerminal, ProcessStates

(* The terminal after the first handler has run, while the socket is       *)
(* connected and no operation on it has failed.                            *)
LEMMA HandledReceive ==
  ASSUME NEW s \in ProcessStates, s.ready # <<>>, Up(s),
         Head(s.ready).op = "receive", Head(s.ready).ok
  PROVE  AtTerminal(Next1(s), Handled(s)) /\ ~Called(s)
<1> DEFINE n == Next1(s)
           v == [n EXCEPT !.incomming_bytes_ = @ \o Head(s.ready).got]
           u == Handled(s)
<1>1. /\ n \in ProcessStates /\ Head(s.ready) \in Handlers
      /\ n.socket = s.socket /\ n.outbound_messages_ = s.outbound_messages_
      /\ n.incomming_bytes_ = s.incomming_bytes_
  BY NextFields
<1>2. u = async_receive(v)
  BY DEF Handled, Handle, on_receive
<1> HIDE DEF n, u
<1>3. /\ v.stdin = n.stdin /\ v.input_buffer_ = n.input_buffer_
      /\ v.ready = n.ready /\ v.outbound_messages_ = n.outbound_messages_
      /\ v.socket = "connected"
  BY <1>1 DEF ProcessStates, Up, Place
<1>4. v \in ProcessStates
  <2>1. n.incomming_bytes_ \o Head(s.ready).got \in Seq(Pieces)
    BY <1>1, ConcatProperties DEF ProcessStates, Handlers
  <2> QED  BY <1>1, <2>1 DEF ProcessStates
<1> HIDE DEF v
<1>5. AtTerminal(v, u) /\ u.outbound_messages_ = v.outbound_messages_
  BY <1>2, <1>3, <1>4, ReceiveAtTerminal DEF isOpen
<1>6. Len(s.outbound_messages_.msgs) \in Nat
  BY LenProperties DEF ProcessStates, Queues
<1>7. ~Called(s)
  BY <1>1, <1>3, <1>5, <1>6 DEF Called, u
<1> QED  BY <1>3, <1>5, <1>7 DEF AtTerminal, u, n

LEMMA HandledWrite ==
  ASSUME NEW s \in ProcessStates, s.ready # <<>>, Up(s),
         Head(s.ready).op = "write", Head(s.ready).ok
  PROVE  AtTerminal(Next1(s), Handled(s)) /\ ~Called(s)
<1> DEFINE n == Next1(s)
           q == s.outbound_messages_
           v == [n EXCEPT !.outbound_messages_ = PopFront(@)]
           w == [v EXCEPT !.outbound_messages_ = Consolidate(@)]
           u == Handled(s)
<1>1. n \in ProcessStates /\ n.socket = s.socket /\ n.outbound_messages_ = q
  BY NextFields
<1>2. q.msgs # <<>> /\ q \in Queues(Requests)
  BY OnlineTaken DEF ProcessStates
<1>3. u \in {v, async_write_one(v)}
  BY <1>1, <1>2 DEF Handled, Handle, onWrite
<1> HIDE DEF n, u
<1>4. isOpen(v)
  BY <1>1 DEF isOpen, ProcessStates, Up, Place
<1>5. async_write_one(v) = [w EXCEPT !.writing = TRUE]
  BY <1>4 DEF async_write_one
<1>6. AtTerminal(n, v) /\ v.outbound_messages_ = PopFront(q)
  BY <1>1 DEF AtTerminal, ProcessStates
<1>7. /\ AtTerminal(n, [w EXCEPT !.writing = TRUE])
      /\ [w EXCEPT !.writing = TRUE].outbound_messages_ = Consolidate(PopFront(q))
  BY <1>1 DEF AtTerminal, ProcessStates
<1> HIDE DEF v, w
<1>8. /\ AtTerminal(n, u)
      /\ u.outbound_messages_ \in {PopFront(q), Consolidate(PopFront(q))}
  BY <1>3, <1>5, <1>6, <1>7
<1>9. u.outbound_messages_.msgs = Rest(q)
  <2>1. PopFront(q) \in Queues(Requests) /\ PopFront(q).msgs = Rest(q)
    BY <1>2, PopFrontProperties
  <2>2. Consolidate(PopFront(q)).msgs = Rest(q)
    BY <2>1, ConsolidateProperties
  <2> QED  BY <1>8, <2>1, <2>2
<1>10. ~Called(s)
  <2>1. /\ Len(Rest(q)) = Len(q.msgs) - q.front
        /\ q.front \in Nat /\ Len(q.msgs) \in Nat
    BY <1>2, RestElements, LenProperties DEF Queues
  <2> QED  BY <1>9, <2>1 DEF Called, q, u
<1> QED  BY <1>8, <1>10 DEF u, n

LEMMA HandledConnect ==
  ASSUME NEW s \in ProcessStates, s.ready # <<>>, Up(s),
         Head(s.ready).op = "connect"
  PROVE  /\ AtTerminal(Prompt(Next1(s), "read_username"), Handled(s))
         /\ ~Called(s) /\ Handled(s).receiving = s.receiving + 1
<1> DEFINE n == Next1(s)
           v == Prompt(n, "read_username")
           u == Handled(s)
<1>1. /\ n \in ProcessStates /\ n.socket = s.socket
      /\ n.outbound_messages_ = s.outbound_messages_
      /\ n.receiving = s.receiving
  BY NextFields
<1>2. Head(s.ready) = Done("connect")
  BY OnlineTaken DEF AttemptOps
<1>3. Head(s.ready).ok
  BY <1>2 DEF Done, Failed
<1>4. isOpen(n)
  BY <1>1 DEF isOpen, Up, Place
<1>5. u = async_receive(v)
  BY <1>3, <1>4 DEF Handled, Handle, onConnect, transport_open, read_username
<1> HIDE DEF n, u
<1>6. v \in ProcessStates /\ Aside(n, v)
  BY <1>1, PromptAside DEF Prompts
<1> HIDE DEF v
<1>7. AtTerminal(v, u) /\ u.outbound_messages_ = v.outbound_messages_
      /\ u.receiving = v.receiving + 1
  BY <1>4, <1>5, <1>6, ReceiveAtTerminal DEF Aside, isOpen
<1>8. Len(s.outbound_messages_.msgs) \in Nat
  BY LenProperties DEF ProcessStates, Queues
<1>9. ~Called(s)
  BY <1>1, <1>6, <1>7, <1>8 DEF Called, u, Aside
<1> QED  BY <1>1, <1>6, <1>7, <1>9 DEF Aside, u, n, v

LEMMA HandledPrompt ==
  ASSUME NEW s \in ProcessStates, s.ready # <<>>, Up(s),
         Head(s.ready).op \in Prompts
  PROVE  LET n == Next1(s)
             h == Head(s.ready)
         IN  /\ Called(s) => /\ AtTerminal(TakeLine(n), Handled(s))
                             /\ h.op = "read_username"
             /\ ~Called(s) => \/ Handled(s) \in {n, TakeLine(n)}
                              \/ \E p \in Prompts :
                                   Handled(s) = Prompt(TakeLine(n), p)
             /\ h.line # NoText /\ LineIn(n) # NoText =>
                  \/ Called(s)
                  \/ \E p \in Prompts : Handled(s) = Prompt(TakeLine(n), p)
             /\ h.line = NoText /\ LineIn(n) = NoText =>
                  ~Called(s) /\ Handled(s) \in {n, TakeLine(n)}
<1> DEFINE n == Next1(s)
           v == TakeLine(n)
           h == Head(s.ready)
           m == setUserNameCall(LineIn(n))
           u == Handled(s)
<1>1. /\ n \in ProcessStates /\ h \in Handlers /\ n.socket = s.socket
      /\ n.outbound_messages_ = s.outbound_messages_
  BY NextFields
<1>2. v \in ProcessStates /\ Aside(n, v) /\ LineIn(n) \in Lines
  BY <1>1, TakeLineAside, TakeLineEffect
<1>3. ASSUME NEW p \in Prompts
      PROVE  Prompt(v, p).outbound_messages_ = s.outbound_messages_
  BY <1>1, <1>2, PromptAside DEF Aside
<1>4. u.outbound_messages_ = s.outbound_messages_ => ~Called(s)
  <2>1. Len(s.outbound_messages_.msgs) \in Nat
    BY LenProperties DEF ProcessStates, Queues
  <2> QED  BY <2>1 DEF Called
<1>5. v.outbound_messages_ = s.outbound_messages_ /\ v.socket = s.socket
  BY <1>1, <1>2 DEF Aside
<1>6. LineIn(n) # NoText => m \in Requests
  BY <1>2 DEF Lines, setUserNameCall, Requests
<1>7. ASSUME u = write(v, m), LineIn(n) # NoText
      PROVE  Called(s) /\ AtTerminal(v, u)
  <2>1. isOpen(v)
    BY <1>5 DEF isOpen, Up, Place
  <2>2. AtTerminal(v, u)
    BY <1>2, <1>6, <1>7, <2>1, WriteAtTerminal
  <2>3. u.outbound_messages_.msgs = Append(s.outbound_messages_.msgs, m)
    BY <1>2, <1>5, <1>6, <1>7, WriteCallFields
  <2>4. s.outbound_messages_.msgs \in Seq(Requests)
    BY DEF ProcessStates, Queues
  <2>5. Len(Append(s.outbound_messages_.msgs, m))
          = Len(s.outbound_messages_.msgs) + 1
       /\ Len(s.outbound_messages_.msgs) \in Nat
    BY <1>6, <1>7, <2>4, AppendProperties, LenProperties
  <2> HIDE DEF u, m
  <2> QED  BY <2>2, <2>3, <2>5 DEF Called, u
<1>8. CASE h.op = "read_username"
  <2>1. u = IF h.line = NoText THEN n
            ELSE IF LineIn(n) # NoText THEN write(v, m)
                 ELSE Prompt(v, "read_username")
    BY <1>8 DEF Handled, Handle, onUserName, read_username
  <2> HIDE DEF n, u, v, m, h
  <2>2. CASE u = n \/ (u = Prompt(v, "read_username") /\ LineIn(n) = NoText)
    <3>1. ~Called(s)
      BY <1>1, <1>3, <1>4, <2>2 DEF Prompts
    <3>2. ~(h.line # NoText /\ LineIn(n) # NoText)
      BY <1>7, <2>1, <3>1 DEF n, u, v, m, h
    <3>3. u = n \/ \E p \in Prompts : u = Prompt(v, p)
      BY <2>2 DEF Prompts
    <3>4. h.line = NoText => u = n
      BY <2>1
    <3> QED  BY <3>1, <3>2, <3>3, <3>4 DEF n, u, v, h
  <2>3. CASE u = write(v, m) /\ LineIn(n) # NoText
    BY <1>7, <1>8, <2>3 DEF n, u, v, m, h
  <2> QED  BY <2>1, <2>2, <2>3
<1>9. CASE h.op = "read_message"
  <2>1. u = IF LineIn(n) # NoText THEN Prompt(v, "read_message") ELSE v
    BY <1>9 DEF Handled, Handle, onMessageLine, read_message
  <2> HIDE DEF n, u, v, m, h
  <2>2. ~Called(s)
    BY <1>3, <1>4, <1>5, <2>1 DEF Prompts
  <2> QED  BY <1>9, <2>1, <2>2 DEF n, u, v, h, Prompts
<1> QED  BY <1>8, <1>9 DEF Prompts

(* How many dialogues each of these states of the terminal has.            *)
LEMMA TidyAsks ==
  ASSUME NEW s \in ProcessStates
  PROVE  /\ Silent(s) => Asking(s) = 0
         /\ Asked(s) \/ Typed(s) \/ Blanked(s) => Asking(s) = 1
         /\ Finished(s) => Asking(s) = 0
<1> DEFINE k == Cardinality(PromptsIn(s.ready))
<1>1. /\ k \in Nat /\ s.ready \in Seq(Handlers)
      /\ Without(s.ready, Prompts) <=> k = 0
  BY ReadyType, PromptsFinite
<1>2. Len(<<>>) = 0 /\ \A e : Len(<<e>>) = 1
  OBVIOUS
<1>3. ASSUME NEW h \in Handlers, h.op \in Prompts, Lone(s.ready, Prompts, h)
      PROVE  k = 1
  <2>1. PICK i \in 1 .. Len(s.ready) :
          /\ s.ready[i] = h
          /\ \A j \in 1 .. Len(s.ready) : s.ready[j].op \in Prompts => j = i
    BY <1>3 DEF Lone
  <2>2. DOMAIN s.ready = 1 .. Len(s.ready)
    BY <1>1, PromptsFinite
  <2>3. PromptsIn(s.ready) = {i}
    BY <1>3, <2>1, <2>2 DEF PromptsIn
  <2> QED  BY <2>3, FS_Singleton
<1> HIDE DEF k
<1>4. s.stdin = <<>> => Asking(s) = k
  <2>1. s.stdin = <<>> => Len(s.stdin) = 0
    BY <1>2
  <2> QED  BY <1>1, <2>1 DEF Asking, k
<1>5. Silent(s) => Asking(s) = 0
  BY <1>1, <1>4 DEF Silent
<1>6. ASSUME Asked(s) PROVE Asking(s) = 1
  <2>1. PICK e : s.stdin = <<e>>
    BY <1>6 DEF Asked
  <2>2. Len(s.stdin) = 1
    BY <1>2, <2>1
  <2>3. k = 0
    BY <1>1, <1>6 DEF Asked
  <2>4. Asking(s) = Len(s.stdin) + k
    BY DEF Asking, k
  <2> QED  BY <2>2, <2>3, <2>4
<1>7. Typed(s) \/ Blanked(s) => Asking(s) = 1
  BY <1>3, <1>4 DEF Typed, Blanked
<1>8. Finished(s) => Asking(s) = 0
  BY <1>1, <1>4 DEF Finished
<1> QED  BY <1>5, <1>6, <1>7, <1>8

LEMMA FollowedOk ==
  ASSUME NEW q \in Seq(Handlers), NEW r \in Seq(Handlers), Followed(q, r),
         ReceivesOk(q)
  PROVE  ReceivesOk(r)
<1>1. Len(q) \in Nat /\ Len(r) \in Nat
  BY LenProperties
<1>2. ASSUME NEW i \in 1 .. Len(r), r[i].op = "receive" PROVE r[i].ok
  <2>1. ~(Len(q) < i)
    BY <1>2 DEF Followed, Prompts
  <2>2. i \in 1 .. Len(q)
    BY <1>1, <2>1
  <2> QED  BY <1>2, <2>2 DEF Followed, ReceivesOk
<1> QED  BY <1>2 DEF ReceivesOk

(* What is left of the terminal when the first handler is taken.           *)
LEMMA NextAsks ==
  ASSUME NEW s \in ProcessStates, s.ready # <<>>
  PROVE  LET n == Next1(s)
             h == Head(s.ready)
         IN  /\ Asking(s) = Asking(n) + (IF h.op \in Prompts THEN 1 ELSE 0)
             /\ h.op \notin Prompts => /\ Silent(s) => Silent(n)
                                       /\ Asked(s) => Asked(n)
                                       /\ Typed(s) => Typed(n)
                                       /\ Blanked(s) => Blanked(n)
                                       /\ Finished(s) => Finished(n)
             /\ h.op \in Prompts =>
                  /\ ~Silent(s) /\ ~Asked(s) /\ ~Finished(s)
                  /\ Typed(s) => /\ h.line # NoText /\ LineIn(n) # NoText
                                 /\ Silent(TakeLine(n))
                  /\ Blanked(s) => /\ h.line = NoText /\ LineIn(n) = NoText
                                   /\ Finished(n) /\ Finished(TakeLine(n))
             /\ ReceivesOk(s.ready) => /\ ReceivesOk(n.ready)
                                       /\ h.op = "receive" => h.ok
<1> DEFINE n == Next1(s)
           h == Head(s.ready)
<1>1. /\ n.ready = Tail(s.ready) /\ n.stdin = s.stdin
      /\ n.input_buffer_ = s.input_buffer_ /\ n \in ProcessStates
      /\ h \in Handlers
  <2>1. n.stdin = s.stdin /\ n.input_buffer_ = s.input_buffer_
    BY DEF Next1, ProcessStates
  <2> QED  BY <2>1, NextFields
<1>2. s.ready \in Seq(Handlers) /\ Tail(s.ready) \in Seq(Handlers)
  BY ReadyType, HeadTailProperties
<1>3. /\ Len(s.stdin) \in Nat /\ Cardinality(PromptsIn(Tail(s.ready))) \in Nat
      /\ Cardinality(PromptsIn(s.ready))
           = Cardinality(PromptsIn(Tail(s.ready)))
               + (IF h.op \in Prompts THEN 1 ELSE 0)
  BY <1>2, PromptsTaken, PromptsFinite, AskingType
<1>4. /\ Without(s.ready, Prompts) => /\ h.op \notin Prompts
                                      /\ Without(Tail(s.ready), Prompts)
      /\ \A g : Lone(s.ready, Prompts, g) /\ g.op \in Prompts =>
           /\ h.op \in Prompts => h = g /\ Without(Tail(s.ready), Prompts)
           /\ h.op \notin Prompts => Lone(Tail(s.ready), Prompts, g)
  BY <1>2, Taken
<1>5. ReceivesOk(s.ready) => /\ ReceivesOk(Tail(s.ready))
                             /\ h.op = "receive" => h.ok
  <2> DEFINE q == s.ready
  <2>1. /\ Len(q) \in Nat /\ Len(q) # 0 /\ Len(Tail(q)) = Len(q) - 1
        /\ Head(q) = q[1]
        /\ \A i \in 1 .. Len(Tail(q)) : Tail(q)[i] = q[i + 1]
    BY <1>2, HeadTailProperties, LenProperties, EmptySeq
  <2> HIDE DEF q
  <2>2. 1 \in 1 .. Len(q) /\ \A i \in 1 .. Len(Tail(q)) : i + 1 \in 1 .. Len(q)
    BY <2>1
  <2>3. ReceivesOk(q) => ReceivesOk(Tail(q)) /\ (q[1].op = "receive" => q[1].ok)
    BY <2>1, <2>2 DEF ReceivesOk
  <2> QED  BY <2>1, <2>3 DEF q
<1> HIDE DEF n, h
<1>6. Asking(s) = Asking(n) + (IF h.op \in Prompts THEN 1 ELSE 0)
  BY <1>1, <1>3 DEF Asking
<1>7. ASSUME h.op \notin Prompts
      PROVE  /\ Silent(s) => Silent(n)
             /\ Asked(s) => Asked(n)
             /\ Typed(s) => Typed(n)
             /\ Blanked(s) => Blanked(n)
             /\ Finished(s) => Finished(n)
  BY <1>1, <1>4, <1>7 DEF Silent, Asked, Typed, Blanked, Finished
<1>8. ASSUME h.op \in Prompts
      PROVE  /\ ~Silent(s) /\ ~Asked(s) /\ ~Finished(s)
             /\ Typed(s) => /\ h.line # NoText /\ LineIn(n) # NoText
                            /\ Silent(TakeLine(n))
             /\ Blanked(s) => /\ h.line = NoText /\ LineIn(n) = NoText
                              /\ Finished(n) /\ Finished(TakeLine(n))
  <2>1. ~Silent(s) /\ ~Asked(s) /\ ~Finished(s)
    BY <1>4, <1>8 DEF Silent, Asked, Finished
  <2>2. ASSUME Typed(s)
        PROVE  /\ h.line # NoText /\ LineIn(n) # NoText
               /\ Silent(TakeLine(n))
    <3>1. PICK l : s.input_buffer_ = <<l>> /\ l # NoText
      BY <2>2 DEF Typed
    <3>2. h.line # NoText /\ Without(Tail(s.ready), Prompts) /\ s.stdin = <<>>
      BY <1>4, <1>8, <2>2 DEF Typed
    <3>3. /\ TakeLine(n).ready = Tail(s.ready) /\ TakeLine(n).stdin = <<>>
          /\ TakeLine(n).input_buffer_ = <<>> /\ LineIn(n) = l
      BY <1>1, <3>1, <3>2, TakeLineAsks
    <3> QED  BY <3>1, <3>2, <3>3 DEF Silent
  <2>3. ASSUME Blanked(s)
        PROVE  /\ h.line = NoText /\ LineIn(n) = NoText
               /\ Finished(n) /\ Finished(TakeLine(n))
    <3>1. s.input_buffer_ = <<NoText>>
      BY <2>3 DEF Blanked
    <3>2. h.line = NoText /\ Without(Tail(s.ready), Prompts) /\ s.stdin = <<>>
      BY <1>4, <1>8, <2>3 DEF Blanked
    <3>3. /\ TakeLine(n).ready = Tail(s.ready) /\ TakeLine(n).stdin = <<>>
          /\ LineIn(n) = NoText
      BY <1>1, <3>1, <3>2, TakeLineAsks
    <3> QED  BY <1>1, <3>2, <3>3 DEF Finished
  <2> QED  BY <2>1, <2>2, <2>3
<1> QED  BY <1>1, <1>5, <1>6, <1>7, <1>8 DEF n, h

(* A handler brings a dialogue to the terminal when the connection is      *)
(* made; otherwise it can but take one from there, into a call or into     *)
(* nothing, and if there is but one it takes none into nothing.            *)
AskedMore(s) == IF Called(s) THEN 1 ELSE 0

LEMMA HandledAsks ==
  ASSUME NEW s \in ProcessStates, s.ready # <<>>, Up(s),
         ReceivesOk(s.ready), Head(s.ready).op = "write" => Head(s.ready).ok
  PROVE  LET u == Handled(s)
             h == Head(s.ready)
         IN  /\ h.op = "connect" =>
                  /\ Asking(u) = Asking(s) + 1 /\ ~Called(s)
                  /\ u.receiving = s.receiving + 1
                  /\ Silent(s) => Asked(u)
             /\ h.op # "connect" =>
                  /\ Asking(u) + AskedMore(s) <= Asking(s)
                  /\ Silent(s) => Silent(u) /\ ~Called(s)
                  /\ Asked(s) => Asked(u) /\ ~Called(s)
                  /\ Typed(s) => \/ (Asked(u) \/ Typed(u)) /\ ~Called(s)
                                 \/ Silent(u) /\ Called(s)
                  /\ Blanked(s) => (Blanked(u) \/ Finished(u)) /\ ~Called(s)
                  /\ Finished(s) => Finished(u) /\ ~Called(s)
             /\ ReceivesOk(u.ready)
<1> DEFINE n == Next1(s)
           h == Head(s.ready)
           v == TakeLine(n)
           u == Handled(s)
<1>1. n \in ProcessStates /\ h \in Handlers /\ u \in ProcessStates
  BY NextFields
<1>2. /\ Asking(s) = Asking(n) + (IF h.op \in Prompts THEN 1 ELSE 0)
      /\ h.op \notin Prompts => /\ Silent(s) => Silent(n)
                                /\ Asked(s) => Asked(n)
                                /\ Typed(s) => Typed(n)
                                /\ Blanked(s) => Blanked(n)
                                /\ Finished(s) => Finished(n)
      /\ h.op \in Prompts =>
           /\ ~Silent(s) /\ ~Asked(s) /\ ~Finished(s)
           /\ Typed(s) => /\ h.line # NoText /\ LineIn(n) # NoText /\ Silent(v)
           /\ Blanked(s) => /\ h.line = NoText /\ LineIn(n) = NoText
                            /\ Finished(n) /\ Finished(v)
      /\ ReceivesOk(n.ready) /\ (h.op = "receive" => h.ok)
  BY NextAsks
<1>3. Asking(s) \in Nat /\ Asking(n) \in Nat /\ Asking(u) \in Nat
  BY <1>1, AskingType
<1>4. /\ v \in ProcessStates /\ Asking(v) = Asking(n) /\ v.ready = n.ready
  BY <1>1, TakeLineAside, TakeLineAsks
<1>5. h.op \in {"connect", "receive", "write"} \cup Prompts
  <2>1. h.op \in AttemptOps => h.op \in {"connect", "receive"}
    BY OnlineTaken, HandlerTypes
  <2> QED  BY <1>1, <2>1 DEF Handlers, Ops, AttemptOps
<1>6. ASSUME NEW w \in ProcessStates, w.ready = n.ready, NEW p \in Prompts
      PROVE  ReceivesOk(Prompt(w, p).ready)
  <2>1. Prompt(w, p) \in ProcessStates /\ Followed(w.ready, Prompt(w, p).ready)
    BY PromptAside DEF Aside
  <2> QED  BY <1>2, <1>6, <2>1, ReadyType, FollowedOk
<1>7. CASE h.op = "connect"
  <2> DEFINE w == Prompt(n, "read_username")
  <2>1. AtTerminal(w, u) /\ ~Called(s) /\ u.receiving = s.receiving + 1
    BY <1>7, HandledConnect
  <2>2. "read_username" \in Prompts /\ h.op \notin Prompts
    BY <1>7 DEF Prompts
  <2>3. Asking(w) = Asking(n) + 1 /\ (Silent(n) => Asked(w))
    BY <1>1, <2>2, PromptAsks
  <2>4. ReceivesOk(w.ready)
    BY <1>1, <1>6, <2>2
  <2> HIDE DEF w, u, n
  <2>5. Asking(u) = Asking(w) /\ (Asked(w) => Asked(u)) /\ ReceivesOk(u.ready)
    BY <2>1, <2>4, SameTerminal
  <2>6. Asking(u) = Asking(s) + 1 /\ (Silent(s) => Asked(u))
    BY <1>2, <1>3, <2>2, <2>3, <2>5
  <2> QED  BY <1>7, <2>1, <2>5, <2>6 DEF u, h
<1>8. CASE h.op \in {"receive", "write"}
  <2>1. AtTerminal(n, u) /\ ~Called(s)
    BY <1>2, <1>8, HandledReceive, HandledWrite
  <2>2. h.op \notin Prompts
    BY <1>8 DEF Prompts
  <2> HIDE DEF u, n
  <2>3. /\ Asking(u) = Asking(n) /\ (Silent(n) => Silent(u))
        /\ (Asked(n) => Asked(u)) /\ (Typed(n) => Typed(u))
        /\ (Blanked(n) => Blanked(u)) /\ (Finished(n) => Finished(u))
        /\ ReceivesOk(u.ready)
    BY <1>2, <2>1, SameTerminal
  <2> QED  BY <1>2, <1>3, <1>8, <2>1, <2>2, <2>3 DEF u, h, AskedMore
<1>9. CASE h.op \in Prompts
  <2>1. /\ Called(s) => AtTerminal(v, u)
        /\ ~Called(s) => u \in {n, v} \/ \E p \in Prompts : u = Prompt(v, p)
        /\ h.line # NoText /\ LineIn(n) # NoText =>
             Called(s) \/ \E p \in Prompts : u = Prompt(v, p)
        /\ h.line = NoText /\ LineIn(n) = NoText => ~Called(s) /\ u \in {n, v}
    BY <1>9, HandledPrompt
  <2>2. h.op # "connect"
    BY <1>9 DEF Prompts
  <2> HIDE DEF u, n, v
  <2>3. CASE Called(s)
    <3>1. Asking(u) = Asking(v) /\ (Silent(v) => Silent(u))
      BY <2>1, <2>3, SameTerminal
    <3>2. ReceivesOk(u.ready)
      BY <1>2, <1>4, <2>1, <2>3 DEF AtTerminal
    <3>3. ~Blanked(s) /\ ~Finished(s) /\ ~Silent(s) /\ ~Asked(s)
      BY <1>2, <1>9, <2>1, <2>3
    <3>4. Asking(u) + AskedMore(s) <= Asking(s)
      BY <1>2, <1>3, <1>4, <1>9, <2>3, <3>1 DEF AskedMore
    <3>5. Typed(s) => Silent(u)
      BY <1>2, <1>9, <3>1
    <3> QED  BY <2>2, <2>3, <3>2, <3>3, <3>4, <3>5 DEF u, h
  <2>4. ASSUME ~Called(s), NEW p \in Prompts, u = Prompt(v, p)
        PROVE  /\ Asking(u) + AskedMore(s) <= Asking(s)
               /\ ReceivesOk(u.ready) /\ (Typed(s) => Asked(u))
    BY <1>2, <1>3, <1>4, <1>6, <1>9, <2>4, PromptAsks DEF AskedMore
  <2>5. ASSUME ~Called(s), u \in {n, v}
        PROVE  /\ Asking(u) + AskedMore(s) <= Asking(s)
               /\ ReceivesOk(u.ready)
    BY <1>2, <1>3, <1>4, <1>9, <2>5 DEF AskedMore
  <2> QED  BY <1>2, <1>9, <2>1, <2>2, <2>3, <2>4, <2>5 DEF u, h, v, n
<1> QED  BY <1>5, <1>7, <1>8, <1>9

(* The handler of the connect runs once.                                   *)
LEMMA ConnectsOnce ==
  ASSUME NEW s \in ProcessStates, s.ready # <<>>, Up(s),
         ReceivesOk(s.ready), Head(s.ready).op = "write" => Head(s.ready).ok,
         Without(s.ready, {"connect"})
  PROVE  Without(Handled(s).ready, {"connect"})
<1> DEFINE n == Next1(s)
           h == Head(s.ready)
           v == TakeLine(n)
           u == Handled(s)
<1>1. /\ n \in ProcessStates /\ h \in Handlers /\ u \in ProcessStates
      /\ n.ready = Tail(s.ready)
  BY NextFields
<1>2. h.op # "connect" /\ Without(n.ready, {"connect"})
  BY <1>1, ReadyType, Taken
<1>3. h.op = "receive" => h.ok
  BY NextAsks
<1>4. h.op \in {"receive", "write"} \cup Prompts
  <2>1. h.op \in AttemptOps => h.op \in {"connect", "receive"}
    BY OnlineTaken, HandlerTypes
  <2> QED  BY <1>1, <1>2, <2>1 DEF Handlers, Ops, AttemptOps
<1>5. v \in ProcessStates /\ v.ready = n.ready
  BY <1>1, TakeLineAside, TakeLineAsks
<1>6. CASE h.op \in {"receive", "write"}
  <2>1. AtTerminal(n, u)
    BY <1>3, <1>6, HandledReceive, HandledWrite
  <2> QED  BY <1>2, <2>1 DEF AtTerminal
<1>7. CASE h.op \in Prompts
  <2>1. /\ Called(s) => AtTerminal(v, u)
        /\ ~Called(s) => u \in {n, v} \/ \E p \in Prompts : u = Prompt(v, p)
    BY <1>7, HandledPrompt
  <2> HIDE DEF u, n, v
  <2>2. ASSUME NEW p \in Prompts, u = Prompt(v, p)
        PROVE  Without(u.ready, {"connect"})
    <3>1. Followed(v.ready, u.ready)
      BY <1>5, <2>2, PromptAside DEF Aside
    <3>2. v.ready \in Seq(Handlers) /\ u.ready \in Seq(Handlers)
      BY <1>1, <1>5, ReadyType DEF u
    <3>3. {"connect"} \cap Prompts = {}
      BY DEF Prompts
    <3>4. Without(v.ready, {"connect"})
      BY <1>2, <1>5
    <3> QED  BY <3>1, <3>2, <3>3, <3>4, FollowedKeeps
  <2> QED  BY <1>2, <1>5, <2>1, <2>2 DEF AtTerminal, u
<1> QED  BY <1>4, <1>6, <1>7

(* A handler that is not one of the terminal leaves the dialogue there.    *)
LEMMA PostedAsks ==
  ASSUME NEW s \in ProcessStates, NEW t \in ProcessStates, NEW h \in Handlers,
         h.op \notin Prompts, t.ready = Append(s.ready, h),
         t.stdin = s.stdin, t.input_buffer_ = s.input_buffer_
  PROVE  /\ Asking(t) = Asking(s)
         /\ Silent(s) => Silent(t)
         /\ Asked(s) => Asked(t)
         /\ Typed(s) => Typed(t)
         /\ Blanked(s) => Blanked(t)
         /\ Finished(s) => Finished(t)
<1>1. s.ready \in Seq(Handlers)
  BY ReadyType
<1>2. Cardinality(PromptsIn(t.ready)) = Cardinality(PromptsIn(s.ready))
  <2>1. Cardinality(PromptsIn(s.ready)) \in Nat
    BY <1>1, PromptsFinite
  <2> QED  BY <1>1, <2>1, PromptsAppended
<1>3. /\ Without(s.ready, Prompts) => Without(t.ready, Prompts)
      /\ \A g : Lone(s.ready, Prompts, g) => Lone(t.ready, Prompts, g)
  BY <1>1, Appended
<1> QED  BY <1>2, <1>3 DEF Asking, Silent, Asked, Typed, Blanked, Finished

LEMMA PostKeepsTerminal ==
  ASSUME NEW s \in ProcessStates, NEW h \in Handlers
  PROVE  Post(s, h).stdin = s.stdin /\ Post(s, h).input_buffer_ = s.input_buffer_
BY DEF Post, ProcessStates

(* The user enters a name, which is the answer to the one dialogue there.  *)
LEMMA LineAsks ==
  ASSUME NEW s \in ProcessStates, s.stdin # <<>>, NEW line \in Lines
  PROVE  LET h == LineRead(Head(s.stdin).prompt, line)
             t == [Post(s, h) EXCEPT !.stdin = Tail(@),
                                     !.input_buffer_ = Append(@, line)]
         IN  /\ h \in Handlers /\ h.op \in Prompts
             /\ t.ready = Append(s.ready, h)
             /\ Asking(t) = Asking(s)
             /\ ~Silent(s) /\ ~Typed(s) /\ ~Blanked(s) /\ ~Finished(s)
             /\ Asked(s) => IF line = NoText THEN Blanked(t) ELSE Typed(t)
<1> DEFINE e == Head(s.stdin)
           h == LineRead(e.prompt, line)
           v == Post(s, h)
           t == [v EXCEPT !.stdin = Tail(@), !.input_buffer_ = Append(@, line)]
           k == Cardinality(PromptsIn(s.ready))
<1>1. /\ e \in [prompt : Prompts, alone : BOOLEAN]
      /\ Tail(s.stdin) \in Seq([prompt : Prompts, alone : BOOLEAN])
      /\ Len(Tail(s.stdin)) = Len(s.stdin) - 1 /\ Len(s.stdin) \in Nat
  <2>1. s.stdin \in Seq([prompt : Prompts, alone : BOOLEAN])
    BY DEF ProcessStates
  <2> QED  BY <2>1, HeadTailProperties, LenProperties
<1>2. h \in Handlers
  BY <1>1, HandlerTypes
<1>3. h.op \in Prompts /\ h.line = line
  BY <1>1 DEF LineRead, Done, Failed
<1> HIDE DEF h
<1>4. /\ v \in ProcessStates /\ v.ready = Append(s.ready, h)
      /\ v.stdin = s.stdin /\ v.input_buffer_ = s.input_buffer_
  BY <1>2, PostFields, PostKeepsTerminal
<1> HIDE DEF v
<1>5. /\ t.ready = Append(s.ready, h) /\ t.stdin = Tail(s.stdin)
      /\ t.input_buffer_ = Append(s.input_buffer_, line)
  BY <1>4 DEF ProcessStates
<1> HIDE DEF t
<1>6. Asking(t) = Asking(s)
  <2>1. Cardinality(PromptsIn(t.ready)) = k + 1
    BY <1>2, <1>3, <1>5, ReadyType, PromptsAppended
  <2>2. k \in Nat
    BY ReadyType, PromptsFinite
  <2>3. /\ Asking(s) = Len(s.stdin) + k
        /\ Asking(t) = Len(t.stdin) + Cardinality(PromptsIn(t.ready))
    BY DEF Asking
  <2>4. Len(t.stdin) = Len(s.stdin) - 1
    BY <1>1, <1>5
  <2> DEFINE l == Len(s.stdin)
  <2>5. /\ l \in Nat /\ Asking(s) = l + k /\ Asking(t) = (l - 1) + (k + 1)
    BY <1>1, <2>1, <2>3, <2>4
  <2> HIDE DEF k, l
  <2> QED  BY <2>2, <2>5
<1>7. ~Silent(s) /\ ~Typed(s) /\ ~Blanked(s) /\ ~Finished(s)
  BY DEF Silent, Typed, Blanked, Finished
<1>8. ASSUME Asked(s) PROVE IF line = NoText THEN Blanked(t) ELSE Typed(t)
  <2>1. PICK x : s.stdin = <<x>> /\ x.alone
    BY <1>8 DEF Asked
  <2>2. Head(s.stdin) = x /\ Tail(s.stdin) = <<>>
    BY <2>1
  <2>4. s.input_buffer_ = <<>> /\ Without(s.ready, Prompts)
    BY <1>8 DEF Asked
  <2>5. t.input_buffer_ = <<line>>
    <3>1. Append(<<>>, line) = <<line>>
      OBVIOUS
    <3> QED  BY <1>5, <2>4, <3>1
  <2>6. Lone(t.ready, Prompts, h)
    BY <1>2, <1>3, <1>5, <2>4, ReadyType, Appended
  <2>7. line # NoText => \E l : t.input_buffer_ = <<l>> /\ l # NoText
    BY <2>5
  <2>8. \E g \in Handlers : /\ g.op \in Prompts /\ g.line = line
                            /\ Lone(t.ready, Prompts, g)
    BY <1>2, <1>3, <2>6
  <2>9. CASE line = NoText
    BY <1>5, <2>2, <2>5, <2>8, <2>9 DEF Blanked
  <2>10. CASE line # NoText
    BY <1>5, <2>2, <2>7, <2>8, <2>10 DEF Typed
  <2> QED  BY <2>9, <2>10
<1> QED  BY <1>2, <1>3, <1>5, <1>6, <1>7, <1>8 DEF t, v, h
=============================================================================
