-------------------------- MODULE TalkClientProofs --------------------------
(***************************************************************************)
(* Proofs about TalkClient, for any lines and bounds.                      *)
(***************************************************************************)
EXTENDS TalkClientProps, ClientProcessProofs

(* What the steps of the client preserve.                                  *)
EInv == TypeOK /\ Engaged(client)

LEMMA InitEInv == Init => EInv
<1> SUFFICES ASSUME Init PROVE EInv
  OBVIOUS
<1>1. /\ <<>> \in Seq([prompt : Prompts, alone : BOOLEAN])
      /\ <<>> \in Seq(Lines) /\ <<>> \in Seq(Pieces)
      /\ <<>> \in Seq([op : Ops \cup Prompts, ok : BOOLEAN,
                       got : Seq(Pieces), line : Lines])
  BY EmptySeq
<1>2. EmptyQueue \in Queues(Requests)
  BY EmptyQueueProperties
<1>3. Constructed \in ProcessStates /\ Engaged(Constructed)
  BY <1>1, <1>2 DEF Constructed, ProcessStates, Engaged
<1>4. /\ 0 \in 0 .. MaxCrashes /\ 0 \in 0 .. MaxShips /\ 0 \in 0 .. MaxMoves
      /\ 0 \in 0 .. MaxRefusals
  BY BoundsAssumption
<1> QED  BY <1>1, <1>3, <1>4 DEF Init, EInv, TypeOK

(* Most steps change the process only.                                     *)
LEMMA ProcessOnly ==
  ASSUME EInv, UNCHANGED envVars,
         client' \in ProcessStates, Engaged(client')
  PROVE  EInv'
BY DEF EInv, TypeOK, envVars, session, counters, Engaged

LEMMA ThreadStep ==
  ASSUME EInv, Thread
  PROVE  EInv'
<1>0. client \in ProcessStates /\ Engaged(client)
  BY DEF EInv, TypeOK
<1>1. ASSUME NEW op \in Ops \cup Prompts, RunHandler(op)
      PROVE  EInv'
  <2> DEFINE h == Head(client.ready)
             t == [client EXCEPT !.ready = Tail(@)]
             s == Handle(t, h)
  <2>1. /\ h \in Handlers /\ t \in ProcessStates
        /\ Engaged(t) \/ h.op \in AttemptOps
    BY <1>0, <1>1, HeadEffect DEF RunHandler
  <2>2. /\ client' = IF s.loop = "poll" THEN [s EXCEPT !.loop = "update"]
                                        ELSE s
        /\ UNCHANGED envVars
    BY <1>1 DEF RunHandler
  <2> HIDE DEF h, t
  <2>3. s \in ProcessStates /\ Engaged(s)
    BY <2>1, HandleEffect
  <2> HIDE DEF s
  <2>4. client' \in ProcessStates /\ Engaged(client')
    BY <2>2, <2>3 DEF ProcessStates, Engaged
  <2> QED  BY <2>2, <2>4, ProcessOnly
<1>2. ASSUME client.incomming_bytes_ # <<>>
      PROVE  /\ Head(client.incomming_bytes_) \in Pieces
             /\ Head(client.incomming_bytes_).frame \in ServerCalls
             /\ Tail(client.incomming_bytes_) \in Seq(Pieces)
  <2>1. client.incomming_bytes_ \in Seq(Pieces)
    BY <1>0 DEF ProcessStates
  <2>2. /\ Head(client.incomming_bytes_) \in Pieces
        /\ Tail(client.incomming_bytes_) \in Seq(Pieces)
    BY <1>2, <2>1, HeadTailProperties
  <2> QED  BY <2>2 DEF Pieces
<1>3. ASSUME Update PROVE EInv'
  <2>1. UNCHANGED envVars
    BY <1>3 DEF Update
  <2>2. client' \in ProcessStates /\ Engaged(client')
    BY <1>0, <1>2, <1>3 DEF Update, ProcessStates, Engaged
  <2> QED  BY <2>1, <2>2, ProcessOnly
<1>4. ASSUME FinishFrame PROVE EInv'
  <2> DEFINE piece == Head(client.incomming_bytes_)
             s == [client EXCEPT !.incomming_bytes_ = Tail(@),
                                 !.loop = "update", !.half = "none"]
  <2>1. piece \in Pieces /\ piece.frame \in ServerCalls
    BY <1>2, <1>4 DEF FinishFrame
  <2>2. s \in ProcessStates /\ Engaged(s)
    BY <1>0, <1>2, <1>4 DEF FinishFrame, ProcessStates, Engaged
  <2>3. /\ client' = IF piece = [frame |-> client.half, part |-> 2]
                       THEN Dispatch(s, client.half)
                       ELSE [s EXCEPT !.failure = "mixed frame"]
        /\ UNCHANGED envVars
    BY <1>4 DEF FinishFrame
  <2> HIDE DEF piece, s
  <2>4. CASE piece = [frame |-> client.half, part |-> 2]
    <3>1. client.half \in ServerCalls
      BY <2>1, <2>4
    <3>2. client' \in ProcessStates /\ Engaged(client')
      BY <2>2, <2>3, <2>4, <3>1, DispatchEffect
    <3> QED  BY <2>3, <3>2, ProcessOnly
  <2>5. CASE piece # [frame |-> client.half, part |-> 2]
    <3>1. client' \in ProcessStates /\ Engaged(client')
      BY <2>2, <2>3, <2>5 DEF ProcessStates, Engaged
    <3> QED  BY <2>3, <3>1, ProcessOnly
  <2> QED  BY <2>4, <2>5
<1> QED  BY <1>1, <1>3, <1>4 DEF Thread

LEMMA ReactorStep ==
  ASSUME EInv, Reactor
  PROVE  EInv'
<1>0. client \in ProcessStates /\ Engaged(client)
  BY DEF EInv, TypeOK
<1>1. ASSUME ResolveCompletes PROVE EInv'
  <2>1. PICK h \in {Done("resolve"), Failed("resolve")} :
          client' = [Post(client, h) EXCEPT !.resolving = FALSE]
    BY <1>1 DEF ResolveCompletes
  <2>2. h \in Handlers /\ h.op = "resolve"
    BY <2>1, HandlerTypes DEF Ops
  <2> DEFINE t == Post(client, h)
  <2>3. /\ t \in ProcessStates
        /\ \E i \in 1 .. Len(t.ready) : t.ready[i].op \in AttemptOps
    BY <1>0, <2>2, CompletionEffect DEF Ops, AttemptOps
  <2> HIDE DEF t
  <2>4. client' \in ProcessStates /\ Engaged(client')
    BY <2>1, <2>3 DEF t, ProcessStates, Engaged
  <2> QED  BY <1>1, <2>4, ProcessOnly DEF ResolveCompletes
<1>2. ASSUME ConnectFails PROVE EInv'
  <2> DEFINE t == Post(client, Failed("connect"))
  <2>1. Failed("connect") \in Handlers /\ Failed("connect").op = "connect"
    BY HandlerTypes DEF Ops
  <2>2. /\ t \in ProcessStates
        /\ \E i \in 1 .. Len(t.ready) : t.ready[i].op \in AttemptOps
    BY <1>0, <2>1, CompletionEffect DEF Ops, AttemptOps
  <2>3. client' = [t EXCEPT !.connecting = FALSE] /\ UNCHANGED envVars
    BY <1>2 DEF ConnectFails
  <2> HIDE DEF t
  <2>4. client' \in ProcessStates /\ Engaged(client')
    BY <2>2, <2>3 DEF ProcessStates, Engaged
  <2> QED  BY <2>3, <2>4, ProcessOnly
<1>3. ASSUME ConnectSucceeds PROVE EInv'
  <2> DEFINE t == Post(client, Done("connect"))
  <2>1. Done("connect") \in Handlers /\ Done("connect").op = "connect"
    BY HandlerTypes DEF Ops
  <2>2. /\ t \in ProcessStates
        /\ \E i \in 1 .. Len(t.ready) : t.ready[i].op \in AttemptOps
    BY <1>0, <2>1, CompletionEffect DEF Ops, AttemptOps
  <2>3. client' = [t EXCEPT !.connecting = FALSE, !.socket = "connected"]
    BY <1>3 DEF ConnectSucceeds
  <2> HIDE DEF t
  <2>4. client' \in ProcessStates /\ Engaged(client')
    BY <2>2, <2>3 DEF ProcessStates, Engaged
  <2>5. <<>> \in Seq(Pieces)
    BY EmptySeq
  <2> QED  BY <1>3, <2>4, <2>5
           DEF ConnectSucceeds, EInv, TypeOK, session, counters, Engaged
<1>4. ASSUME ReceiveSucceeds PROVE EInv'
  <2>1. client.receiving \in Nat /\ client.receiving > 0
    BY <1>0, <1>4 DEF ReceiveSucceeds, ProcessStates
  <2>2. PICK k \in 1 .. Len(wire) :
          /\ client' = [Post(client, Received(SubSeq(wire, 1, k)))
                          EXCEPT !.receiving = @ - 1]
          /\ wire' = SubSeq(wire, k + 1, Len(wire))
    BY <1>4 DEF ReceiveSucceeds
  <2>3. /\ wire \in Seq(Pieces) /\ Len(wire) \in Nat
        /\ k \in Nat /\ \A i \in 1 .. Len(wire) : wire[i] \in Pieces
    BY LenProperties, ElementOfSeq DEF EInv, TypeOK
  <2>4. SubSeq(wire, 1, k) \in Seq(Pieces)
    BY <2>3, SubSeqProperties
  <2>5. SubSeq(wire, k + 1, Len(wire)) \in Seq(Pieces)
    BY <2>3, SubSeqProperties
  <2> DEFINE h == Received(SubSeq(wire, 1, k))
             t == Post(client, h)
  <2>6. h \in Handlers /\ h.op = "receive"
    BY <2>4, HandlerTypes
  <2> HIDE DEF h
  <2>7. /\ t \in ProcessStates
        /\ \E i \in 1 .. Len(t.ready) : t.ready[i].op \in AttemptOps
    BY <1>0, <2>6, CompletionEffect DEF Ops, AttemptOps
  <2>8. client' = [t EXCEPT !.receiving = client.receiving - 1]
    BY <1>0, <2>2 DEF h, Post, ProcessStates
  <2> HIDE DEF t
  <2> DEFINE n == client.receiving - 1
  <2>9. n \in Nat /\ client' = [t EXCEPT !.receiving = n]
    BY <2>1, <2>8
  <2> HIDE DEF n
  <2>10. client' \in ProcessStates /\ Engaged(client')
    BY <2>7, <2>9, OneReceived
  <2> QED  BY <1>4, <2>2, <2>5, <2>10
           DEF ReceiveSucceeds, EInv, TypeOK, session, counters, Engaged
<1>5. ASSUME ReceiveFails PROVE EInv'
  <2>1. client.receiving \in Nat /\ client.receiving > 0
    BY <1>0, <1>5 DEF ReceiveFails, ProcessStates
  <2> DEFINE t == Post(client, Failed("receive"))
  <2>2. Failed("receive") \in Handlers /\ Failed("receive").op = "receive"
    BY HandlerTypes DEF Ops
  <2>3. /\ t \in ProcessStates
        /\ \E i \in 1 .. Len(t.ready) : t.ready[i].op \in AttemptOps
    BY <1>0, <2>2, CompletionEffect DEF Ops, AttemptOps
  <2>4. client' = [t EXCEPT !.receiving = client.receiving - 1]
        /\ UNCHANGED envVars
    BY <1>0, <1>5 DEF ReceiveFails, Post, ProcessStates
  <2> HIDE DEF t
  <2> DEFINE n == client.receiving - 1
  <2>5. n \in Nat /\ client' = [t EXCEPT !.receiving = n]
    BY <2>1, <2>4
  <2> HIDE DEF n
  <2>6. client' \in ProcessStates /\ Engaged(client')
    BY <2>3, <2>5, OneReceived
  <2> QED  BY <2>4, <2>6, ProcessOnly
<1>6. ASSUME WriteSucceeds PROVE EInv'
  <2> DEFINE t == Post(client, Done("write"))
  <2>1. Done("write") \in Handlers
    BY HandlerTypes DEF Ops
  <2>2. t \in ProcessStates /\ Engaged(t)
    BY <1>0, <2>1, PostEffect
  <2>3. client' = [t EXCEPT !.writing = FALSE]
    BY <1>6 DEF WriteSucceeds
  <2> HIDE DEF t
  <2>4. client' \in ProcessStates /\ Engaged(client')
    BY <2>2, <2>3 DEF ProcessStates, Engaged
  <2>5. client.outbound_messages_.front \in Nat
    BY <1>0 DEF ProcessStates, Queues
  <2>6. asked' \in Nat
    BY <1>6, <2>5 DEF WriteSucceeds, EInv, TypeOK
  <2> QED  BY <1>6, <2>4, <2>6
           DEF WriteSucceeds, EInv, TypeOK, session, counters, Engaged
<1>7. ASSUME WriteFails PROVE EInv'
  <2> DEFINE t == Post(client, Failed("write"))
  <2>1. Failed("write") \in Handlers
    BY HandlerTypes DEF Ops
  <2>2. t \in ProcessStates /\ Engaged(t)
    BY <1>0, <2>1, PostEffect
  <2>3. client' = [t EXCEPT !.writing = FALSE] /\ UNCHANGED envVars
    BY <1>7 DEF WriteFails
  <2> HIDE DEF t
  <2>4. client' \in ProcessStates /\ Engaged(client')
    BY <2>2, <2>3 DEF ProcessStates, Engaged
  <2> QED  BY <2>3, <2>4, ProcessOnly
<1>8. ASSUME TimeElapses PROVE EInv'
  <2>1. client' \in ProcessStates /\ Engaged(client')
    BY <1>0, <1>8 DEF TimeElapses, ProcessStates, Engaged
  <2> QED  BY <1>8, <2>1, ProcessOnly DEF TimeElapses
<1>9. ASSUME TimerExpires PROVE EInv'
  <2> DEFINE t == Post(client, Done("timer"))
  <2>1. Done("timer") \in Handlers /\ Done("timer").op = "timer"
    BY HandlerTypes DEF Ops
  <2>2. /\ t \in ProcessStates
        /\ \E i \in 1 .. Len(t.ready) : t.ready[i].op \in AttemptOps
    BY <1>0, <2>1, CompletionEffect DEF Ops, AttemptOps
  <2>3. client' = [t EXCEPT !.timer = "off"] /\ UNCHANGED envVars
    BY <1>9 DEF TimerExpires
  <2> HIDE DEF t
  <2>4. client' \in ProcessStates /\ Engaged(client')
    BY <2>2, <2>3 DEF ProcessStates, Engaged
  <2> QED  BY <2>3, <2>4, ProcessOnly
<1>10. ASSUME LineArrives PROVE EInv'
  <2>1. /\ typed \in Seq(Lines) /\ typed # <<>>
        /\ client.stdin \in Seq([prompt : Prompts, alone : BOOLEAN])
        /\ client.stdin # <<>> /\ client.input_buffer_ \in Seq(Lines)
    BY <1>0, <1>10 DEF LineArrives, EInv, TypeOK, ProcessStates
  <2>2. Head(typed) \in Lines /\ Tail(typed) \in Seq(Lines)
    BY <2>1, HeadTailProperties
  <2>3. /\ Head(client.stdin) \in [prompt : Prompts, alone : BOOLEAN]
        /\ Tail(client.stdin) \in Seq([prompt : Prompts, alone : BOOLEAN])
    BY <2>1, HeadTailProperties
  <2>4. PICK line \in Lines :
          client' = [Post(client, LineRead(Head(client.stdin).prompt, line))
                       EXCEPT !.stdin = Tail(@),
                              !.input_buffer_ = Append(@, line)]
    BY <1>10, <2>2 DEF LineArrives
  <2> DEFINE h == LineRead(Head(client.stdin).prompt, line)
             t == Post(client, h)
  <2>5. h \in Handlers
    BY <2>3, <2>4, HandlerTypes
  <2> HIDE DEF h
  <2>6. t \in ProcessStates /\ Engaged(t)
    BY <1>0, <2>5, PostEffect
  <2>7. client' = [t EXCEPT !.stdin = Tail(client.stdin),
                     !.input_buffer_ = Append(client.input_buffer_, line)]
    BY <1>0, <2>4 DEF h, Post, ProcessStates
  <2>8. Append(client.input_buffer_, line) \in Seq(Lines)
    BY <2>1, <2>4, AppendProperties
  <2> HIDE DEF t
  <2>9. client' \in ProcessStates /\ Engaged(client')
    BY <2>3, <2>6, <2>7, <2>8 DEF ProcessStates, Engaged
  <2> QED  BY <1>10, <2>2, <2>9
           DEF LineArrives, EInv, TypeOK, session, counters, Engaged
<1> QED  BY <1>1, <1>2, <1>3, <1>4, <1>5, <1>6, <1>7, <1>8, <1>9, <1>10
         DEF Reactor

LEMMA EnvironmentStep ==
  ASSUME EInv, Environment
  PROVE  EInv'
<1>0. client \in ProcessStates /\ Engaged(client)
  BY DEF EInv, TypeOK
<1>1. ASSUME ConnectTo PROVE EInv'
  <2> DEFINE t == close(client)
  <2>1. t \in ProcessStates
    BY <1>0, CloseEffect
  <2>2. client' = open(t)
    BY <1>1 DEF ConnectTo, connect_to
  <2> HIDE DEF t
  <2>3. client' \in ProcessStates /\ Engaged(client')
    BY <2>1, <2>2, OpenEffect
  <2>4. moves' \in 0 .. MaxMoves
    BY <1>1, BoundsAssumption DEF ConnectTo, EInv, TypeOK
  <2> QED  BY <1>1, <2>3, <2>4
           DEF ConnectTo, EInv, TypeOK, session, Engaged
<1>2. ASSUME NEW line \in Lines, UserTypes(line) PROVE EInv'
  <2>1. Append(lines, line) \in Seq(Lines) /\ Append(typed, line) \in Seq(Lines)
    BY AppendProperties DEF EInv, TypeOK
  <2> QED  BY <1>2, <2>1 DEF UserTypes, EInv, TypeOK, session, Engaged
<1>3. ASSUME \/ ServerShips
             \/ NameGranted \/ NameIsOwn \/ NameIsTaken \/ NameIsWanted
      PROVE  EInv'
  <2>1. \A m \in ServerCalls : wire \o Frame(m) \in Seq(Pieces)
    <3>1. wire \in Seq(Pieces)
      BY DEF EInv, TypeOK
    <3>2. \A m \in ServerCalls : Frame(m) \in Seq(Pieces)
      BY DEF Frame, Pieces
    <3> QED  BY <3>1, <3>2, ConcatProperties
  <2>2. wire' \in Seq(Pieces)
    BY <1>3, <2>1 DEF ServerShips, NameGranted, NameIsOwn, NameIsTaken,
                      NameIsWanted, ServerCalls, EInv, TypeOK
  <2>3. /\ asked' \in Nat /\ unanswered' \in Nat
        /\ ships' \in 0 .. MaxShips /\ refusals' \in 0 .. MaxRefusals
    <3>1. /\ asked \in Nat /\ unanswered \in Nat
          /\ ships \in 0 .. MaxShips /\ refusals \in 0 .. MaxRefusals
          /\ MaxShips \in Nat /\ MaxRefusals \in Nat
      BY BoundsAssumption DEF EInv, TypeOK
    <3>2. /\ asked' = asked \/ (asked > 0 /\ asked' = asked - 1)
          /\ unanswered' \in {unanswered, unanswered + 1}
          /\ ships' = ships \/ (ships < MaxShips /\ ships' = ships + 1)
          /\ \/ refusals' = refusals
             \/ refusals < MaxRefusals /\ refusals' = refusals + 1
      BY <1>3 DEF ServerShips, NameGranted, NameIsOwn, NameIsTaken,
                  NameIsWanted, session, counters
    <3> QED  BY <3>1, <3>2
  <2>5. named' \in BOOLEAN
    BY <1>3 DEF ServerShips, NameGranted, NameIsOwn, NameIsTaken,
                NameIsWanted, session, EInv, TypeOK
  <2>4. UNCHANGED <<client, server_up, peer, typed, crashes, lines, moves>>
    BY <1>3 DEF ServerShips, NameGranted, NameIsOwn, NameIsTaken, NameIsWanted,
                counters
  <2> QED  BY <2>2, <2>3, <2>4, <2>5 DEF EInv, TypeOK, Engaged
<1>4. ASSUME ServerCrashes PROVE EInv'
  <2>1. wire \in Seq(Pieces) /\ Len(wire) \in Nat
        /\ \A i \in 1 .. Len(wire) : wire[i] \in Pieces
    BY LenProperties, ElementOfSeq DEF EInv, TypeOK
  <2>2. PICK k \in 0 .. Len(wire) : wire' = SubSeq(wire, 1, k)
    BY <1>4 DEF ServerCrashes
  <2>3. SubSeq(wire, 1, k) \in Seq(Pieces)
    BY <2>1, SubSeqProperties
  <2>4. crashes' \in 0 .. MaxCrashes
    BY <1>4, BoundsAssumption DEF ServerCrashes, EInv, TypeOK
  <2> QED  BY <1>4, <2>2, <2>3, <2>4 DEF ServerCrashes, EInv, TypeOK, session, Engaged
<1>5. ASSUME ServerStarts PROVE EInv'
  BY <1>5 DEF ServerStarts, EInv, TypeOK, session, counters, Engaged
<1> QED  BY <1>1, <1>2, <1>3, <1>4, <1>5 DEF Environment

LEMMA NextEInv == EInv /\ [Next]_vars => EInv'
<1>1. ASSUME EInv, UNCHANGED vars PROVE EInv'
  BY <1>1 DEF vars, session, counters, EInv, TypeOK, Engaged
<1> QED  BY <1>1, ThreadStep, ReactorStep, EnvironmentStep DEF Next

LEMMA SpecEInv == Spec => []EInv
<1> QED  BY InitEInv, NextEInv, PTL DEF Spec

(* The state of the client process, of its terminal and of what travels to *)
(* it always has its type, whatever order handlers run in.                 *)
THEOREM ClientTypeCorrect == Spec => []TypeOK
<1>1. EInv => TypeOK
  BY DEF EInv
<1> QED  BY <1>1, SpecEInv, PTL

(* To be engaged is to have something to count.                            *)
LEMMA EngagedCounts == EInv => AlwaysEngaged
<1> SUFFICES ASSUME EInv PROVE Engagements >= 1
  BY DEF AlwaysEngaged
<1> DEFINE R == ReadyOf({"resolve", "connect", "receive", "timer"})
<1>1. client.receiving \in Nat /\ Len(client.ready) \in Nat
  BY LenProperties DEF EInv, TypeOK, ProcessStates
<1>2. R \subseteq 1 .. Len(client.ready)
  BY DEF ReadyOf
<1>3. IsFiniteSet(1 .. Len(client.ready))
  BY <1>1, FS_Interval
<1>4. IsFiniteSet(R)
  BY <1>2, <1>3, FS_Subset
<1>5. Cardinality(R) \in Nat /\ (Cardinality(R) = 0 <=> R = {})
  BY <1>4, FS_CardinalityType, FS_EmptySet
<1>6. (\E i \in 1 .. Len(client.ready) : client.ready[i].op \in AttemptOps)
        => R # {}
  BY DEF ReadyOf, AttemptOps
<1>7. Engagements = One(client.resolving) + One(client.connecting)
                      + client.receiving + One(client.timer # "off")
                      + Cardinality(R)
  BY DEF Engagements
<1>8. \A b \in BOOLEAN : One(b) \in Nat /\ (b => One(b) = 1)
  BY DEF One
<1>9. /\ client.resolving \in BOOLEAN /\ client.connecting \in BOOLEAN
      /\ (client.timer # "off") \in BOOLEAN
  BY DEF EInv, TypeOK, ProcessStates
<1> DEFINE a == One(client.resolving)
           b == One(client.connecting)
           c == client.receiving
           d == One(client.timer # "off")
           e == Cardinality(R)
<1>10. a \in Nat /\ b \in Nat /\ c \in Nat /\ d \in Nat /\ e \in Nat
  BY <1>1, <1>5, <1>8, <1>9
<1>11. a = 1 \/ b = 1 \/ c > 0 \/ d = 1 \/ e # 0
  BY <1>1, <1>5, <1>6, <1>8, <1>9 DEF EInv, Engaged
<1>12. Engagements = a + b + c + d + e
  BY <1>7
<1> HIDE DEF a, b, c, d, e
<1> QED  BY <1>10, <1>11, <1>12

(* After any number of crashes, refused names, lines and calls of          *)
(* connect_to, in any order, the client is never left without an attempt:  *)
(* each handler of one starts the next, or sets the timer that will.       *)
THEOREM AlwaysEngagedCorrect == Spec => []AlwaysEngaged
<1> QED  BY SpecEInv, EngagedCounts, PTL
-----------------------------------------------------------------------------
(* What of an attempt is under way.                                        *)
UnderWay(s) == <<s.resolving, s.connecting, s.receiving, s.timer # "off",
                 Len(s.ready)>>

(* Nothing is written or read from the terminal that could fail on top.    *)
Quiet(s) == /\ ~s.writing
            /\ s.outbound_messages_.msgs = <<>>
            /\ s.input_buffer_ = <<>>

Idle(s) == Quiet(s) /\ UnderWay(s) = <<FALSE, FALSE, 0, FALSE, 0>>

Sole(s) ==
  /\ Quiet(s)
  /\ UnderWay(s) \in {<<TRUE,  FALSE, 0, FALSE, 0>>,
                      <<FALSE, TRUE,  0, FALSE, 0>>,
                      <<FALSE, FALSE, 1, FALSE, 0>>,
                      <<FALSE, FALSE, 0, TRUE,  0>>,
                      <<FALSE, FALSE, 0, FALSE, 1>>}
  /\ s.ready # <<>> => Head(s.ready).op \in AttemptOps

(* When an operation completes its handler is all there is.                *)
LEMMA PostSole ==
  ASSUME NEW s \in ProcessStates, NEW h, h.op \in AttemptOps,
         Quiet(s), UnderWay(s) = <<FALSE, FALSE, 0, FALSE, 0>>
  PROVE  Sole(Post(s, h))
<1>1. s.ready = <<>>
  BY EmptySeq DEF UnderWay, ProcessStates
<1>2. /\ Append(s.ready, h) = <<h>>
      /\ Len(<<h>>) = 1 /\ Head(<<h>>) = h
  BY <1>1
<1>3. /\ Post(s, h).ready = <<h>>
      /\ Post(s, h).resolving = s.resolving
      /\ Post(s, h).connecting = s.connecting
      /\ Post(s, h).receiving = s.receiving
      /\ Post(s, h).timer = s.timer
      /\ Post(s, h).writing = s.writing
      /\ Post(s, h).input_buffer_ = s.input_buffer_
      /\ Post(s, h).outbound_messages_ = s.outbound_messages_
  BY <1>2 DEF Post, ProcessStates
<1> QED  BY <1>2, <1>3 DEF Sole, UnderWay, Quiet

LEMMA ErrorWhenIdle ==
  ASSUME NEW s \in ProcessStates, Idle(s)
  PROVE  Sole(on_error(s)) /\ Sole(close(on_error(s)))
<1> DEFINE t == on_error(s)
<1>1. /\ t \in ProcessStates /\ t.timer = "set" /\ t.ready = s.ready
      /\ t.resolving = s.resolving /\ t.connecting = s.connecting
      /\ t.receiving = s.receiving /\ Quiet(t)
  BY DEF on_error, reconnect_in, Idle, UnderWay, Quiet, ProcessStates
<1>2. s.ready = <<>> /\ Len(s.ready) = 0
  BY EmptySeq DEF Idle, UnderWay, ProcessStates
<1>3. Sole(t)
  BY <1>1, <1>2 DEF Sole, UnderWay, Idle
<1> HIDE DEF t
<1>4. CloseSocket(t).ready = t.ready /\ CloseSocket(t) \in ProcessStates
  BY <1>1, CloseIdle, CloseEffect DEF Idle, UnderWay, Quiet
<1>5. Sole(close(t))
  <2>1. /\ close(t).ready = t.ready /\ close(t).timer = t.timer
        /\ close(t).resolving = t.resolving
        /\ close(t).connecting = FALSE /\ close(t).receiving = 0
        /\ close(t).writing = FALSE
        /\ close(t).outbound_messages_ = EmptyQueue
        /\ close(t).input_buffer_ = t.input_buffer_
    <3> DEFINE u == CloseSocket(t)
    <3>1. /\ u.ready = t.ready /\ u.timer = t.timer
          /\ u.resolving = t.resolving /\ u.input_buffer_ = t.input_buffer_
          /\ u.connecting = FALSE /\ u.receiving = 0 /\ u.writing = FALSE
      <4>1. u.ready = t.ready
        BY <1>4
      <4>2. /\ u.timer = t.timer /\ u.resolving = t.resolving
            /\ u.input_buffer_ = t.input_buffer_
        BY <1>1 DEF CloseSocket, ProcessStates
      <4>3. u.connecting = FALSE /\ u.receiving = 0 /\ u.writing = FALSE
        BY <1>1 DEF CloseSocket, ProcessStates
      <4> QED  BY <4>1, <4>2, <4>3
    <3>2. u \in ProcessStates
      BY <1>4
    <3>3. close(t) = [u EXCEPT !.incomming_bytes_ = <<>>,
                               !.outbound_messages_ = EmptyQueue]
      BY DEF close
    <3> HIDE DEF u
    <3> QED  BY ZenonT(60), <3>1, <3>2, <3>3 DEF ProcessStates
  <2>2. EmptyQueue.msgs = <<>>
    BY DEF EmptyQueue
  <2>3. t.resolving = FALSE /\ t.ready = <<>> /\ t.input_buffer_ = <<>>
    BY <1>1, <1>2 DEF Idle, UnderWay, Quiet
  <2>4. Quiet(close(t))
    BY <2>1, <2>2, <2>3 DEF Quiet
  <2>5. UnderWay(close(t)) = <<FALSE, FALSE, 0, TRUE, 0>>
    BY <1>1, <1>2, <2>1, <2>3 DEF UnderWay
  <2> QED  BY <2>1, <2>3, <2>4, <2>5 DEF Sole
<1> QED  BY <1>3, <1>5 DEF t

(* With an empty buffer a prompt waits for the terminal.                   *)
LEMMA PromptQuiet ==
  ASSUME NEW s \in ProcessStates, NEW p, s.input_buffer_ = <<>>
  PROVE  /\ UnderWay(Prompt(s, p)) = UnderWay(s)
         /\ Prompt(s, p).ready = s.ready
         /\ Quiet(s) => Quiet(Prompt(s, p))
BY DEF Prompt, UnderWay, Quiet, ProcessStates

(* A read started by an idle process is its only operation.                *)
LEMMA ReceivingSole ==
  ASSUME NEW t \in ProcessStates, Quiet(t), t.ready = <<>>,
         UnderWay(t) = <<FALSE, FALSE, 0, FALSE, 0>>
  PROVE  Sole([t EXCEPT !.receiving = 1])
<1> DEFINE u == [t EXCEPT !.receiving = 1]
<1>1. u.receiving = 1
  BY DEF ProcessStates
<1>2. u.ready = t.ready /\ u.resolving = t.resolving /\ u.timer = t.timer
  BY DEF ProcessStates
<1>3. u.connecting = t.connecting /\ u.writing = t.writing
  BY DEF ProcessStates
<1>4. /\ u.input_buffer_ = t.input_buffer_
      /\ u.outbound_messages_ = t.outbound_messages_
  BY DEF ProcessStates
<1> HIDE DEF u
<1>5. Quiet(u)
  BY <1>3, <1>4 DEF Quiet
<1>6. UnderWay(u) = <<FALSE, FALSE, 1, FALSE, 0>>
  BY <1>1, <1>2, <1>3 DEF UnderWay
<1> QED  BY <1>2, <1>5, <1>6 DEF Sole, u

LEMMA HandleSole ==
  ASSUME NEW s \in ProcessStates, Idle(s), NEW h \in Handlers,
         h.op \in AttemptOps
  PROVE  Sole(Handle(s, h))
<1>0. s.ready = <<>> /\ Len(s.ready) = 0
  BY EmptySeq DEF Idle, UnderWay, ProcessStates
<1>1. CASE h.op = "resolve"
  <2>1. Handle(s, h) = IF h.ok THEN async_connect(s) ELSE close(on_error(s))
    BY <1>1 DEF Handle, onResolve
  <2>2. Sole(async_connect(s))
    <3>1. CloseSocket(s).ready = s.ready
      BY CloseIdle DEF Idle, UnderWay, Quiet
    <3>2. LET t == async_connect(s)
          IN  /\ t.ready = s.ready /\ t.connecting = TRUE /\ t.receiving = 0
              /\ t.timer = s.timer /\ t.resolving = s.resolving
              /\ t.writing = FALSE /\ t.input_buffer_ = s.input_buffer_
              /\ t.outbound_messages_ = s.outbound_messages_
      BY <3>1 DEF async_connect, CloseSocket, ProcessStates
    <3> QED  BY <1>0, <3>2 DEF Sole, UnderWay, Quiet, Idle
  <2> QED  BY <2>1, <2>2, ErrorWhenIdle
<1>2. CASE h.op = "connect"
  <2>1. Handle(s, h) = IF h.ok /\ isOpen(s) THEN transport_open(s)
                                            ELSE close(on_error(s))
    BY <1>2 DEF Handle, onConnect
  <2>2. ASSUME isOpen(s) PROVE Sole(transport_open(s))
    <3> DEFINE t == read_username(s)
    <3>1. t \in ProcessStates /\ t.socket = s.socket
      BY PromptEffect DEF read_username, Prompts
    <3>2. UnderWay(t) = UnderWay(s) /\ t.ready = s.ready /\ Quiet(t)
      BY PromptQuiet DEF read_username, Idle, Quiet
    <3> HIDE DEF t
    <3>3. transport_open(s) = [t EXCEPT !.receiving = t.receiving + 1]
      BY <2>2, <3>1 DEF transport_open, async_receive, isOpen, t
    <3>4. t.receiving + 1 = 1
      BY <3>2 DEF Idle, UnderWay
    <3>5. transport_open(s) = [t EXCEPT !.receiving = 1]
      BY <3>3, <3>4
    <3> QED  BY <1>0, <3>1, <3>2, <3>5, ReceivingSole DEF Idle
  <2> QED  BY <2>1, <2>2, ErrorWhenIdle
<1>3. CASE h.op = "receive"
  <2> DEFINE t == [s EXCEPT !.incomming_bytes_ = @ \o h.got]
  <2>1. Handle(s, h) = IF h.ok THEN async_receive(t) ELSE close(on_error(s))
    BY <1>3 DEF Handle, on_receive
  <2>2. t \in ProcessStates
    <3>1. s.incomming_bytes_ \in Seq(Pieces) /\ h.got \in Seq(Pieces)
      BY DEF ProcessStates, Handlers
    <3>2. s.incomming_bytes_ \o h.got \in Seq(Pieces)
      BY <3>1, ConcatProperties
    <3> QED  BY <3>2 DEF ProcessStates
  <2>3. UnderWay(t) = UnderWay(s) /\ t.ready = s.ready /\ Quiet(t)
    BY DEF UnderWay, Quiet, Idle, ProcessStates
  <2> HIDE DEF t
  <2>4. Sole(async_receive(t))
    <3>1. CASE isOpen(t)
      <4>1. async_receive(t) = [t EXCEPT !.receiving = 1]
        <5>1. t.receiving + 1 = 1
          BY <2>3 DEF Idle, UnderWay
        <5>2. async_receive(t) = [t EXCEPT !.receiving = t.receiving + 1]
          BY <3>1 DEF async_receive
        <5> QED  BY <5>1, <5>2
      <4> QED  BY <1>0, <2>2, <2>3, <4>1, ReceivingSole DEF Idle
    <3>2. CASE ~isOpen(t)
      <4>1. async_receive(t) = Post(t, Failed("receive"))
        BY <3>2 DEF async_receive
      <4>2. Failed("receive").op \in AttemptOps
        BY HandlerTypes DEF AttemptOps
      <4> QED  BY <2>2, <2>3, <4>1, <4>2, PostSole DEF Idle
    <3> QED  BY <3>1, <3>2
  <2> QED  BY <2>1, <2>4, ErrorWhenIdle
<1>4. CASE h.op = "timer"
  <2>1. Handle(s, h) = IF h.ok THEN open(s) ELSE on_error(s)
    BY <1>4 DEF Handle, onTimer
  <2>2. Sole(open(s))
    BY <1>0 DEF open, Sole, UnderWay, Quiet, Idle, ProcessStates
  <2> QED  BY <2>1, <2>2, ErrorWhenIdle
<1> QED  BY <1>1, <1>2, <1>3, <1>4 DEF AttemptOps

(* While the user types nothing and connect_to is not called, there is one *)
(* attempt.                                                                *)
QInv == lines = <<>> /\ moves = 0 => typed = <<>> /\ Sole(client)

LEMMA InitQInv == Init => QInv
<1>1. Len(<<>>) = 0 /\ EmptyQueue.msgs = <<>>
  BY EmptySeq DEF EmptyQueue
<1>2. UnderWay(Constructed) = <<TRUE, FALSE, 0, FALSE, 0>>
  BY <1>1 DEF UnderWay, Constructed
<1>3. Quiet(Constructed) /\ Constructed.ready = <<>>
  BY <1>1 DEF Quiet, Constructed
<1>4. Sole(Constructed)
  BY <1>2, <1>3 DEF Sole
<1> QED  BY <1>4 DEF Init, QInv

LEMMA ThreadSole ==
  ASSUME client \in ProcessStates, Sole(client), Thread
  PROVE  Sole(client')
<1>1. ASSUME NEW op \in Ops \cup Prompts, RunHandler(op)
      PROVE  Sole(client')
  <2> DEFINE h == Head(client.ready)
             t == [client EXCEPT !.ready = Tail(@)]
             s == Handle(t, h)
  <2>1. h \in Handlers /\ t \in ProcessStates
    BY <1>1, HeadEffect DEF RunHandler
  <2>2. h.op \in AttemptOps /\ Idle(t)
    <3>1. client.ready # <<>> /\ client.ready \in Seq(Handlers)
      BY <1>1 DEF RunHandler, ProcessStates, Handlers
    <3>2. /\ Len(Tail(client.ready)) = Len(client.ready) - 1
          /\ Len(client.ready) # 0 /\ Len(client.ready) \in Nat
      BY <3>1, HeadTailProperties, EmptySeq, LenProperties
    <3>3. UnderWay(client) = <<FALSE, FALSE, 0, FALSE, 1>>
      BY <3>2 DEF Sole, UnderWay
    <3>4. Len(client.ready) = 1
      BY <3>3 DEF UnderWay
    <3>5. Len(t.ready) = 0
      <4>1. t.ready = Tail(client.ready)
        BY DEF ProcessStates
      <4> QED  BY <3>2, <3>4, <4>1
    <3> QED  BY <3>1, <3>3, <3>5
             DEF Sole, Idle, UnderWay, Quiet, ProcessStates
  <2>3. client' = IF s.loop = "poll" THEN [s EXCEPT !.loop = "update"] ELSE s
    BY <1>1 DEF RunHandler
  <2> HIDE DEF h, t
  <2>4. s \in ProcessStates /\ Sole(s)
    BY <2>1, <2>2, HandleEffect, HandleSole
  <2> HIDE DEF s
  <2> QED  BY <2>3, <2>4 DEF Sole, UnderWay, Quiet, ProcessStates
<1>2. ASSUME Update PROVE Sole(client')
  BY <1>2 DEF Update, Sole, UnderWay, Quiet, ProcessStates
<1>3. ASSUME FinishFrame PROVE Sole(client')
  <2> DEFINE s == [client EXCEPT !.incomming_bytes_ = Tail(@),
                                 !.loop = "update", !.half = "none"]
  <2>1. client.incomming_bytes_ # <<>> /\ client.incomming_bytes_ \in Seq(Pieces)
    BY <1>3 DEF FinishFrame, ProcessStates
  <2>2. Tail(client.incomming_bytes_) \in Seq(Pieces)
    BY <2>1, HeadTailProperties
  <2>3. s \in ProcessStates /\ Sole(s)
    BY <2>2 DEF Sole, UnderWay, Quiet, ProcessStates
  <2>4. \/ client' = [s EXCEPT !.failure = "mixed frame"]
        \/ /\ client' = Dispatch(s, client.half)
           /\ client.half \in ServerCalls
    <3>1. Head(client.incomming_bytes_) \in Pieces
      BY <2>1, HeadTailProperties
    <3>2. Head(client.incomming_bytes_).frame \in ServerCalls
      BY <3>1 DEF Pieces
    <3> QED  BY <1>3, <3>2 DEF FinishFrame
  <2> HIDE DEF s
  <2>5. CASE client' = [s EXCEPT !.failure = "mixed frame"]
    BY <2>3, <2>5 DEF Sole, UnderWay, Quiet, ProcessStates
  <2>6. CASE client' = Dispatch(s, client.half) /\ client.half \in ServerCalls
    <3>1. client' \in {s, read_username(s), read_message(s)}
      BY <2>6 DEF Dispatch, ServerCalls
    <3>2. \A p : Sole(Prompt(s, p))
      <4> SUFFICES ASSUME NEW p PROVE Sole(Prompt(s, p))
        OBVIOUS
      <4>1. /\ UnderWay(Prompt(s, p)) = UnderWay(s)
            /\ Prompt(s, p).ready = s.ready /\ Quiet(Prompt(s, p))
        BY <2>3, PromptQuiet DEF Sole, Quiet
      <4> QED  BY <2>3, <4>1 DEF Sole
    <3> QED  BY <2>3, <3>1, <3>2 DEF read_username, read_message
  <2> QED  BY <2>4, <2>5, <2>6
<1> QED  BY <1>1, <1>2, <1>3 DEF Thread

LEMMA ReactorSole ==
  ASSUME client \in ProcessStates, Sole(client), typed = <<>>, Reactor
  PROVE  Sole(client')
<1>0. /\ Done("resolve").op \in AttemptOps /\ Failed("resolve").op \in AttemptOps
      /\ Done("connect").op \in AttemptOps /\ Failed("connect").op \in AttemptOps
      /\ Failed("receive").op \in AttemptOps /\ Done("timer").op \in AttemptOps
      /\ \A pieces : Received(pieces).op \in AttemptOps
  BY HandlerTypes DEF AttemptOps
<1>1. ASSUME ResolveCompletes PROVE Sole(client')
  <2>1. PICK h \in {Done("resolve"), Failed("resolve")} :
          client' = [Post(client, h) EXCEPT !.resolving = FALSE]
    BY <1>1 DEF ResolveCompletes
  <2> DEFINE s == [client EXCEPT !.resolving = FALSE]
  <2>2. s \in ProcessStates /\ Quiet(s)
        /\ UnderWay(s) = <<FALSE, FALSE, 0, FALSE, 0>>
    BY <1>1 DEF ResolveCompletes, Sole, UnderWay, Quiet, ProcessStates
  <2>3. client' = Post(s, h)
    BY <2>1 DEF Post, ProcessStates
  <2> HIDE DEF s
  <2> QED  BY <1>0, <2>1, <2>2, <2>3, PostSole
<1>2. ASSUME ConnectSucceeds PROVE Sole(client')
  <2> DEFINE s == [client EXCEPT !.connecting = FALSE, !.socket = "connected"]
  <2>1. s \in ProcessStates /\ Quiet(s)
        /\ UnderWay(s) = <<FALSE, FALSE, 0, FALSE, 0>>
    BY <1>2 DEF ConnectSucceeds, Sole, UnderWay, Quiet, ProcessStates
  <2>2. client' = Post(s, Done("connect"))
    BY <1>2 DEF ConnectSucceeds, Post, ProcessStates
  <2> HIDE DEF s
  <2> QED  BY <1>0, <2>1, <2>2, PostSole
<1>3. ASSUME ConnectFails PROVE Sole(client')
  <2> DEFINE s == [client EXCEPT !.connecting = FALSE]
  <2>1. s \in ProcessStates /\ Quiet(s)
        /\ UnderWay(s) = <<FALSE, FALSE, 0, FALSE, 0>>
    BY <1>3 DEF ConnectFails, Sole, UnderWay, Quiet, ProcessStates
  <2>2. client' = Post(s, Failed("connect"))
    BY <1>3 DEF ConnectFails, Post, ProcessStates
  <2> HIDE DEF s
  <2> QED  BY <1>0, <2>1, <2>2, PostSole
<1>4. ASSUME ReceiveSucceeds \/ ReceiveFails PROVE Sole(client')
  <2> DEFINE s == [client EXCEPT !.receiving = 0]
  <2>1. UnderWay(client) = <<FALSE, FALSE, 1, FALSE, 0>>
    <3>1. client.receiving > 0
      BY <1>4 DEF ReceiveSucceeds, ReceiveFails
    <3>2. UnderWay(client)[3] = client.receiving
      BY DEF UnderWay
    <3>3. /\ <<TRUE,  FALSE, 0, FALSE, 0>>[3] = 0
          /\ <<FALSE, TRUE,  0, FALSE, 0>>[3] = 0
          /\ <<FALSE, FALSE, 0, TRUE,  0>>[3] = 0
          /\ <<FALSE, FALSE, 0, FALSE, 1>>[3] = 0
      OBVIOUS
    <3>4. UnderWay(client)[3] # 0
      BY <3>1, <3>2
    <3> QED  BY <3>3, <3>4 DEF Sole
  <2>2. client.receiving = 1
    BY <2>1 DEF UnderWay
  <2>3. /\ s \in ProcessStates /\ s.receiving = 0
        /\ s.resolving = client.resolving /\ s.connecting = client.connecting
        /\ s.timer = client.timer /\ s.ready = client.ready
        /\ s.writing = client.writing /\ s.input_buffer_ = client.input_buffer_
        /\ s.outbound_messages_ = client.outbound_messages_
    BY DEF ProcessStates
  <2>4. Quiet(s) /\ UnderWay(s) = <<FALSE, FALSE, 0, FALSE, 0>>
    BY <2>1, <2>3 DEF Sole, UnderWay, Quiet
  <2>5. PICK h : /\ client' = [Post(client, h) EXCEPT !.receiving = @ - 1]
                 /\ h.op \in AttemptOps
    BY <1>0, <1>4 DEF ReceiveSucceeds, ReceiveFails
  <2>6. Post(client, h).receiving = client.receiving
    BY DEF Post, ProcessStates
  <2>7. client' = [Post(client, h) EXCEPT !.receiving = 0]
    BY <2>2, <2>5, <2>6
  <2>8. client' = Post(s, h)
    BY <2>7 DEF Post, ProcessStates
  <2> HIDE DEF s
  <2> QED  BY <2>3, <2>4, <2>5, <2>8, PostSole
<1>5. ~WriteSucceeds /\ ~WriteFails
  BY DEF WriteSucceeds, WriteFails, Sole, Quiet
<1>6. ASSUME TimeElapses PROVE Sole(client')
  BY <1>6 DEF TimeElapses, Sole, UnderWay, Quiet, ProcessStates
<1>7. ASSUME TimerExpires PROVE Sole(client')
  <2> DEFINE s == [client EXCEPT !.timer = "off"]
  <2>1. s \in ProcessStates /\ Quiet(s)
        /\ UnderWay(s) = <<FALSE, FALSE, 0, FALSE, 0>>
    BY <1>7 DEF TimerExpires, Sole, UnderWay, Quiet, ProcessStates
  <2>2. client' = Post(s, Done("timer"))
    BY <1>7 DEF TimerExpires, Post, ProcessStates
  <2> HIDE DEF s
  <2> QED  BY <1>0, <2>1, <2>2, PostSole
<1>8. ~LineArrives
  BY DEF LineArrives
<1> QED  BY <1>1, <1>2, <1>3, <1>4, <1>5, <1>6, <1>7, <1>8 DEF Reactor

LEMMA NextQInv == EInv /\ QInv /\ [Next]_vars => QInv'
<1> SUFFICES ASSUME EInv, QInv, [Next]_vars, lines' = <<>>, moves' = 0
             PROVE  typed' = <<>> /\ Sole(client')
  BY DEF QInv
<1>0. client \in ProcessStates /\ moves \in Nat /\ lines \in Seq(Lines)
  BY BoundsAssumption DEF EInv, TypeOK
<1>1. CASE Thread
  <2>1. UNCHANGED envVars
    BY <1>1 DEF Thread, RunHandler, Update, FinishFrame
  <2>2. lines' = lines /\ moves' = moves /\ typed' = typed
    BY <2>1 DEF envVars, counters
  <2> QED  BY <1>0, <1>1, <2>2, ThreadSole DEF QInv
<1>2. CASE Reactor
  <2>1. lines' = lines /\ moves' = moves
    BY <1>2 DEF Reactor, ResolveCompletes, ConnectSucceeds, ConnectFails,
         ReceiveSucceeds, ReceiveFails, WriteSucceeds, WriteFails,
         TimeElapses, TimerExpires, LineArrives, envVars, counters
  <2>2. typed = <<>> /\ Sole(client)
    BY <2>1 DEF QInv
  <2>3. typed' = typed
    BY <1>2, <2>2 DEF Reactor, ResolveCompletes, ConnectSucceeds, ConnectFails,
         ReceiveSucceeds, ReceiveFails, WriteSucceeds, WriteFails,
         TimeElapses, TimerExpires, LineArrives, envVars
  <2> QED  BY <1>0, <1>2, <2>2, <2>3, ReactorSole
<1>3. CASE Environment
  <2>1. ~ConnectTo
    BY <1>0 DEF ConnectTo
  <2>2. \A line \in Lines : ~UserTypes(line)
    BY <1>0, AppendProperties DEF UserTypes
  <2>3. UNCHANGED <<client, typed, lines, moves>>
    BY <1>3, <2>1, <2>2
       DEF Environment, ServerShips, NameGranted, NameIsOwn, NameIsTaken,
           NameIsWanted, ServerCrashes, ServerStarts, counters
  <2> QED  BY <2>3 DEF QInv
<1>4. CASE UNCHANGED vars
  BY <1>4 DEF QInv, vars, counters
<1> QED  BY <1>1, <1>2, <1>3, <1>4 DEF Next

LEMMA SoleCounts == EInv /\ QInv => SingleAttempt
<1> SUFFICES ASSUME EInv, Sole(client) PROVE Engagements = 1
  BY DEF SingleAttempt, QInv
<1> DEFINE R == ReadyOf({"resolve", "connect", "receive", "timer"})
           a == One(client.resolving)
           b == One(client.connecting)
           c == client.receiving
           d == One(client.timer # "off")
           e == Cardinality(R)
<1>1. client.ready \in Seq(Handlers)
  BY DEF EInv, TypeOK, ProcessStates, Handlers
<1>2. e = Len(client.ready)
  <2>1. CASE Len(client.ready) = 0
    <3>1. R = {}
      BY <2>1 DEF ReadyOf
    <3> QED  BY <2>1, <3>1, FS_EmptySet
  <2>2. CASE Len(client.ready) = 1
    <3> DEFINE q == client.ready
    <3>1. q # <<>> /\ Head(q) = q[1]
      <4>1. q \in Seq(Handlers) /\ Len(q) = 1
        BY <1>1, <2>2
      <4> HIDE DEF q
      <4> QED  BY <4>1, EmptySeq
    <3>2. client.ready[1].op \in {"resolve", "connect", "receive", "timer"}
      BY <3>1 DEF Sole, AttemptOps
    <3>3. R = {1}
      BY <2>2, <3>2 DEF ReadyOf
    <3>4. Cardinality(1 .. 1) = 1 /\ 1 .. 1 = {1}
      <4>1. 1 \in Int /\ ~(1 > 1) /\ 1 - 1 + 1 = 1
        OBVIOUS
      <4>2. Cardinality(1 .. 1) = 1
        BY <4>1, FS_Interval
      <4>3. 1 .. 1 = {1}
        OBVIOUS
      <4> QED  BY <4>2, <4>3
    <3> QED  BY <2>2, <3>3, <3>4
  <2> QED  BY <2>1, <2>2 DEF Sole, UnderWay
<1>3. Engagements = a + b + c + d + e
  BY DEF Engagements
<1>4. e = UnderWay(client)[5] /\ c = UnderWay(client)[3]
      /\ client.resolving = UnderWay(client)[1]
      /\ client.connecting = UnderWay(client)[2]
      /\ (client.timer # "off") = UnderWay(client)[4]
  BY <1>2 DEF UnderWay
<1>5. One(TRUE) = 1 /\ One(FALSE) = 0
  BY DEF One
<1> HIDE DEF e
<1>6. a + b + c + d + e = 1
  <2> DEFINE w == UnderWay(client)
  <2>1. One(w[1]) + One(w[2]) + w[3] + One(w[4]) + w[5] = 1
    <3> SUFFICES ASSUME NEW v \in {<<TRUE,  FALSE, 0, FALSE, 0>>,
                                   <<FALSE, TRUE,  0, FALSE, 0>>,
                                   <<FALSE, FALSE, 1, FALSE, 0>>,
                                   <<FALSE, FALSE, 0, TRUE,  0>>,
                                   <<FALSE, FALSE, 0, FALSE, 1>>}
                 PROVE  One(v[1]) + One(v[2]) + v[3] + One(v[4]) + v[5] = 1
      BY DEF Sole
    <3>1. CASE v = <<TRUE, FALSE, 0, FALSE, 0>>
      <4>1. v[1] = TRUE /\ v[2] = FALSE /\ v[3] = 0 /\ v[4] = FALSE /\ v[5] = 0
        BY <3>1
      <4>2. One(v[1]) = 1 /\ One(v[2]) = 0 /\ One(v[4]) = 0
        BY <1>5, <4>1
      <4> QED  BY <4>1, <4>2
    <3>2. CASE v = <<FALSE, TRUE, 0, FALSE, 0>>
      <4>1. v[1] = FALSE /\ v[2] = TRUE /\ v[3] = 0 /\ v[4] = FALSE /\ v[5] = 0
        BY <3>2
      <4>2. One(v[1]) = 0 /\ One(v[2]) = 1 /\ One(v[4]) = 0
        BY <1>5, <4>1
      <4> QED  BY <4>1, <4>2
    <3>3. CASE v = <<FALSE, FALSE, 1, FALSE, 0>>
      <4>1. v[1] = FALSE /\ v[2] = FALSE /\ v[3] = 1 /\ v[4] = FALSE /\ v[5] = 0
        BY <3>3
      <4>2. One(v[1]) = 0 /\ One(v[2]) = 0 /\ One(v[4]) = 0
        BY <1>5, <4>1
      <4> QED  BY <4>1, <4>2
    <3>4. CASE v = <<FALSE, FALSE, 0, TRUE, 0>>
      <4>1. v[1] = FALSE /\ v[2] = FALSE /\ v[3] = 0 /\ v[4] = TRUE /\ v[5] = 0
        BY <3>4
      <4>2. One(v[1]) = 0 /\ One(v[2]) = 0 /\ One(v[4]) = 1
        BY <1>5, <4>1
      <4> QED  BY <4>1, <4>2
    <3>5. CASE v = <<FALSE, FALSE, 0, FALSE, 1>>
      <4>1. v[1] = FALSE /\ v[2] = FALSE /\ v[3] = 0 /\ v[4] = FALSE /\ v[5] = 1
        BY <3>5
      <4>2. One(v[1]) = 0 /\ One(v[2]) = 0 /\ One(v[4]) = 0
        BY <1>5, <4>1
      <4> QED  BY <4>1, <4>2
    <3> QED  BY <3>1, <3>2, <3>3, <3>4, <3>5
  <2> QED  BY <1>4, <2>1
<1> QED  BY <1>3, <1>6

(* However often the server crashes and comes back, and whatever of it is  *)
(* noticed first, the client that is left alone makes one attempt at a     *)
(* time: no handler starts two, and none of them gives up.                 *)
THEOREM SingleAttemptCorrect == Spec => []SingleAttempt
<1>1. EInv /\ [Next]_vars => EInv'
  BY NextEInv
<1> QED  BY InitEInv, InitQInv, <1>1, NextQInv, SoleCounts, PTL DEF Spec

-----------------------------------------------------------------------------
(* The frames of the calls f, one after the other.                         *)
Carries(q, f) ==
  /\ Len(q) = 2 * Len(f)
  /\ \A i \in 1 .. Len(f) : /\ q[2 * i - 1] = [frame |-> f[i], part |-> 1]
                            /\ q[2 * i] = [frame |-> f[i], part |-> 2]

(* What a receive that is done has got, and the frame that read() has the  *)
(* first piece of.                                                         *)
Arrived(q) == IF GotOf(q) = {} THEN <<>> ELSE CHOOSE g \in GotOf(q) : TRUE
Opened(half) ==
  IF half = "none" THEN <<>> ELSE <<[frame |-> half, part |-> 1]>>

(* The pieces the client has not dispatched, in the order the server sent. *)
Stream(half, bytes, got, w) == Opened(half) \o (bytes \o (got \o w))

LEMMA OpenedType ==
  ASSUME NEW half \in ServerCalls \cup {"none"}
  PROVE  Opened(half) \in Seq(Pieces)
<1>1. CASE half = "none"
  BY <1>1, EmptySeq DEF Opened
<1>2. CASE half # "none"
  <2>1. [frame |-> half, part |-> 1] \in Pieces
    BY <1>2 DEF Pieces
  <2> QED  BY <1>2, <2>1 DEF Opened
<1> QED  BY <1>1, <1>2

(* A receive takes some of what is on its way ...                          *)
LEMMA StreamFetched ==
  ASSUME NEW half, NEW bytes, NEW w \in Seq(Pieces), NEW k \in 1 .. Len(w)
  PROVE  /\ SubSeq(w, 1, k) \in Seq(Pieces)
         /\ SubSeq(w, k + 1, Len(w)) \in Seq(Pieces)
         /\ Stream(half, bytes, SubSeq(w, 1, k), SubSeq(w, k + 1, Len(w)))
              = Stream(half, bytes, <<>>, w)
<1>1. Len(w) \in Nat /\ k \in Nat /\ \A i \in 1 .. Len(w) : w[i] \in Pieces
  BY LenProperties, ElementOfSeq
<1>2. SubSeq(w, 1, k) \in Seq(Pieces)
  BY <1>1, SubSeqProperties
<1>3. SubSeq(w, k + 1, Len(w)) \in Seq(Pieces)
  BY <1>1, SubSeqProperties
<1>4. SubSeq(w, 1, k) \o SubSeq(w, k + 1, Len(w)) = SubSeq(w, 1, Len(w))
  BY <1>1, ConcatAdjacentSubSeq
<1>5. SubSeq(w, 1, Len(w)) = w /\ <<>> \o w = w
  BY SubSeqFull, ConcatEmptySeq
<1> QED  BY <1>2, <1>3, <1>4, <1>5 DEF Stream

(* ... and its handler adds it to what was received before.                *)
LEMMA StreamKept ==
  ASSUME NEW half, NEW bytes \in Seq(Pieces), NEW got \in Seq(Pieces),
         NEW w \in Seq(Pieces)
  PROVE  /\ bytes \o got \in Seq(Pieces)
         /\ Stream(half, bytes \o got, <<>>, w) = Stream(half, bytes, got, w)
<1>1. (bytes \o got) \o w = bytes \o (got \o w)
  BY ConcatAssociative
<1>2. <<>> \o w = w
  BY ConcatEmptySeq
<1> QED  BY <1>1, <1>2, ConcatProperties DEF Stream

(* Concatenation, said so that it is used for the sequences that are meant.*)
Grouped(x, y, z) == (x \o y) \o z = x \o (y \o z)
Regrouped(s, t, u, v, w) ==
  s \o (t \o (u \o (v \o w))) = (s \o (t \o (u \o v))) \o w

LEMMA Associative ==
  ASSUME NEW S, NEW x \in Seq(S), NEW y \in Seq(S), NEW z \in Seq(S)
  PROVE  Grouped(x, y, z)
BY ConcatAssociative DEF Grouped

LEMMA Regrouping ==
  ASSUME NEW S, NEW s \in Seq(S), NEW t \in Seq(S), NEW u \in Seq(S),
         NEW v \in Seq(S), NEW w \in Seq(S)
  PROVE  Regrouped(s, t, u, v, w)
<1> DEFINE x == u \o v
           y == t \o x
<1>1. Grouped(u, v, w)
  BY Associative
<1>2. x \in Seq(S) /\ y \in Seq(S)
  BY ConcatProperties
<1> HIDE DEF x, y
<1>3. Grouped(t, x, w) /\ Grouped(s, y, w)
  BY <1>2, Associative
<1> QED  BY <1>1, <1>3 DEF Grouped, Regrouped, x, y

(* The server adds a frame.                                                *)
Sending(q, m) == q \o Frame(m)

LEMMA StreamSent ==
  ASSUME NEW half \in ServerCalls \cup {"none"}, NEW bytes \in Seq(Pieces),
         NEW got \in Seq(Pieces), NEW w \in Seq(Pieces), NEW m \in ServerCalls
  PROVE  Stream(half, bytes, got, Sending(w, m))
           = Sending(Stream(half, bytes, got, w), m)
<1>1. Frame(m) \in Seq(Pieces)
  <2>1. [frame |-> m, part |-> 1] \in Pieces /\ [frame |-> m, part |-> 2] \in Pieces
    BY DEF Pieces
  <2> QED  BY <2>1 DEF Frame
<1>2. Opened(half) \in Seq(Pieces)
  BY OpenedType
<1> DEFINE o == Opened(half)
           F == Frame(m)
<1>3. o \in Seq(Pieces) /\ F \in Seq(Pieces)
  BY <1>1, <1>2
<1> HIDE DEF o, F
<1>4. Regrouped(o, bytes, got, w, F)
  BY <1>3, Regrouping
<1> QED  BY <1>4 DEF Regrouped, Stream, Sending, o, F

LEMMA CarriesSent ==
  ASSUME NEW q \in Seq(Pieces), NEW f \in Seq(ServerCalls), Carries(q, f),
         NEW m \in ServerCalls
  PROVE  Carries(q \o Frame(m), Append(f, m))
<1> DEFINE F == Frame(m)
           g == Append(f, m)
<1>1. /\ F \in Seq(Pieces) /\ Len(F) = 2
      /\ F[1] = [frame |-> m, part |-> 1] /\ F[2] = [frame |-> m, part |-> 2]
  <2>1. [frame |-> m, part |-> 1] \in Pieces /\ [frame |-> m, part |-> 2] \in Pieces
    BY DEF Pieces
  <2> QED  BY <2>1 DEF Frame
<1>2. /\ Len(g) = Len(f) + 1 /\ g[Len(f) + 1] = m
      /\ \A i \in 1 .. Len(f) : g[i] = f[i]
  BY AppendProperties
<1>3. Len(f) \in Nat /\ Len(q) = 2 * Len(f)
  BY LenProperties DEF Carries
<1> HIDE DEF F, g
<1> DEFINE r == q \o F
<1>4. /\ Len(r) = Len(q) + 2
      /\ \A i \in 1 .. Len(q) : r[i] = q[i]
      /\ r[Len(q) + 1] = F[1] /\ r[Len(q) + 2] = F[2]
  <2>1. Len(r) = Len(q) + Len(F)
    BY ZenonT(60), <1>1, Joined DEF r
  <2>2. \A i \in 1 .. Len(q) : r[i] = q[i]
    BY <1>1, Joined DEF r
  <2>3. \A i \in 1 .. Len(q) + Len(F) :
          r[i] = IF i <= Len(q) THEN q[i] ELSE F[i - Len(q)]
    BY <1>1, ConcatProperties DEF r
  <2> HIDE DEF r
  <2> DEFINE n == Len(q)
  <2>4. n \in Nat /\ n + 1 \in 1 .. n + 2 /\ n + 2 \in 1 .. n + 2
        /\ ~(n + 1 <= n) /\ ~(n + 2 <= n)
        /\ (n + 1) - n = 1 /\ (n + 2) - n = 2
    BY <1>3
  <2>5. r[n + 1] = F[(n + 1) - n] /\ r[n + 2] = F[(n + 2) - n]
    BY <1>1, <2>3, <2>4
  <2> QED  BY <1>1, <2>1, <2>2, <2>4, <2>5
<1> HIDE DEF r
<1>5. ASSUME NEW i \in 1 .. Len(g)
      PROVE  /\ r[2 * i - 1] = [frame |-> g[i], part |-> 1]
             /\ r[2 * i] = [frame |-> g[i], part |-> 2]
  <2>1. CASE i = Len(f) + 1
    <3>1. 2 * i - 1 = Len(q) + 1 /\ 2 * i = Len(q) + 2
      BY <1>3, <2>1
    <3> QED  BY <1>1, <1>2, <1>4, <2>1, <3>1
  <2>2. CASE i # Len(f) + 1
    <3>1. i \in 1 .. Len(f)
      BY <1>2, <1>3, <2>2
    <3>2. 2 * i - 1 \in 1 .. Len(q) /\ 2 * i \in 1 .. Len(q)
      BY <1>3, <3>1
    <3> QED  BY <1>2, <1>4, <3>1, <3>2 DEF Carries
  <2> QED  BY <2>1, <2>2
<1>6. Len(r) = 2 * Len(g)
  BY <1>2, <1>3, <1>4
<1> HIDE DEF g
<1>7. Carries(r, g)
  BY <1>5, <1>6 DEF Carries
<1> QED  BY <1>7 DEF r, g, F

(* The first piece, and the first frame, of what a stream carries.         *)
LEMMA Prefixed ==
  ASSUME NEW a \in Pieces, NEW q \in Seq(Pieces)
  PROVE  /\ <<a>> \o q \in Seq(Pieces) /\ Len(<<a>> \o q) = Len(q) + 1
         /\ (<<a>> \o q)[1] = a
         /\ \A i \in 1 .. Len(q) : (<<a>> \o q)[i + 1] = q[i]
<1> DEFINE A == <<a>>
           r == A \o q
<1>1. A \in Seq(Pieces) /\ Len(A) = 1 /\ A[1] = a
  OBVIOUS
<1>2. Len(q) \in Nat
  BY LenProperties
<1> HIDE DEF A
<1>3. r \in Seq(Pieces) /\ Len(r) = Len(A) + Len(q)
  BY <1>1, ConcatProperties
<1>4. \A i \in 1 .. Len(A) + Len(q) :
        r[i] = IF i <= Len(A) THEN A[i] ELSE q[i - Len(A)]
  BY <1>1, ConcatProperties
<1> HIDE DEF r
<1>5. r[1] = a
  BY <1>1, <1>2, <1>4
<1>6. ASSUME NEW i \in 1 .. Len(q) PROVE r[i + 1] = q[i]
  <2>1. i + 1 \in 1 .. 1 + Len(q) /\ ~(i + 1 <= 1) /\ (i + 1) - 1 = i
    BY <1>2
  <2>2. r[i + 1] = q[(i + 1) - 1]
    BY <1>1, <1>4, <2>1
  <2> QED  BY <2>1, <2>2
<1>7. Len(r) = Len(q) + 1
  BY <1>1, <1>2, <1>3
<1> QED  BY <1>3, <1>5, <1>6, <1>7 DEF r, A

LEMMA FirstPiece ==
  ASSUME NEW a \in Pieces, NEW q \in Seq(Pieces), NEW f \in Seq(ServerCalls),
         Carries(<<a>> \o q, f)
  PROVE  f # <<>> /\ a = [frame |-> f[1], part |-> 1]
<1> DEFINE r == <<a>> \o q
<1>1. Len(r) = Len(q) + 1 /\ r[1] = a
  BY Prefixed
<1>2. Len(q) \in Nat /\ Len(f) \in Nat
  BY LenProperties
<1>3. Carries(r, f)
  OBVIOUS
<1> HIDE DEF r
<1>4. Len(r) = 2 * Len(f)
  BY <1>3 DEF Carries
<1>5. 1 \in 1 .. Len(f)
  BY <1>1, <1>2, <1>4
<1>6. r[2 * 1 - 1] = [frame |-> f[1], part |-> 1]
  BY <1>3, <1>5 DEF Carries
<1> QED  BY <1>1, <1>5, <1>6, EmptySeq

LEMMA FirstFrame ==
  ASSUME NEW a \in Pieces, NEW b \in Pieces, NEW q \in Seq(Pieces),
         NEW f \in Seq(ServerCalls), Carries(<<a>> \o (<<b>> \o q), f)
  PROVE  /\ f # <<>> /\ Head(f) = a.frame /\ Tail(f) \in Seq(ServerCalls)
         /\ b = [frame |-> a.frame, part |-> 2]
         /\ Carries(q, Tail(f))
<1> DEFINE p == <<b>> \o q
           r == <<a>> \o p
           g == Tail(f)
<1>1. /\ p \in Seq(Pieces) /\ Len(p) = Len(q) + 1 /\ p[1] = b
      /\ \A i \in 1 .. Len(q) : p[i + 1] = q[i]
  BY Prefixed
<1>2. Len(q) \in Nat /\ Len(f) \in Nat
  BY LenProperties
<1> HIDE DEF p
<1>3. /\ Len(r) = Len(p) + 1 /\ r[1] = a
      /\ \A i \in 1 .. Len(p) : r[i + 1] = p[i]
  BY <1>1, Prefixed
<1>4. Carries(r, f)
  BY DEF p
<1>5. f # <<>> /\ a = [frame |-> f[1], part |-> 1]
  BY <1>1, <1>4, FirstPiece
<1> HIDE DEF r
<1>6. /\ g \in Seq(ServerCalls) /\ Len(g) = Len(f) - 1
      /\ \A i \in 1 .. Len(g) : g[i] = f[i + 1]
      /\ Head(f) = f[1]
  BY <1>5, HeadTailProperties
<1>7. Len(r) = 2 * Len(f) /\ Len(r) = Len(q) + 2
      /\ Len(q) = 2 * Len(g)
  BY <1>1, <1>2, <1>3, <1>4, <1>6 DEF Carries
<1>8. b = [frame |-> f[1], part |-> 2]
  <2>1. 1 \in 1 .. Len(f) /\ 1 \in 1 .. Len(p)
    BY <1>1, <1>2, <1>7
  <2>2. r[2 * 1] = [frame |-> f[1], part |-> 2]
    BY <1>4, <2>1 DEF Carries
  <2>3. r[1 + 1] = p[1]
    BY <1>3, <2>1
  <2> QED  BY <1>1, <2>2, <2>3
<1>9. ASSUME NEW i \in 1 .. Len(g)
      PROVE  /\ q[2 * i - 1] = [frame |-> g[i], part |-> 1]
             /\ q[2 * i] = [frame |-> g[i], part |-> 2]
  <2> DEFINE j == 2 * i - 1
             k == 2 * i
             n == i + 1
  <2>1. /\ j \in 1 .. Len(q) /\ k \in 1 .. Len(q)
        /\ j + 1 \in 1 .. Len(p) /\ k + 1 \in 1 .. Len(p)
        /\ 2 * n - 1 = (j + 1) + 1 /\ 2 * n = (k + 1) + 1
        /\ n \in 1 .. Len(f)
    BY <1>1, <1>2, <1>6, <1>7
  <2>2. g[i] = f[n]
    BY <1>6
  <2> HIDE DEF j, k, n
  <2>3. r[(j + 1) + 1] = q[j] /\ r[(k + 1) + 1] = q[k]
    BY <1>1, <1>3, <2>1
  <2>4. /\ r[2 * n - 1] = [frame |-> f[n], part |-> 1]
        /\ r[2 * n] = [frame |-> f[n], part |-> 2]
    BY <1>4, <2>1 DEF Carries
  <2> QED  BY <2>1, <2>2, <2>3, <2>4 DEF j, k
<1>10. Carries(q, g)
  BY <1>7, <1>9 DEF Carries
<1> HIDE DEF g
<1> QED  BY <1>5, <1>6, <1>8, <1>10 DEF g

(* update() begins the next frame ...                                      *)
LEMMA FrameBegun ==
  ASSUME NEW bytes \in Seq(Pieces), bytes # <<>>, NEW got \in Seq(Pieces),
         NEW w \in Seq(Pieces), NEW f \in Seq(ServerCalls),
         Carries(Stream("none", bytes, got, w), f)
  PROVE  /\ Head(bytes).frame \in ServerCalls /\ Tail(bytes) \in Seq(Pieces)
         /\ Carries(Stream(Head(bytes).frame, Tail(bytes), got, w), f)
<1> DEFINE a == Head(bytes)
           t == Tail(bytes)
           r == got \o w
<1>1. a \in Pieces /\ t \in Seq(Pieces)
  BY HeadTailProperties
<1>2. r \in Seq(Pieces)
  BY ConcatProperties
<1>3. bytes = <<a>> \o t
  OBVIOUS
<1>4. <<a>> \in Seq(Pieces)
  BY <1>1
<1> HIDE DEF a, t, r
<1>5. (<<a>> \o t) \o r = <<a>> \o (t \o r)
  BY <1>1, <1>2, <1>4, ConcatAssociative
<1>6. t \o r \in Seq(Pieces) /\ <<a>> \o (t \o r) \in Seq(Pieces)
  BY <1>1, <1>2, <1>4, ConcatProperties
<1>7. Stream("none", bytes, got, w) = <<a>> \o (t \o r)
  BY <1>3, <1>5, <1>6, ConcatEmptySeq DEF Stream, Opened, r
<1>8. a = [frame |-> f[1], part |-> 1]
  BY <1>1, <1>6, <1>7, FirstPiece
<1>9. a.frame \in ServerCalls /\ a = [frame |-> a.frame, part |-> 1]
  BY <1>1, <1>8 DEF Pieces
<1>10. Stream(a.frame, t, got, w) = <<a>> \o (t \o r)
  BY <1>9 DEF Stream, Opened, ServerCalls, r
<1> QED  BY <1>1, <1>7, <1>9, <1>10 DEF a, t

(* ... and read() finds the rest of it, nothing else.                      *)
LEMMA FrameEnded ==
  ASSUME NEW half \in ServerCalls, NEW bytes \in Seq(Pieces), bytes # <<>>,
         NEW got \in Seq(Pieces), NEW w \in Seq(Pieces),
         NEW f \in Seq(ServerCalls), Carries(Stream(half, bytes, got, w), f)
  PROVE  /\ Head(bytes) = [frame |-> half, part |-> 2]
         /\ Tail(bytes) \in Seq(Pieces)
         /\ f # <<>> /\ Head(f) = half /\ Tail(f) \in Seq(ServerCalls)
         /\ Carries(Stream("none", Tail(bytes), got, w), Tail(f))
<1> DEFINE a == [frame |-> half, part |-> 1]
           b == Head(bytes)
           t == Tail(bytes)
           r == got \o w
<1>1. a \in Pieces /\ a.frame = half /\ b \in Pieces /\ t \in Seq(Pieces)
  BY HeadTailProperties DEF Pieces
<1>2. r \in Seq(Pieces)
  BY ConcatProperties
<1>3. bytes = <<b>> \o t
  OBVIOUS
<1>4. <<b>> \in Seq(Pieces)
  BY <1>1
<1>5. Opened(half) = <<a>>
  BY DEF Opened, ServerCalls
<1> HIDE DEF a, b, t, r
<1>6. (<<b>> \o t) \o r = <<b>> \o (t \o r)
  BY <1>1, <1>2, <1>4, ConcatAssociative
<1>7. t \o r \in Seq(Pieces)
  BY <1>1, <1>2, ConcatProperties
<1>8. Stream(half, bytes, got, w) = <<a>> \o (<<b>> \o (t \o r))
  BY <1>3, <1>5, <1>6 DEF Stream, r
<1>9. Stream("none", t, got, w) = t \o r
  BY <1>7, ConcatEmptySeq DEF Stream, Opened, r
<1> DEFINE u == t \o r
<1>11. u \in Seq(Pieces) /\ Carries(<<a>> \o (<<b>> \o u), f)
  BY <1>7, <1>8
<1> HIDE DEF u
<1>10. /\ f # <<>> /\ Head(f) = a.frame /\ Tail(f) \in Seq(ServerCalls)
       /\ b = [frame |-> a.frame, part |-> 2]
       /\ Carries(u, Tail(f))
  BY <1>1, <1>11, FirstFrame
<1> QED  BY <1>1, <1>9, <1>10 DEF b, t, u

LEMMA ArrivedFits ==
  ASSUME NEW q \in Seq(Handlers)
  PROVE  /\ Arrived(q) \in Seq(Pieces)
         /\ Without(q, AttemptOps) => Arrived(q) = <<>> /\ GotOf(q) = {}
         /\ \A g : GotOf(q) = {g} => Arrived(q) = g
         /\ \A h : h.op = "receive" /\ Lone(q, AttemptOps, h)
                     => GotOf(q) = {h.got}
<1>1. ASSUME NEW g \in GotOf(q) PROVE g \in Seq(Pieces)
  <2>1. PICK i \in 1 .. Len(q) : q[i].got = g
    BY <1>1 DEF GotOf
  <2>2. q[i] \in Handlers
    BY ElementOfSeq
  <2> QED  BY <2>1, <2>2 DEF Handlers
<1>2. Arrived(q) \in Seq(Pieces)
  <2>1. CASE GotOf(q) = {}
    BY <2>1, EmptySeq DEF Arrived
  <2>2. CASE GotOf(q) # {}
    <3>1. Arrived(q) \in GotOf(q)
      BY <2>2 DEF Arrived
    <3> QED  BY <1>1, <3>1
  <2> QED  BY <2>1, <2>2
<1>3. Without(q, AttemptOps) => Arrived(q) = <<>> /\ GotOf(q) = {}
  BY GotWithout DEF Arrived
<1>4. ASSUME NEW g, GotOf(q) = {g} PROVE Arrived(q) = g
  BY <1>4 DEF Arrived
<1>5. ASSUME NEW h, h.op = "receive", Lone(q, AttemptOps, h)
      PROVE  GotOf(q) = {h.got}
  <2>1. PICK k \in 1 .. Len(q) :
          /\ q[k] = h
          /\ \A j \in 1 .. Len(q) : q[j].op \in AttemptOps => j = k
    BY <1>5 DEF Lone
  <2>2. \A j \in 1 .. Len(q) : q[j].op = "receive" <=> j = k
    BY <1>5, <2>1 DEF AttemptOps
  <2> QED  BY <2>1, <2>2 DEF GotOf
<1> QED  BY <1>2, <1>3, <1>4, <1>5

-----------------------------------------------------------------------------
(* The client while nothing was lost: first it attempts to connect, one    *)
(* step at a time ...                                                      *)
Blank(s) ==
  /\ NoCall(s) /\ s.receiving = 0
  /\ s.stdin = <<>> /\ s.input_buffer_ = <<>>
  /\ s.incomming_bytes_ = <<>> /\ s.half = "none" /\ s.loop # "read"

Attempting(s) ==
  /\ Blank(s)
  /\ \/ /\ s.ready = <<>>
        /\ \/ Place(s, "set", FALSE, FALSE, "closed")
           \/ Place(s, "elapsing", FALSE, FALSE, "closed")
           \/ Place(s, "off", TRUE, FALSE, "closed")
           \/ Place(s, "off", FALSE, TRUE, "open")
     \/ /\ s.ready \in {<<Done("timer")>>, <<Done("resolve")>>,
                        <<Failed("resolve")>>}
        /\ Place(s, "off", FALSE, FALSE, "closed")
     \/ /\ s.ready = <<Failed("connect")>>
        /\ Place(s, "off", FALSE, FALSE, "open")

LEMMA RestFields ==
  ASSUME NEW s \in ProcessStates
  PROVE  /\ Next1(s).stdin = s.stdin
         /\ Next1(s).input_buffer_ = s.input_buffer_
         /\ Next1(s).loop = s.loop /\ Next1(s).half = s.half
BY DEF Next1, ProcessStates

(* An attempt goes on, or waits to be made again, with each handler.       *)
LEMMA AttemptRuns ==
  ASSUME NEW s \in ProcessStates, Attempting(s), s.ready # <<>>
  PROVE  Attempting(Handled(s)) /\ Handled(s).failure = s.failure
<1> DEFINE h == Head(s.ready)
           n == Next1(s)
           u == Handled(s)
<1>1. /\ n \in ProcessStates /\ h \in Handlers /\ u \in ProcessStates
      /\ n.ready = Tail(s.ready)
      /\ n.socket = s.socket /\ n.resolving = s.resolving
      /\ n.connecting = s.connecting /\ n.receiving = s.receiving
      /\ n.writing = s.writing /\ n.timer = s.timer
      /\ n.incomming_bytes_ = s.incomming_bytes_
      /\ n.outbound_messages_ = s.outbound_messages_
      /\ n.failure = s.failure
      /\ n.stdin = s.stdin /\ n.input_buffer_ = s.input_buffer_
      /\ n.loop = s.loop /\ n.half = s.half
  BY NextFields, RestFields
<1>2. PICK g : /\ s.ready = <<g>>
               /\ \/ /\ g \in {Done("timer"), Done("resolve"), Failed("resolve")}
                     /\ Place(s, "off", FALSE, FALSE, "closed")
                  \/ /\ g = Failed("connect")
                     /\ Place(s, "off", FALSE, FALSE, "open")
  BY DEF Attempting
<1>3. h = g /\ Tail(s.ready) = <<>>
  BY <1>2
<1>4. n.ready = <<>> /\ Blank(n)
  BY <1>1, <1>3 DEF Attempting, Blank, NoCall
<1>5. /\ Done("timer").op = "timer" /\ Done("timer").ok
      /\ Done("resolve").op = "resolve" /\ Done("resolve").ok
      /\ Failed("resolve").op = "resolve" /\ ~Failed("resolve").ok
      /\ Failed("connect").op = "connect" /\ ~Failed("connect").ok
  BY DEF Done, Failed
<1>6. CloseSocket(n).ready = n.ready /\ CloseSocket(n) \in ProcessStates
  BY <1>1, <1>2, <1>4, CloseIdle, CloseEffect DEF Blank, NoCall, Place
<1>7. CASE h = Done("timer")
  <2>1. Place(n, "off", FALSE, FALSE, "closed")
    BY <1>1, <1>2, <1>3, <1>5, <1>7 DEF Place
  <2>2. u = [n EXCEPT !.resolving = TRUE]
    BY <1>5, <1>7, <2>1 DEF Handled, Handle, onTimer, open, Place
  <2> HIDE DEF u, n
  <2>3. /\ u.receiving = n.receiving /\ u.writing = n.writing
        /\ u.outbound_messages_ = n.outbound_messages_
        /\ u.incomming_bytes_ = n.incomming_bytes_ /\ u.half = n.half
        /\ u.stdin = n.stdin /\ u.input_buffer_ = n.input_buffer_
        /\ u.ready = n.ready /\ u.loop = n.loop /\ u.failure = n.failure
        /\ Place(u, "off", TRUE, FALSE, "closed")
    BY <1>1, <2>1, <2>2 DEF ProcessStates, Place
  <2>4. Blank(u)
    BY <1>4, <2>3 DEF Blank, NoCall
  <2>5. Attempting(u)
    BY <1>4, <2>3, <2>4 DEF Attempting
  <2> QED  BY <1>1, <2>3, <2>5 DEF u
<1>8. CASE h = Done("resolve")
  <2>1. Place(n, "off", FALSE, FALSE, "closed")
    BY <1>1, <1>2, <1>3, <1>5, <1>8 DEF Place
  <2>2. u = async_connect(n)
    BY <1>5, <1>8 DEF Handled, Handle, onResolve
  <2> DEFINE c == CloseSocket(n)
  <2>3. /\ c.receiving = 0 /\ c.writing = FALSE /\ c.timer = n.timer
        /\ c.resolving = n.resolving /\ c.failure = n.failure
        /\ c.incomming_bytes_ = n.incomming_bytes_ /\ c.half = n.half
        /\ c.outbound_messages_ = n.outbound_messages_
        /\ c.stdin = n.stdin /\ c.input_buffer_ = n.input_buffer_
        /\ c.loop = n.loop
    BY ZenonT(60), <1>1 DEF CloseSocket, ProcessStates
  <2>4. u = [c EXCEPT !.socket = "open", !.connecting = TRUE]
    BY <2>2 DEF async_connect
  <2>5. c.ready = <<>> /\ c \in ProcessStates
    BY <1>4, <1>6
  <2> HIDE DEF u, c, n
  <2>6. /\ u.receiving = c.receiving /\ u.writing = c.writing
        /\ u.outbound_messages_ = c.outbound_messages_
        /\ u.incomming_bytes_ = c.incomming_bytes_ /\ u.half = c.half
        /\ u.stdin = c.stdin /\ u.input_buffer_ = c.input_buffer_
        /\ u.ready = c.ready /\ u.loop = c.loop /\ u.failure = c.failure
        /\ u.socket = "open" /\ u.connecting = TRUE
        /\ u.timer = c.timer /\ u.resolving = c.resolving
    BY <2>4, <2>5 DEF ProcessStates
  <2>7. Blank(u) /\ Place(u, "off", FALSE, TRUE, "open")
    BY <1>4, <2>1, <2>3, <2>6 DEF Blank, NoCall, Place
  <2>8. Attempting(u)
    BY <2>5, <2>6, <2>7 DEF Attempting
  <2> QED  BY <1>1, <2>3, <2>6, <2>8 DEF u
<1>9. CASE h \in {Failed("resolve"), Failed("connect")}
  <2> DEFINE e == [n EXCEPT !.timer = "set"]
  <2>1. n.timer = "off" /\ n.resolving = FALSE /\ n.connecting = FALSE
    BY <1>1, <1>2 DEF Place
  <2>2. u = close(e)
    <3>1. u = close(on_error(n))
      BY <1>5, <1>9 DEF Handled, Handle, onResolve, onConnect
    <3>2. on_error(n) = e
      BY <2>1 DEF on_error, reconnect_in
    <3> QED  BY <3>1, <3>2
  <2> HIDE DEF n, u
  <2>3. /\ e.receiving = n.receiving /\ e.writing = n.writing
        /\ e.outbound_messages_ = n.outbound_messages_
        /\ e.incomming_bytes_ = n.incomming_bytes_ /\ e.half = n.half
        /\ e.stdin = n.stdin /\ e.input_buffer_ = n.input_buffer_
        /\ e.ready = n.ready /\ e.loop = n.loop /\ e.failure = n.failure
        /\ e.timer = "set" /\ e.resolving = FALSE /\ e.connecting = FALSE
        /\ e \in ProcessStates
    BY <1>1, <2>1 DEF ProcessStates
  <2> HIDE DEF e
  <2> DEFINE c == CloseSocket(e)
  <2>4. c.ready = <<>> /\ c \in ProcessStates
    BY <1>4, <2>3, CloseIdle, CloseEffect DEF Blank, NoCall
  <2>5. /\ c.receiving = 0 /\ c.writing = FALSE /\ c.timer = e.timer
        /\ c.resolving = e.resolving /\ c.connecting = FALSE
        /\ c.socket = "closed" /\ c.failure = e.failure /\ c.half = e.half
        /\ c.stdin = e.stdin /\ c.input_buffer_ = e.input_buffer_
        /\ c.loop = e.loop
    BY <2>3 DEF CloseSocket, ProcessStates
  <2>6. u = [c EXCEPT !.incomming_bytes_ = <<>>,
                      !.outbound_messages_ = EmptyQueue]
    BY <2>2 DEF close
  <2> HIDE DEF c
  <2>7. /\ u.receiving = 0 /\ u.writing = FALSE
        /\ u.outbound_messages_ = EmptyQueue
        /\ u.incomming_bytes_ = <<>> /\ u.half = c.half
        /\ u.stdin = c.stdin /\ u.input_buffer_ = c.input_buffer_
        /\ u.ready = <<>> /\ u.loop = c.loop /\ u.failure = c.failure
        /\ u.timer = c.timer /\ u.resolving = c.resolving
        /\ u.connecting = c.connecting /\ u.socket = c.socket
    BY <2>4, <2>5, <2>6 DEF ProcessStates
  <2>8. Blank(u) /\ Place(u, "set", FALSE, FALSE, "closed")
    BY <1>4, <2>3, <2>5, <2>7 DEF Blank, NoCall, Place
  <2>9. Attempting(u)
    BY <2>7, <2>8 DEF Attempting
  <2> QED  BY <1>1, <2>3, <2>5, <2>7, <2>9 DEF u
<1> QED  BY <1>2, <1>3, <1>7, <1>8, <1>9

LEMMA AttemptsComplete ==
  ASSUME NEW s \in ProcessStates, Attempting(s)
  PROVE  /\ s.resolving => \A h \in {Done("resolve"), Failed("resolve")} :
              LET t == [Post(s, h) EXCEPT !.resolving = FALSE]
              IN  Attempting(t) /\ t.failure = s.failure
         /\ s.connecting =>
              LET t == [Post(s, Failed("connect")) EXCEPT !.connecting = FALSE]
              IN  Attempting(t) /\ t.failure = s.failure
         /\ s.timer = "set" /\ s.ready = <<>> =>
              LET t == [s EXCEPT !.timer = "elapsing"]
              IN  Attempting(t) /\ t.failure = s.failure
         /\ s.timer = "elapsing" =>
              LET t == [Post(s, Done("timer")) EXCEPT !.timer = "off"]
              IN  Attempting(t) /\ t.failure = s.failure
<1>1. Blank(s)
  BY DEF Attempting
<1>2. ASSUME NEW t, t.writing = s.writing, t.receiving = s.receiving,
             t.outbound_messages_ = s.outbound_messages_,
             t.incomming_bytes_ = s.incomming_bytes_, t.half = s.half,
             t.stdin = s.stdin, t.input_buffer_ = s.input_buffer_,
             t.loop = s.loop
      PROVE  Blank(t)
  BY <1>1, <1>2 DEF Blank, NoCall
<1>3. ASSUME NEW h \in Handlers, s.ready = <<>>
      PROVE  LET p == Post(s, h)
             IN  /\ p \in ProcessStates /\ p.ready = <<h>>
                 /\ p.writing = s.writing /\ p.receiving = s.receiving
                 /\ p.outbound_messages_ = s.outbound_messages_
                 /\ p.incomming_bytes_ = s.incomming_bytes_ /\ p.half = s.half
                 /\ p.stdin = s.stdin /\ p.input_buffer_ = s.input_buffer_
                 /\ p.loop = s.loop /\ p.failure = s.failure
                 /\ p.timer = s.timer /\ p.resolving = s.resolving
                 /\ p.connecting = s.connecting /\ p.socket = s.socket
  <2> DEFINE p == Post(s, h)
             q == <<h>>
  <2>1. p \in ProcessStates
    BY PostFields
  <2>2. p = [s EXCEPT !.ready = q]
    BY <1>3 DEF Post
  <2> HIDE DEF p, q
  <2>3. /\ p.ready = q
        /\ p.writing = s.writing /\ p.receiving = s.receiving
        /\ p.outbound_messages_ = s.outbound_messages_
        /\ p.incomming_bytes_ = s.incomming_bytes_ /\ p.half = s.half
        /\ p.stdin = s.stdin /\ p.input_buffer_ = s.input_buffer_
        /\ p.loop = s.loop /\ p.failure = s.failure
        /\ p.timer = s.timer /\ p.resolving = s.resolving
        /\ p.connecting = s.connecting /\ p.socket = s.socket
    BY <2>2 DEF ProcessStates
  <2> QED  BY <2>1, <2>3 DEF p, q
<1>4. ASSUME s.resolving, NEW h \in {Done("resolve"), Failed("resolve")}
      PROVE  LET t == [Post(s, h) EXCEPT !.resolving = FALSE]
             IN  Attempting(t) /\ t.failure = s.failure
  <2> DEFINE p == Post(s, h)
             t == [p EXCEPT !.resolving = FALSE]
  <2>1. s.ready = <<>> /\ Place(s, "off", TRUE, FALSE, "closed")
    BY <1>4 DEF Attempting, Place
  <2>2. h \in Handlers
    BY HandlerTypes DEF Ops
  <2>3. /\ p \in ProcessStates /\ p.ready = <<h>>
        /\ p.writing = s.writing /\ p.receiving = s.receiving
        /\ p.outbound_messages_ = s.outbound_messages_
        /\ p.incomming_bytes_ = s.incomming_bytes_ /\ p.half = s.half
        /\ p.stdin = s.stdin /\ p.input_buffer_ = s.input_buffer_
        /\ p.loop = s.loop /\ p.failure = s.failure
        /\ p.timer = s.timer /\ p.resolving = s.resolving
        /\ p.connecting = s.connecting /\ p.socket = s.socket
    BY <1>3, <2>1, <2>2
  <2> HIDE DEF p
  <2>4. /\ t.ready = <<h>>
        /\ t.writing = s.writing /\ t.receiving = s.receiving
        /\ t.outbound_messages_ = s.outbound_messages_
        /\ t.incomming_bytes_ = s.incomming_bytes_ /\ t.half = s.half
        /\ t.stdin = s.stdin /\ t.input_buffer_ = s.input_buffer_
        /\ t.loop = s.loop /\ t.failure = s.failure
        /\ Place(t, "off", FALSE, FALSE, "closed")
    BY <2>1, <2>3 DEF ProcessStates, Place
  <2> HIDE DEF t
  <2>5. Attempting(t)
    BY <1>2, <2>4 DEF Attempting
  <2> QED  BY <2>4, <2>5 DEF t, p
<1>5. ASSUME s.connecting
      PROVE  LET t == [Post(s, Failed("connect")) EXCEPT !.connecting = FALSE]
             IN  Attempting(t) /\ t.failure = s.failure
  <2> DEFINE h == Failed("connect")
             p == Post(s, h)
             t == [p EXCEPT !.connecting = FALSE]
  <2>1. s.ready = <<>> /\ Place(s, "off", FALSE, TRUE, "open")
    BY <1>5 DEF Attempting, Place
  <2>2. h \in Handlers
    BY HandlerTypes DEF Ops
  <2>3. /\ p \in ProcessStates /\ p.ready = <<h>>
        /\ p.writing = s.writing /\ p.receiving = s.receiving
        /\ p.outbound_messages_ = s.outbound_messages_
        /\ p.incomming_bytes_ = s.incomming_bytes_ /\ p.half = s.half
        /\ p.stdin = s.stdin /\ p.input_buffer_ = s.input_buffer_
        /\ p.loop = s.loop /\ p.failure = s.failure
        /\ p.timer = s.timer /\ p.resolving = s.resolving
        /\ p.connecting = s.connecting /\ p.socket = s.socket
    BY <1>3, <2>1, <2>2
  <2> HIDE DEF p, h
  <2>4. /\ t.ready = <<h>>
        /\ t.writing = s.writing /\ t.receiving = s.receiving
        /\ t.outbound_messages_ = s.outbound_messages_
        /\ t.incomming_bytes_ = s.incomming_bytes_ /\ t.half = s.half
        /\ t.stdin = s.stdin /\ t.input_buffer_ = s.input_buffer_
        /\ t.loop = s.loop /\ t.failure = s.failure
        /\ Place(t, "off", FALSE, FALSE, "open")
    BY <2>1, <2>3 DEF ProcessStates, Place
  <2> HIDE DEF t
  <2>5. Attempting(t)
    BY <1>2, <2>4 DEF Attempting, h
  <2> QED  BY <2>4, <2>5 DEF t, p, h
<1>6. ASSUME s.timer = "set", s.ready = <<>>
      PROVE  LET t == [s EXCEPT !.timer = "elapsing"]
             IN  Attempting(t) /\ t.failure = s.failure
  <2> DEFINE t == [s EXCEPT !.timer = "elapsing"]
  <2>1. Place(s, "set", FALSE, FALSE, "closed")
    BY <1>6 DEF Attempting, Place
  <2>2. /\ t.ready = s.ready
        /\ t.writing = s.writing /\ t.receiving = s.receiving
        /\ t.outbound_messages_ = s.outbound_messages_
        /\ t.incomming_bytes_ = s.incomming_bytes_ /\ t.half = s.half
        /\ t.stdin = s.stdin /\ t.input_buffer_ = s.input_buffer_
        /\ t.loop = s.loop /\ t.failure = s.failure
        /\ Place(t, "elapsing", FALSE, FALSE, "closed")
    BY <2>1 DEF ProcessStates, Place
  <2> HIDE DEF t
  <2>3. Attempting(t)
    BY <1>2, <1>6, <2>2 DEF Attempting
  <2> QED  BY <2>2, <2>3 DEF t
<1>7. ASSUME s.timer = "elapsing"
      PROVE  LET t == [Post(s, Done("timer")) EXCEPT !.timer = "off"]
             IN  Attempting(t) /\ t.failure = s.failure
  <2> DEFINE h == Done("timer")
             p == Post(s, h)
             t == [p EXCEPT !.timer = "off"]
  <2>1. s.ready = <<>> /\ Place(s, "elapsing", FALSE, FALSE, "closed")
    BY <1>7 DEF Attempting, Place
  <2>2. h \in Handlers
    BY HandlerTypes DEF Ops
  <2>3. /\ p \in ProcessStates /\ p.ready = <<h>>
        /\ p.writing = s.writing /\ p.receiving = s.receiving
        /\ p.outbound_messages_ = s.outbound_messages_
        /\ p.incomming_bytes_ = s.incomming_bytes_ /\ p.half = s.half
        /\ p.stdin = s.stdin /\ p.input_buffer_ = s.input_buffer_
        /\ p.loop = s.loop /\ p.failure = s.failure
        /\ p.timer = s.timer /\ p.resolving = s.resolving
        /\ p.connecting = s.connecting /\ p.socket = s.socket
    BY <1>3, <2>1, <2>2
  <2> HIDE DEF p, h
  <2>4. /\ t.ready = <<h>>
        /\ t.writing = s.writing /\ t.receiving = s.receiving
        /\ t.outbound_messages_ = s.outbound_messages_
        /\ t.incomming_bytes_ = s.incomming_bytes_ /\ t.half = s.half
        /\ t.stdin = s.stdin /\ t.input_buffer_ = s.input_buffer_
        /\ t.loop = s.loop /\ t.failure = s.failure
        /\ Place(t, "off", FALSE, FALSE, "closed")
    BY <2>1, <2>3 DEF ProcessStates, Place
  <2> HIDE DEF t
  <2>5. Attempting(t)
    BY <1>2, <2>4 DEF Attempting, h
  <2> QED  BY <2>4, <2>5 DEF t, p, h
<1> QED  BY <1>4, <1>5, <1>6, <1>7

-----------------------------------------------------------------------------
(* The answers among the calls of the server.                              *)
Answers(f) == {i \in DOMAIN f : f[i] # "on_subscribeShip"}
IsAnswer(m) == IF m = "on_subscribeShip" THEN 0 ELSE 1

LEMMA AnswersFinite ==
  ASSUME NEW f \in Seq(ServerCalls)
  PROVE  /\ IsFiniteSet(Answers(f)) /\ Cardinality(Answers(f)) \in Nat
         /\ DOMAIN f = 1 .. Len(f) /\ Len(f) \in Nat
<1>1. DOMAIN f = 1 .. Len(f) /\ Len(f) \in Nat
  BY LenProperties
<1>2. IsFiniteSet(1 .. Len(f))
  BY <1>1, FS_Interval
<1>3. IsFiniteSet(Answers(f))
  BY <1>1, <1>2, FS_Subset DEF Answers
<1> QED  BY <1>1, <1>3, FS_CardinalityType

LEMMA AnswersSent ==
  ASSUME NEW f \in Seq(ServerCalls), NEW m \in ServerCalls
  PROVE  /\ Append(f, m) \in Seq(ServerCalls)
         /\ Cardinality(Answers(Append(f, m)))
              = Cardinality(Answers(f)) + IsAnswer(m)
<1> DEFINE n == Len(f)
           r == Append(f, m)
<1>1. /\ n \in Nat /\ Len(r) = n + 1 /\ r[n + 1] = m /\ r \in Seq(ServerCalls)
      /\ \A i \in 1 .. n : r[i] = f[i]
  BY AppendProperties, LenProperties
<1>2. DOMAIN f = 1 .. n /\ DOMAIN r = 1 .. n + 1
  BY <1>1, AnswersFinite
<1>3. Answers(r) = Answers(f) \cup (IF m # "on_subscribeShip" THEN {n + 1} ELSE {})
  <2> HIDE DEF n, r
  <2>1. 1 .. n + 1 = (1 .. n) \cup {n + 1} /\ n + 1 \notin 1 .. n
    BY <1>1
  <2> QED  BY <1>1, <1>2, <2>1 DEF Answers
<1>4. n + 1 \notin Answers(f)
  BY <1>1, <1>2 DEF Answers
<1>5. IsFiniteSet(Answers(f)) /\ Cardinality(Answers(f)) \in Nat
  BY AnswersFinite
<1> HIDE DEF n, r
<1>6. CASE m # "on_subscribeShip"
  BY <1>1, <1>3, <1>4, <1>5, <1>6, FS_AddElement DEF r, IsAnswer
<1>7. CASE m = "on_subscribeShip"
  BY <1>1, <1>3, <1>5, <1>7 DEF r, IsAnswer
<1> QED  BY <1>6, <1>7

LEMMA AnswersTaken ==
  ASSUME NEW f \in Seq(ServerCalls), f # <<>>
  PROVE  Cardinality(Answers(f))
           = Cardinality(Answers(Tail(f))) + IsAnswer(Head(f))
<1> DEFINE n == Len(f)
           r == Tail(f)
<1>1. /\ n \in Nat /\ n # 0 /\ Len(r) = n - 1 /\ Head(f) = f[1]
      /\ r \in Seq(ServerCalls)
      /\ \A i \in 1 .. Len(r) : r[i] = f[i + 1]
  BY HeadTailProperties, LenProperties, EmptySeq
<1>2. DOMAIN f = 1 .. n /\ DOMAIN r = 1 .. n - 1
  BY <1>1, AnswersFinite
<1> DEFINE T == {i \in 2 .. n : f[i] # "on_subscribeShip"}
           g == [i \in Answers(r) |-> i + 1]
<1>3. g \in Surjection(Answers(r), T) /\ g \in Injection(Answers(r), T)
  <2> HIDE DEF r
  <2>1. \A i \in Answers(r) : i \in 1 .. n - 1 /\ r[i] # "on_subscribeShip"
    BY <1>2 DEF Answers
  <2>2. \A i \in Answers(r) : i + 1 \in T
    BY <1>1, <2>1
  <2>3. ASSUME NEW j \in T PROVE j - 1 \in Answers(r) /\ g[j - 1] = j
    <3>1. j - 1 \in 1 .. n - 1 /\ j - 1 + 1 = j
      BY <1>1
    <3>2. r[j - 1] = f[j]
      BY <1>1, <3>1
    <3>3. j - 1 \in Answers(r)
      BY <1>2, <3>1, <3>2 DEF Answers
    <3> QED  BY <3>1, <3>3
  <2>4. \A i, j \in Answers(r) : g[i] = g[j] => i = j
    BY <2>1
  <2>5. g \in [Answers(r) -> T]
    BY <2>2
  <2> HIDE DEF g, T
  <2> QED  BY <2>3, <2>4, <2>5 DEF Surjection, Injection, IsInjective
<1>4. IsFiniteSet(Answers(r)) /\ Cardinality(Answers(r)) \in Nat
  BY <1>1, AnswersFinite
<1>5. IsFiniteSet(T) /\ Cardinality(T) = Cardinality(Answers(r))
  BY <1>3, <1>4, FS_Surjection
<1>6. Answers(f) = T \cup (IF f[1] # "on_subscribeShip" THEN {1} ELSE {})
      /\ 1 \notin T
  <2>1. 1 .. n = {1} \cup (2 .. n)
    BY <1>1
  <2> QED  BY <1>2, <2>1 DEF Answers
<1> HIDE DEF T, r
<1>7. CASE f[1] # "on_subscribeShip"
  <2>1. Cardinality(T \cup {1}) = Cardinality(T) + 1
    BY <1>5, <1>6, FS_AddElement
  <2>2. Answers(f) = T \cup {1} /\ IsAnswer(Head(f)) = 1
    BY <1>1, <1>6, <1>7 DEF IsAnswer
  <2> QED  BY <1>5, <2>1, <2>2 DEF r
<1>8. CASE f[1] = "on_subscribeShip"
  BY <1>1, <1>4, <1>5, <1>6, <1>8 DEF r, IsAnswer
<1> QED  BY <1>7, <1>8

-----------------------------------------------------------------------------
(* ... then it is connected, and nothing on the connection has failed.     *)
Connecting(s) == Blank(s) /\ s.ready = <<Done("connect")>>

Sound(s) ==
  /\ Up(s) /\ ReceivesOk(s.ready)
  /\ ~Lone(s.ready, {"write"}, Failed("write"))
  /\ (s.loop = "read") <=> (s.half # "none")
  /\ Without(s.ready, {"connect"}) \/ Connecting(s)

Coming(s, w) == Stream(s.half, s.incomming_bytes_, Arrived(s.ready), w)

(* It has the one dialogue that the handler of the connect begins, and one *)
(* for each of the r refusals; they are at the terminal, in calls to the   *)
(* server, of which n have not been read, or in answers of the server, or  *)
(* the server has dropped them, as it has u calls.                         *)
Begun(s) == IF Without(s.ready, {"connect"}) THEN 1 ELSE 0

Account(s, n, f, u) ==
  Asking(s) + Len(Pending(s)) + n + Cardinality(Answers(f)) + u

Attended(s) == Silent(s) \/ Asked(s) \/ Typed(s)

Balanced(s, n, f, u, r, spoilt) ==
  /\ Account(s, n, f, u) <= Begun(s) + r
  /\ r = 0 => spoilt \/ (Account(s, n, f, u) = Begun(s) /\ Attended(s))

Conversing(s, n, w, u, r, spoilt) ==
  /\ Sound(s)
  /\ \E f \in Seq(ServerCalls) :
       Carries(Coming(s, w), f) /\ Balanced(s, n, f, u, r, spoilt)

LEMMA PendingType ==
  ASSUME NEW s \in ProcessStates
  PROVE  /\ Pending(s) \in Seq(Requests) /\ Len(Pending(s)) \in Nat
         /\ \A m \in Requests : Len(Append(Pending(s), m)) = Len(Pending(s)) + 1
<1>1. s.outbound_messages_ \in Queues(Requests)
  BY DEF ProcessStates
<1>2. /\ s.outbound_messages_.msgs \in Seq(Requests)
      /\ Rest(s.outbound_messages_) \in Seq(Requests)
  BY <1>1, RestElements DEF Queues
<1>3. Pending(s) \in Seq(Requests)
  BY <1>2 DEF Pending
<1> QED  BY <1>3, LenProperties, AppendProperties

(* What the account makes of what the parts of it make.                    *)
LEMMA AccountType ==
  ASSUME NEW s \in ProcessStates, NEW f \in Seq(ServerCalls), NEW n \in Nat,
         NEW u \in Nat
  PROVE  /\ Asking(s) \in Nat /\ Len(Pending(s)) \in Nat
         /\ Cardinality(Answers(f)) \in Nat
         /\ Account(s, n, f, u) \in Nat /\ Begun(s) \in {0, 1}
         /\ Account(s, n, f, u) >= Asking(s) + Cardinality(Answers(f))
<1>1. /\ Asking(s) \in Nat /\ Len(Pending(s)) \in Nat
      /\ Cardinality(Answers(f)) \in Nat
  BY AskingType, PendingType, AnswersFinite
<1> DEFINE a == Asking(s)
           p == Len(Pending(s))
           c == Cardinality(Answers(f))
<1>2. Account(s, n, f, u) = a + p + n + c + u
  BY DEF Account
<1>3. a \in Nat /\ p \in Nat /\ c \in Nat
  BY <1>1
<1> HIDE DEF a, p, c
<1>4. Account(s, n, f, u) \in Nat /\ Account(s, n, f, u) >= a + c
  BY <1>2, <1>3
<1> QED  BY <1>1, <1>4 DEF Begun, a, c

(* A handler does not move the loop that runs it.                          *)
AtLoop(s, t) == t.loop = s.loop /\ t.half = s.half

LEMMA LoopParts ==
  ASSUME NEW s \in ProcessStates
  PROVE  /\ \A h : AtLoop(s, Post(s, h))
         /\ \A p : AtLoop(s, Prompt(s, p))
         /\ AtLoop(s, Next1(s)) /\ AtLoop(s, TakeLine(s))
         /\ AtLoop(s, async_receive(s)) /\ AtLoop(s, async_write_one(s))
<1>1. ASSUME NEW h PROVE AtLoop(s, Post(s, h))
  BY DEF AtLoop, Post, ProcessStates
<1>2. ASSUME NEW p PROVE AtLoop(s, Prompt(s, p))
  <2>1. CASE s.input_buffer_ # <<>>
    BY <1>1, <2>1 DEF Prompt
  <2>2. CASE s.input_buffer_ = <<>>
    <3> DEFINE x == Append(s.stdin, [prompt |-> p, alone |-> s.stdin = <<>>])
    <3>1. Prompt(s, p) = [s EXCEPT !.stdin = x]
      BY <2>2 DEF Prompt
    <3> HIDE DEF x
    <3> QED  BY <3>1 DEF AtLoop, ProcessStates
  <2> QED  BY <2>1, <2>2
<1>3. AtLoop(s, Next1(s)) /\ AtLoop(s, TakeLine(s))
  BY DEF AtLoop, Next1, TakeLine, ProcessStates
<1>4. AtLoop(s, async_receive(s))
  <2>1. AtLoop(s, [s EXCEPT !.receiving = @ + 1])
    BY DEF AtLoop, ProcessStates
  <2> QED  BY <1>1, <2>1 DEF async_receive
<1>5. AtLoop(s, async_write_one(s))
  <2> DEFINE t == [s EXCEPT !.outbound_messages_ = Consolidate(@)]
             v == [t EXCEPT !.writing = TRUE]
             x == [t EXCEPT !.ready = Append(@, Failed("write"))]
  <2>1. async_write_one(s) \in {v, x}
    BY DEF async_write_one, Post
  <2>2. AtLoop(s, v) /\ AtLoop(s, x)
    BY DEF AtLoop, ProcessStates
  <2> QED  BY <2>1, <2>2
<1> QED  BY <1>1, <1>2, <1>3, <1>4, <1>5

LEMMA WriteCallLoop ==
  ASSUME NEW s \in ProcessStates, NEW m \in Requests
  PROVE  AtLoop(s, write(s, m))
<1> DEFINE t == [s EXCEPT !.outbound_messages_ = PushBack(@, m)]
<1>1. t \in ProcessStates
  BY PushBackProperties DEF ProcessStates
<1>2. AtLoop(s, t)
  BY DEF AtLoop, ProcessStates
<1>3. write(s, m) \in {t, async_write_one(t)}
  BY DEF write
<1> HIDE DEF t
<1> QED  BY <1>1, <1>2, <1>3, LoopParts DEF AtLoop

LEMMA HandledLoop ==
  ASSUME NEW s \in ProcessStates, s.ready # <<>>, Up(s),
         Head(s.ready).op \in {"receive", "write"} => Head(s.ready).ok
  PROVE  AtLoop(s, Handled(s))
<1> DEFINE n == Next1(s)
           h == Head(s.ready)
           u == Handled(s)
<1>1. /\ n \in ProcessStates /\ h \in Handlers /\ AtLoop(s, n)
      /\ n.socket = s.socket
  BY NextFields, LoopParts
<1>2. isOpen(n) /\ n.socket = "connected"
  BY <1>1 DEF Up, Place, isOpen
<1>3. CASE h.op = "connect"
  <2> DEFINE v == read_username(n)
  <2>1. h.ok
    BY <1>3, OnlineTaken DEF AttemptOps, Done, Failed
  <2>2. u = async_receive(v)
    BY <1>2, <1>3, <2>1 DEF Handled, Handle, onConnect, transport_open
  <2>3. v \in ProcessStates /\ AtLoop(n, v)
    BY <1>1, PromptAside, LoopParts DEF read_username, Prompts
  <2> HIDE DEF v, n, u
  <2>4. AtLoop(v, u)
    BY <2>2, <2>3, LoopParts
  <2> QED  BY <1>1, <2>3, <2>4 DEF AtLoop, u
<1>4. CASE h.op = "receive"
  <2> DEFINE v == [n EXCEPT !.incomming_bytes_ = @ \o h.got]
  <2>1. u = async_receive(v)
    BY <1>4 DEF Handled, Handle, on_receive
  <2>2. v \in ProcessStates /\ AtLoop(n, v)
    <3>1. n.incomming_bytes_ \o h.got \in Seq(Pieces)
      BY <1>1, ConcatProperties DEF ProcessStates, Handlers
    <3> HIDE DEF n
    <3> QED  BY <1>1, <3>1 DEF AtLoop, ProcessStates
  <2> HIDE DEF v, n, u
  <2>3. AtLoop(v, u)
    BY <2>1, <2>2, LoopParts
  <2> QED  BY <1>1, <2>2, <2>3 DEF AtLoop, u
<1>5. CASE h.op = "write"
  <2> DEFINE v == [n EXCEPT !.outbound_messages_ = PopFront(@)]
  <2>1. s.outbound_messages_.msgs # <<>>
    BY <1>5, OnlineTaken
  <2>2. n.outbound_messages_ = s.outbound_messages_
    BY NextFields
  <2>3. u \in {v, async_write_one(v)}
    BY <1>5, <2>1, <2>2 DEF Handled, Handle, onWrite
  <2>4. v \in ProcessStates /\ AtLoop(n, v)
    <3>1. n.outbound_messages_ \in Queues(Requests)
      BY <1>1 DEF ProcessStates
    <3>2. PopFront(n.outbound_messages_) \in Queues(Requests)
      BY <2>1, <2>2, <3>1, PopFrontProperties
    <3> HIDE DEF n
    <3> QED  BY <1>1, <3>2 DEF AtLoop, ProcessStates
  <2> HIDE DEF v, n, u
  <2>5. AtLoop(v, u)
    BY <2>3, <2>4, LoopParts DEF AtLoop
  <2> QED  BY <1>1, <2>4, <2>5 DEF AtLoop, u
<1>6. CASE h.op \in Prompts
  <2> DEFINE v == TakeLine(n)
  <2>1. v \in ProcessStates /\ AtLoop(n, v) /\ LineIn(n) \in Lines
    BY <1>1, TakeLineAside, TakeLineEffect, LoopParts
  <2>2. LineIn(n) # NoText => setUserNameCall(LineIn(n)) \in Requests
    BY <2>1 DEF Lines, setUserNameCall, Requests
  <2>3. \/ u \in {n, v, Prompt(v, "read_username"), Prompt(v, "read_message")}
        \/ \E m \in Requests : u = write(v, m)
    BY <1>6, <2>2 DEF Handled, Handle, onUserName, onMessageLine, Prompts,
                      read_username, read_message
  <2> HIDE DEF v, n, u
  <2>4. AtLoop(n, u)
    BY <2>1, <2>3, LoopParts, WriteCallLoop DEF AtLoop
  <2> QED  BY <1>1, <2>4 DEF AtLoop, u
<1>7. h.op \in {"connect", "receive", "write"} \cup Prompts
  <2>1. h.op \in AttemptOps => h.op \in {"connect", "receive"}
    BY OnlineTaken, HandlerTypes
  <2> QED  BY <1>1, <2>1 DEF Handlers, Ops, AttemptOps
<1> QED  BY <1>3, <1>4, <1>5, <1>6, <1>7

(* A handler of the connection moves no piece and no dialogue, except that *)
(* the handler of the connect begins one.                                  *)
LEMMA SoundHead ==
  ASSUME NEW s \in ProcessStates, s.ready # <<>>, Sound(s)
  PROVE  /\ Head(s.ready).op \in {"receive", "write"} => Head(s.ready).ok
         /\ Onward(s, Handled(s))
<1> DEFINE h == Head(s.ready)
           W == {"write"}
<1>1. Up(s) /\ h \in Handlers /\ s.ready \in Seq(Handlers)
  BY NextFields, ReadyType DEF Sound
<1>2. h.op = "receive" => h.ok
  BY NextAsks DEF Sound
<1>3. ASSUME h.op = "write" PROVE h.ok
  <2>1. ~Without(s.ready, W)
    BY <1>1, <1>3, Taken
  <2>2. ~s.writing /\ s.outbound_messages_.msgs # <<>>
    BY <1>1, <1>3, OnlineTaken
  <2>3. Lone(s.ready, W, Done("write"))
    BY <1>1, <2>1, <2>2 DEF Up, Calling, Sound
  <2>4. Done("write").op \in W
    BY HandlerTypes
  <2>5. h = Done("write")
    BY <1>1, <1>3, <2>3, <2>4, Taken
  <2> QED  BY <2>5 DEF Done, Failed
<1>4. h.op \in {"connect", "receive", "write"} \cup Prompts
  <2>1. h.op \in AttemptOps => h.op \in {"connect", "receive"}
    BY <1>1, OnlineTaken, HandlerTypes
  <2> QED  BY <1>1, <2>1 DEF Handlers, Ops, AttemptOps
<1>5. Onward(s, Handled(s))
  BY <1>1, <1>2, <1>3, <1>4, OnlineConnect, OnlineReceive, OnlineWrite,
     OnlinePrompt
<1> QED  BY <1>2, <1>3, <1>5

LEMMA ComingKept ==
  ASSUME NEW s \in ProcessStates, s.ready # <<>>, Sound(s), NEW w \in Seq(Pieces)
  PROVE  Coming(Handled(s), w) = Coming(s, w)
<1> DEFINE u == Handled(s)
           h == Head(s.ready)
<1>1. /\ Onward(s, u) /\ u.half = s.half
  BY SoundHead, HandledLoop DEF AtLoop, Sound
<1>2. CASE h.op # "receive"
  <2>1. u.incomming_bytes_ = s.incomming_bytes_ /\ GotOf(u.ready) = GotOf(s.ready)
    BY <1>1, <1>2 DEF Onward
  <2> QED  BY <1>1, <2>1 DEF Coming, Arrived
<1>3. CASE h.op = "receive"
  <2>1. /\ u.incomming_bytes_ = s.incomming_bytes_ \o h.got
        /\ h.got \in GotOf(s.ready) /\ GotOf(u.ready) = {}
    BY <1>1, <1>3 DEF Onward
  <2>2. h \in Handlers /\ s.ready \in Seq(Handlers)
        /\ s.incomming_bytes_ \in Seq(Pieces)
    BY NextFields, ReadyType DEF ProcessStates
  <2>3. h.got \in Seq(Pieces)
    BY <2>2 DEF Handlers
  <2>4. Arrived(s.ready) = h.got
    <3>1. h.op \in AttemptOps
      BY <1>3 DEF AttemptOps
    <3>2. PICK g \in Handlers : g.op \in {"connect", "receive"} /\ Lone(s.ready, AttemptOps, g)
      <4>1. ~Without(s.ready, AttemptOps)
        BY <2>2, <3>1, Taken
      <4>2. Done("connect") \in Handlers /\ Done("connect").op = "connect"
        BY HandlerTypes DEF Ops
      <4> QED  BY <4>1, <4>2 DEF Sound, Up, Hearing
    <3>3. h = g
      BY <2>2, <3>1, <3>2, Taken DEF AttemptOps
    <3>4. GotOf(s.ready) = {h.got}
      BY <1>3, <2>2, <3>2, <3>3, ArrivedFits
    <3> QED  BY <2>2, <3>4, ArrivedFits
  <2>5. Arrived(u.ready) = <<>>
    BY <2>1 DEF Arrived
  <2>6. Stream(s.half, s.incomming_bytes_ \o h.got, <<>>, w)
          = Stream(s.half, s.incomming_bytes_, h.got, w)
    BY <2>2, <2>3, StreamKept
  <2> QED  BY <1>1, <2>1, <2>4, <2>5, <2>6 DEF Coming
<1> QED  BY <1>2, <1>3

LEMMA SoundRuns ==
  ASSUME NEW s \in ProcessStates, s.ready # <<>>, Sound(s)
  PROVE  /\ Sound(Handled(s)) /\ Handled(s).failure = s.failure
         /\ Begun(Handled(s)) = 1
         /\ Head(s.ready).op # "connect" => Begun(s) = 1
         /\ Head(s.ready).op = "connect" => Begun(s) = 0 /\ Silent(s)
<1> DEFINE u == Handled(s)
           h == Head(s.ready)
           C == {"connect"}
<1>1. Onward(s, u) /\ AtLoop(s, u)
  BY SoundHead, HandledLoop DEF Sound
<1>2. h.op = "write" => h.ok
  BY SoundHead
<1>3. /\ Up(s) /\ ReceivesOk(s.ready) /\ s.ready \in Seq(Handlers)
      /\ h \in Handlers /\ u \in ProcessStates
  BY NextFields, ReadyType DEF Sound
<1>4. ReceivesOk(u.ready)
  BY <1>2, <1>3, HandledAsks
<1>5. ~Lone(u.ready, {"write"}, Failed("write"))
  BY <1>1 DEF Onward, Sound
<1>6. (u.loop = "read") <=> (u.half # "none")
  BY <1>1 DEF AtLoop, Sound
<1>7. CASE h.op = "connect"
  <2>1. ~Without(s.ready, C)
    BY <1>3, <1>7, Taken
  <2>2. Connecting(s)
    BY <2>1 DEF Sound
  <2>3. Without(s.ready, Prompts)
    BY <2>2 DEF Connecting, Without, Done, Failed, Prompts
  <2>4. Silent(s)
    BY <2>2, <2>3 DEF Connecting, Blank, Silent
  <2>5. s.receiving = 0 /\ u.receiving = s.receiving + 1
    BY <1>2, <1>3, <1>7, <2>2, HandledAsks DEF Connecting, Blank
  <2>6. Without(u.ready, AttemptOps)
    BY <1>1, <2>5 DEF Onward, Hearing
  <2>7. Without(u.ready, C)
    BY <2>6 DEF Without, AttemptOps
  <2> QED  BY <1>1, <1>4, <1>5, <1>6, <1>7, <2>1, <2>4, <2>7
           DEF Sound, Up, Onward, Begun
<1>8. CASE h.op # "connect"
  <2>1. ~Connecting(s)
    BY <1>8, HandlerTypes DEF Connecting
  <2>2. Without(s.ready, C)
    BY <2>1 DEF Sound
  <2>3. Without(u.ready, C)
    BY <1>2, <1>3, <2>2, ConnectsOnce
  <2> QED  BY <1>1, <1>4, <1>5, <1>6, <1>8, <2>2, <2>3
           DEF Sound, Up, Onward, Begun
<1> QED  BY <1>7, <1>8

LEMMA TalkRuns ==
  ASSUME NEW s \in ProcessStates, s.ready # <<>>, NEW w \in Seq(Pieces),
         NEW n \in Nat, NEW u \in Nat, NEW r \in Nat, NEW spoilt,
         Conversing(s, n, w, u, r, spoilt)
  PROVE  /\ Conversing(Handled(s), n, w, u, r, spoilt)
         /\ Handled(s).failure = s.failure
<1> DEFINE t == Handled(s)
           h == Head(s.ready)
<1>1. Sound(s)
  BY DEF Conversing
<1>2. PICK f \in Seq(ServerCalls) :
        Carries(Coming(s, w), f) /\ Balanced(s, n, f, u, r, spoilt)
  BY DEF Conversing
<1>3. /\ Sound(t) /\ t.failure = s.failure /\ Begun(t) = 1
      /\ h.op # "connect" => Begun(s) = 1
      /\ h.op = "connect" => Begun(s) = 0 /\ Silent(s)
  BY <1>1, SoundRuns
<1>4. Coming(t, w) = Coming(s, w)
  BY <1>1, ComingKept
<1>5. /\ t \in ProcessStates /\ Up(s) /\ ReceivesOk(s.ready)
      /\ h.op = "write" => h.ok
  BY <1>1, NextFields, SoundHead DEF Sound
<1>6. Onward(s, t)
  BY <1>1, SoundHead
<1> DEFINE p == Len(Pending(s))
           P == Len(Pending(t))
           a == Asking(s)
           A == Asking(t)
           c == Cardinality(Answers(f))
           b == Begun(s)
<1>7. /\ p \in Nat /\ P \in Nat /\ a \in Nat /\ A \in Nat /\ c \in Nat
  BY <1>5, AccountType
<1>8. P = p + AskedMore(s)
  BY <1>6, PendingType DEF Onward, AskedMore
<1>9. /\ Account(s, n, f, u) = a + p + n + c + u
      /\ Account(t, n, f, u) = A + P + n + c + u
  BY DEF Account
<1>10. /\ Account(s, n, f, u) <= b + r
       /\ r = 0 => spoilt \/ (Account(s, n, f, u) = b /\ Attended(s))
  BY <1>2 DEF Balanced
<1>11. CASE h.op = "connect"
  <2>1. A = a + 1 /\ AskedMore(s) = 0 /\ Asked(t) /\ b = 0
    BY <1>3, <1>5, <1>11, HandledAsks DEF AskedMore
  <2> HIDE DEF p, P, a, A, c, t
  <2>2. Account(t, n, f, u) = Account(s, n, f, u) + 1
    BY <1>7, <1>8, <1>9, <2>1
  <2>3. Account(s, n, f, u) \in Nat
    BY <1>7, <1>9
  <2> DEFINE x == Account(s, n, f, u)
             y == Account(t, n, f, u)
  <2>4. y = x + 1 /\ x \in Nat /\ x <= r /\ (x = b => y = 1)
    BY <1>10, <2>1, <2>2, <2>3
  <2> HIDE DEF x, y
  <2>5. y <= 1 + r
    BY <2>4
  <2>6. Balanced(t, n, f, u, r, spoilt)
    BY <1>3, <1>10, <2>1, <2>4, <2>5 DEF Balanced, Attended, x, y, t
  <2> QED  BY <1>2, <1>3, <1>4, <2>6 DEF Conversing, t
<1>12. CASE h.op # "connect"
  <2>1. /\ A + AskedMore(s) <= a /\ b = 1
        /\ Silent(s) => Silent(t) /\ ~Called(s)
        /\ Asked(s) => Asked(t) /\ ~Called(s)
        /\ Typed(s) => \/ (Asked(t) \/ Typed(t)) /\ ~Called(s)
                       \/ Silent(t) /\ Called(s)
    BY <1>3, <1>5, <1>12, HandledAsks
  <2>2. Attended(s) => Attended(t) /\ A + AskedMore(s) = a
    <3>1. /\ Silent(s) => a = 0
          /\ Asked(s) \/ Typed(s) => a = 1
          /\ Silent(t) => A = 0
          /\ Asked(t) \/ Typed(t) => A = 1
      BY <1>5, TidyAsks
    <3>2. AskedMore(s) = IF Called(s) THEN 1 ELSE 0
      BY DEF AskedMore
    <3>3. Silent(s) => Silent(t) /\ A + AskedMore(s) = a
      BY <2>1, <3>1, <3>2
    <3>4. Asked(s) => Asked(t) /\ A + AskedMore(s) = a
      BY <2>1, <3>1, <3>2
    <3>5. Typed(s) => Attended(t) /\ A + AskedMore(s) = a
      BY <2>1, <3>1, <3>2 DEF Attended
    <3> QED  BY <3>3, <3>4, <3>5 DEF Attended
  <2> DEFINE k == AskedMore(s)
             x == Account(s, n, f, u)
             y == Account(t, n, f, u)
  <2>3. k \in {0, 1} /\ P = p + k /\ A + k <= a
    BY <1>8, <2>1 DEF AskedMore
  <2>4. x = a + p + n + c + u /\ y = A + P + n + c + u
    BY <1>9
  <2>5. Attended(s) => Attended(t) /\ A + k = a
    BY <2>2
  <2>6. /\ x <= 1 + r
        /\ r = 0 => spoilt \/ (x = 1 /\ Attended(s))
    BY <1>10, <2>1
  <2>7. Begun(t) = 1
    BY <1>3
  <2> HIDE DEF k, x, y, p, P, a, A, c, b, t
  <2>8. y <= x /\ (A + k = a => y = x) /\ x \in Nat /\ y \in Nat
    BY <1>7, <2>3, <2>4
  <2>9. y <= 1 + r
    BY <2>6, <2>8
  <2>10. r = 0 => spoilt \/ (y = 1 /\ Attended(t))
    BY <2>5, <2>6, <2>8
  <2>11. Balanced(t, n, f, u, r, spoilt)
    BY <2>7, <2>9, <2>10 DEF Balanced, y
  <2> QED  BY <1>2, <1>3, <1>4, <2>11 DEF Conversing, t
<1> QED  BY <1>11, <1>12

-----------------------------------------------------------------------------
(* update() and read() move pieces, and nothing else but what is dispatched*)
(* at the end of a frame.                                                  *)
Beside(s, t) ==
  /\ AtTerminal(s, t) /\ t.outbound_messages_ = s.outbound_messages_
  /\ t.writing = s.writing /\ t.receiving = s.receiving
  /\ Place(t, s.timer, s.resolving, s.connecting, s.socket)

LEMMA BesideKeeps ==
  ASSUME NEW s, NEW t, Beside(s, t), Sound(s),
         (t.loop = "read") <=> (t.half # "none"),
         Connecting(s) => /\ t.incomming_bytes_ = s.incomming_bytes_
                          /\ t.half = s.half /\ t.loop # "read"
  PROVE  /\ Sound(t) /\ Asking(t) = Asking(s) /\ Pending(t) = Pending(s)
         /\ Begun(t) = Begun(s) /\ (Attended(s) => Attended(t))
         /\ (Silent(s) => Silent(t))
<1>1. /\ t.ready = s.ready /\ t.stdin = s.stdin
      /\ t.input_buffer_ = s.input_buffer_
      /\ t.outbound_messages_ = s.outbound_messages_
      /\ t.writing = s.writing /\ t.receiving = s.receiving
      /\ Place(t, s.timer, s.resolving, s.connecting, s.socket)
  BY DEF Beside, AtTerminal
<1>2. Calling(t) /\ Hearing(t) /\ Place(t, "off", FALSE, FALSE, "connected")
  BY <1>1 DEF Sound, Up, Calling, Hearing, Place
<1>3. Connecting(s) => Connecting(t)
  BY <1>1 DEF Connecting, Blank, NoCall
<1>4. Sound(t)
  BY <1>1, <1>2, <1>3 DEF Sound, Up
<1>5. Pending(t) = Pending(s) /\ Begun(t) = Begun(s)
  BY <1>1 DEF Pending, Begun
<1> QED  BY <1>4, <1>5, SameTerminal DEF Beside, Attended

LEMMA BesideBalanced ==
  ASSUME NEW s, NEW t, NEW n, NEW f, NEW u, NEW r, NEW spoilt,
         Asking(t) = Asking(s), Pending(t) = Pending(s), Begun(t) = Begun(s),
         Attended(s) => Attended(t), Balanced(s, n, f, u, r, spoilt)
  PROVE  Balanced(t, n, f, u, r, spoilt)
BY DEF Balanced, Account

(* Where else the loop is does not matter, unless it is in read().         *)
LEMMA LoopKeeps ==
  ASSUME NEW s \in ProcessStates, s.loop # "read", NEW l \in {"poll", "update"}
  PROVE  LET t == [s EXCEPT !.loop = l]
         IN  /\ t \in ProcessStates /\ t.failure = s.failure
             /\ Attempting(s) => Attempting(t)
             /\ \A n, w, u, r, spoilt : Conversing(s, n, w, u, r, spoilt)
                                          => Conversing(t, n, w, u, r, spoilt)
<1> DEFINE t == [s EXCEPT !.loop = l]
<1>1. /\ t \in ProcessStates /\ t.failure = s.failure
      /\ t.receiving = s.receiving /\ t.writing = s.writing
      /\ t.outbound_messages_ = s.outbound_messages_
      /\ t.incomming_bytes_ = s.incomming_bytes_ /\ t.half = s.half
      /\ t.stdin = s.stdin /\ t.input_buffer_ = s.input_buffer_
      /\ t.ready = s.ready /\ t.loop # "read"
      /\ t.socket = s.socket /\ t.resolving = s.resolving
      /\ t.connecting = s.connecting /\ t.timer = s.timer
  BY DEF ProcessStates
<1> HIDE DEF t
<1>2. Attempting(s) => Attempting(t)
  BY <1>1 DEF Attempting, Blank, NoCall, Place
<1>3. ASSUME NEW n, NEW w, NEW u, NEW r, NEW spoilt,
             Conversing(s, n, w, u, r, spoilt)
      PROVE  Conversing(t, n, w, u, r, spoilt)
  <2>1. PICK f \in Seq(ServerCalls) :
          Carries(Coming(s, w), f) /\ Balanced(s, n, f, u, r, spoilt)
    BY <1>3 DEF Conversing
  <2>2. Coming(t, w) = Coming(s, w)
    BY <1>1 DEF Coming
  <2>3. Beside(s, t)
    BY <1>1 DEF Beside, AtTerminal, Place
  <2>4. Sound(s) /\ ((t.loop = "read") <=> (t.half # "none"))
    BY <1>1, <1>3 DEF Conversing, Sound
  <2>5. /\ Sound(t) /\ Asking(t) = Asking(s) /\ Pending(t) = Pending(s)
        /\ Begun(t) = Begun(s) /\ (Attended(s) => Attended(t))
    BY <1>1, <2>3, <2>4, BesideKeeps
  <2>6. Balanced(t, n, f, u, r, spoilt)
    BY <2>1, <2>5, BesideBalanced
  <2> QED  BY <2>1, <2>2, <2>5, <2>6 DEF Conversing
<1> QED  BY <1>1, <1>2, <1>3 DEF t

(* The loop goes on to update().                                           *)
Ran(s) == IF s.loop = "poll" THEN [s EXCEPT !.loop = "update"] ELSE s

LEMMA RanKeeps ==
  ASSUME NEW s \in ProcessStates
  PROVE  /\ Ran(s) \in ProcessStates /\ Ran(s).failure = s.failure
         /\ Attempting(s) => Attempting(Ran(s))
         /\ \A n, w, u, r, spoilt : Conversing(s, n, w, u, r, spoilt)
                                      => Conversing(Ran(s), n, w, u, r, spoilt)
<1>1. CASE s.loop = "poll"
  BY <1>1, LoopKeeps DEF Ran
<1>2. CASE s.loop # "poll"
  BY <1>2 DEF Ran
<1> QED  BY <1>1, <1>2

LEMMA TalkBegins ==
  ASSUME NEW s \in ProcessStates, s.loop = "update", s.incomming_bytes_ # <<>>,
         NEW w \in Seq(Pieces), NEW n, NEW u, NEW r, NEW spoilt,
         Conversing(s, n, w, u, r, spoilt)
  PROVE  LET t == [s EXCEPT !.loop = "read",
                            !.half = Head(s.incomming_bytes_).frame,
                            !.incomming_bytes_ = Tail(@)]
         IN  Conversing(t, n, w, u, r, spoilt) /\ t.failure = s.failure
<1> DEFINE half == Head(s.incomming_bytes_).frame
           bytes == Tail(s.incomming_bytes_)
           t == [s EXCEPT !.loop = "read", !.half = half,
                          !.incomming_bytes_ = bytes]
<1>1. PICK f \in Seq(ServerCalls) :
        Carries(Coming(s, w), f) /\ Balanced(s, n, f, u, r, spoilt)
  BY DEF Conversing
<1>2. Sound(s) /\ s.half = "none" /\ ~Connecting(s)
  BY DEF Conversing, Sound, Connecting, Blank
<1>3. /\ s.incomming_bytes_ \in Seq(Pieces)
      /\ s.ready \in Seq(Handlers) /\ Arrived(s.ready) \in Seq(Pieces)
  BY ReadyType, ArrivedFits DEF ProcessStates
<1>4. Carries(Stream("none", s.incomming_bytes_, Arrived(s.ready), w), f)
  BY <1>1, <1>2 DEF Coming
<1>5. /\ half \in ServerCalls /\ bytes \in Seq(Pieces)
      /\ Carries(Stream(half, bytes, Arrived(s.ready), w), f)
  BY <1>3, <1>4, FrameBegun
<1> HIDE DEF half, bytes
<1>6. /\ t.loop = "read" /\ t.half = half /\ t.incomming_bytes_ = bytes
      /\ t.receiving = s.receiving /\ t.writing = s.writing
      /\ t.outbound_messages_ = s.outbound_messages_
      /\ t.stdin = s.stdin /\ t.input_buffer_ = s.input_buffer_
      /\ t.ready = s.ready /\ t.failure = s.failure
      /\ Place(t, s.timer, s.resolving, s.connecting, s.socket)
  BY <1>5 DEF ProcessStates, Place
<1> HIDE DEF t
<1>7. Beside(s, t) /\ t.half # "none"
  BY <1>5, <1>6 DEF Beside, AtTerminal, ServerCalls
<1>8. /\ Sound(t) /\ Asking(t) = Asking(s) /\ Pending(t) = Pending(s)
      /\ Begun(t) = Begun(s) /\ (Attended(s) => Attended(t))
  BY <1>2, <1>6, <1>7, BesideKeeps
<1>9. Balanced(t, n, f, u, r, spoilt)
  BY <1>1, <1>8, BesideBalanced
<1>10. Coming(t, w) = Stream(half, bytes, Arrived(s.ready), w)
  BY <1>6 DEF Coming
<1> QED  BY <1>5, <1>6, <1>8, <1>9, <1>10 DEF Conversing, t, half, bytes

(* What is done at the terminal leaves the connection alone.               *)
LEMMA AsideSound ==
  ASSUME NEW s \in ProcessStates, NEW t \in ProcessStates, Aside(s, t),
         AtLoop(s, t), Sound(s), ~Connecting(s)
  PROVE  /\ Sound(t) /\ t.failure = s.failure
         /\ Pending(t) = Pending(s) /\ Begun(t) = 1 /\ Begun(s) = 1
         /\ t.incomming_bytes_ = s.incomming_bytes_
         /\ GotOf(t.ready) = GotOf(s.ready)
<1> DEFINE C == {"connect"}
<1>1. /\ s.ready \in Seq(Handlers) /\ t.ready \in Seq(Handlers)
      /\ Followed(s.ready, t.ready) /\ t.failure = s.failure
      /\ t.incomming_bytes_ = s.incomming_bytes_
  BY ReadyType DEF Aside
<1>2. Up(t)
  BY AsidePlaced DEF Sound
<1>3. /\ Pending(t) = Pending(s) /\ GotOf(t.ready) = GotOf(s.ready)
      /\ Lone(t.ready, {"write"}, Failed("write"))
           <=> Lone(s.ready, {"write"}, Failed("write"))
  BY AsidePending
<1>4. Without(s.ready, C) /\ Without(t.ready, C)
  <2>1. Without(s.ready, C)
    BY DEF Sound
  <2>2. C \cap Prompts = {}
    BY DEF Prompts
  <2> QED  BY <1>1, <2>1, <2>2, FollowedKeeps
<1>5. ReceivesOk(t.ready)
  BY <1>1, FollowedOk DEF Sound
<1>6. Sound(t)
  BY <1>2, <1>3, <1>4, <1>5 DEF Sound, AtLoop
<1> QED  BY <1>1, <1>3, <1>4, <1>6 DEF Begun

(* An answer that is dispatched is a dialogue that goes on.                *)
LEMMA DispatchSound ==
  ASSUME NEW v \in ProcessStates, Sound(v), ~Connecting(v),
         NEW m \in ServerCalls
  PROVE  LET t == Dispatch(v, m)
         IN  /\ t \in ProcessStates /\ Sound(t) /\ t.failure = v.failure
             /\ AtLoop(v, t)
             /\ Pending(t) = Pending(v) /\ Begun(t) = 1 /\ Begun(v) = 1
             /\ t.incomming_bytes_ = v.incomming_bytes_
             /\ GotOf(t.ready) = GotOf(v.ready)
             /\ Asking(t) = Asking(v) + IsAnswer(m)
<1> DEFINE t == Dispatch(v, m)
<1>1. t \in ProcessStates /\ Aside(v, t)
  BY DispatchAside
<1>2. IF m = "on_subscribeShip" THEN t = v
      ELSE \E p \in Prompts : t = Prompt(v, p)
  BY DEF Dispatch, ServerCalls, read_username, read_message, Prompts
<1>3. AtLoop(v, t)
  BY <1>2, LoopParts DEF AtLoop
<1>4. Asking(t) = Asking(v) + IsAnswer(m)
  <2>1. Asking(v) \in Nat
    BY AskingType
  <2> QED  BY <1>2, <2>1, PromptAsks DEF IsAnswer
<1> HIDE DEF t
<1> QED  BY <1>1, <1>3, <1>4, AsideSound DEF t

LEMMA TalkEnds ==
  ASSUME NEW s \in ProcessStates, s.loop = "read", s.incomming_bytes_ # <<>>,
         NEW w \in Seq(Pieces), NEW n \in Nat, NEW u \in Nat, NEW r \in Nat,
         NEW spoilt, Conversing(s, n, w, u, r, spoilt)
  PROVE  LET v == [s EXCEPT !.incomming_bytes_ = Tail(@),
                            !.loop = "update", !.half = "none"]
             t == Dispatch(v, s.half)
         IN  /\ Head(s.incomming_bytes_) = [frame |-> s.half, part |-> 2]
             /\ Conversing(t, n, w, u, r, spoilt) /\ t.failure = s.failure
<1> DEFINE bytes == Tail(s.incomming_bytes_)
           v == [s EXCEPT !.incomming_bytes_ = bytes,
                          !.loop = "update", !.half = "none"]
           t == Dispatch(v, s.half)
<1>1. PICK f \in Seq(ServerCalls) :
        Carries(Coming(s, w), f) /\ Balanced(s, n, f, u, r, spoilt)
  BY DEF Conversing
<1>2. Sound(s) /\ s.half \in ServerCalls /\ ~Connecting(s)
  BY DEF Conversing, Sound, Connecting, Blank, ProcessStates
<1>3. /\ s.incomming_bytes_ \in Seq(Pieces)
      /\ s.ready \in Seq(Handlers) /\ Arrived(s.ready) \in Seq(Pieces)
  BY ReadyType, ArrivedFits DEF ProcessStates
<1>4. Carries(Stream(s.half, s.incomming_bytes_, Arrived(s.ready), w), f)
  BY <1>1 DEF Coming
<1>5. /\ Head(s.incomming_bytes_) = [frame |-> s.half, part |-> 2]
      /\ bytes \in Seq(Pieces)
      /\ f # <<>> /\ Head(f) = s.half /\ Tail(f) \in Seq(ServerCalls)
      /\ Carries(Stream("none", bytes, Arrived(s.ready), w), Tail(f))
  BY <1>2, <1>3, <1>4, FrameEnded
<1> DEFINE g == Tail(f)
           j == IsAnswer(s.half)
<1>6. Cardinality(Answers(f)) = Cardinality(Answers(g)) + j /\ j \in {0, 1}
  BY <1>5, AnswersTaken DEF IsAnswer
<1> HIDE DEF bytes
<1>7. /\ v \in ProcessStates
      /\ v.loop = "update" /\ v.half = "none" /\ v.incomming_bytes_ = bytes
      /\ v.receiving = s.receiving /\ v.writing = s.writing
      /\ v.outbound_messages_ = s.outbound_messages_
      /\ v.stdin = s.stdin /\ v.input_buffer_ = s.input_buffer_
      /\ v.ready = s.ready /\ v.failure = s.failure
      /\ Place(v, s.timer, s.resolving, s.connecting, s.socket)
  BY <1>5 DEF ProcessStates, Place
<1> HIDE DEF v
<1>8. Beside(s, v)
  BY <1>7 DEF Beside, AtTerminal
<1>9. /\ Sound(v) /\ Asking(v) = Asking(s) /\ Pending(v) = Pending(s)
      /\ Begun(v) = Begun(s) /\ (Attended(s) => Attended(v))
      /\ (Silent(s) => Silent(v))
  BY <1>2, <1>7, <1>8, BesideKeeps
<1>10. ~Connecting(v)
  <2>1. Without(v.ready, {"connect"})
    BY <1>2, <1>7 DEF Sound
  <2>2. v.ready = <<Done("connect")>> => ~Without(v.ready, {"connect"})
    BY HandlerTypes DEF Without
  <2> QED  BY <2>1, <2>2 DEF Connecting
<1>11. /\ t \in ProcessStates /\ Sound(t) /\ t.failure = s.failure
       /\ t.half = "none" /\ Pending(t) = Pending(s)
       /\ Begun(t) = 1 /\ Begun(s) = 1
       /\ t.incomming_bytes_ = bytes /\ GotOf(t.ready) = GotOf(s.ready)
       /\ Asking(t) = Asking(s) + j
  BY <1>2, <1>7, <1>9, <1>10, DispatchSound DEF AtLoop
<1>12. Coming(t, w) = Stream("none", bytes, Arrived(s.ready), w)
  BY <1>11 DEF Coming, Arrived
<1>13. /\ j = 0 => (Attended(s) => Attended(t))
       /\ j = 1 /\ Silent(s) => Attended(t)
  <2>1. CASE s.half = "on_subscribeShip"
    BY <1>9, <2>1 DEF Dispatch, IsAnswer
  <2>2. CASE s.half # "on_subscribeShip"
    <3>1. Silent(v) => Asked(t)
      BY <1>2, <1>7, <2>2, DispatchAsks
    <3> QED  BY <1>9, <2>2, <3>1 DEF IsAnswer, Attended
  <2> QED  BY <2>1, <2>2
<1> DEFINE x == Account(s, n, f, u)
           y == Account(t, n, g, u)
           a == Asking(s)
           p == Len(Pending(s))
           c == Cardinality(Answers(g))
<1>14. a \in Nat /\ p \in Nat /\ c \in Nat
  BY <1>5, AccountType
<1>15. x = a + p + n + (c + j) + u /\ y = (a + j) + p + n + c + u
  BY <1>6, <1>11 DEF Account
<1>16. Attended(s) /\ j = 1 /\ x = 1 => Silent(s)
  <2>1. Asked(s) \/ Typed(s) => a = 1
    BY TidyAsks
  <2> HIDE DEF x, y, a, p, c, j
  <2>2. j = 1 /\ x = 1 => a # 1
    BY <1>14, <1>15
  <2> QED  BY <2>1, <2>2 DEF Attended
<1>17. x <= 1 + r /\ (r = 0 => spoilt \/ (x = 1 /\ Attended(s)))
  BY <1>1, <1>11 DEF Balanced
<1>18. y = x
  <2> HIDE DEF x, y, a, p, c, j
  <2> QED  BY <1>6, <1>14, <1>15
<1> HIDE DEF x, t, g
<1>19. Balanced(t, n, g, u, r, spoilt)
  BY <1>6, <1>11, <1>13, <1>16, <1>17, <1>18 DEF Balanced
<1>20. Conversing(t, n, w, u, r, spoilt)
  BY <1>5, <1>11, <1>12, <1>19 DEF Conversing, g
<1> QED  BY <1>5, <1>11, <1>20 DEF t, v, bytes

-----------------------------------------------------------------------------
(* The operations that complete.  A connection begins with nothing on its  *)
(* way.                                                                    *)
LEMMA TalkConnects ==
  ASSUME NEW s \in ProcessStates, Attempting(s), s.connecting, NEW r \in Nat,
         NEW spoilt
  PROVE  LET t == [Post(s, Done("connect")) EXCEPT !.connecting = FALSE,
                                                   !.socket = "connected"]
         IN  Conversing(t, 0, <<>>, 0, r, spoilt) /\ t.failure = s.failure
<1> DEFINE h == Done("connect")
           q == <<h>>
           p == Post(s, h)
           t == [p EXCEPT !.connecting = FALSE, !.socket = "connected"]
<1>1. s.ready = <<>> /\ Place(s, "off", FALSE, TRUE, "open") /\ Blank(s)
  BY DEF Attempting, Place
<1>2. t = [s EXCEPT !.ready = q, !.connecting = FALSE, !.socket = "connected"]
  BY <1>1 DEF Post
<1>3. h \in Handlers /\ h.op = "connect"
  BY HandlerTypes DEF Ops
<1>4. /\ q \in Seq(Handlers) /\ Len(q) = 1 /\ q[1] = h
  BY <1>3
<1>5. t \in ProcessStates
  <2>1. p \in ProcessStates
    BY <1>3, PostFields
  <2> HIDE DEF p
  <2> QED  BY <2>1 DEF ProcessStates
<1> HIDE DEF t, q, h
<1>6. /\ t.ready = q
      /\ t.writing = s.writing /\ t.receiving = s.receiving
      /\ t.outbound_messages_ = s.outbound_messages_
      /\ t.incomming_bytes_ = s.incomming_bytes_ /\ t.half = s.half
      /\ t.stdin = s.stdin /\ t.input_buffer_ = s.input_buffer_
      /\ t.loop = s.loop /\ t.failure = s.failure
      /\ Place(t, "off", FALSE, FALSE, "connected")
  BY <1>1, <1>2 DEF ProcessStates, Place
<1>7. /\ Without(q, {"write"}) /\ Without(q, Prompts) /\ GotOf(q) = {}
      /\ ~Without(q, {"connect"}) /\ Lone(q, AttemptOps, h) /\ ReceivesOk(q)
      /\ ~\E g : Lone(q, {"write"}, g) /\ g.op = "write"
  BY <1>3, <1>4 DEF Without, Lone, GotOf, ReceivesOk, Prompts
<1>8. Connecting(t)
  BY <1>1, <1>6 DEF Connecting, Blank, NoCall, q, h
<1>9. /\ t.outbound_messages_.msgs = <<>> /\ ~t.writing /\ t.receiving = 0
      /\ Silent(t)
  BY <1>7, <1>8, <1>6 DEF Connecting, Blank, NoCall, EmptyQueue, Silent
<1>10. ~Lone(t.ready, {"write"}, Done("write"))
       /\ ~Lone(t.ready, {"write"}, Failed("write"))
  BY <1>6, <1>7, HandlerTypes
<1>11. Sound(t)
  BY <1>6, <1>7, <1>8, <1>9, <1>10
     DEF Sound, Up, Calling, Hearing, h, Connecting, Blank
<1>12. Coming(t, <<>>) = <<>>
  BY <1>1, <1>6, <1>7 DEF Coming, Stream, Opened, Arrived, Blank
<1>13. /\ <<>> \in Seq(ServerCalls) /\ Carries(<<>>, <<>>)
       /\ Cardinality(Answers(<<>>)) = 0
  <2>1. <<>> \in Seq(ServerCalls) /\ Carries(<<>>, <<>>) /\ Answers(<<>>) = {}
    BY EmptySeq DEF Carries, Answers
  <2> QED  BY <2>1, FS_EmptySet
<1>14. Asking(t) = 0 /\ Len(Pending(t)) = 0
  BY <1>5, <1>9, <1>10, TidyAsks DEF Pending
<1>15. Account(t, 0, <<>>, 0) = 0 /\ Begun(t) = 0
  BY <1>6, <1>7, <1>13, <1>14 DEF Account, Begun
<1>16. Balanced(t, 0, <<>>, 0, r, spoilt)
  BY <1>9, <1>15 DEF Balanced, Attended
<1> QED  BY <1>6, <1>11, <1>12, <1>13, <1>16 DEF Conversing, t, p, h

LEMMA ReceivesAppended ==
  ASSUME NEW q \in Seq(Handlers), NEW h \in Handlers, ReceivesOk(q),
         h.op = "receive" => h.ok
  PROVE  ReceivesOk(Append(q, h))
<1> DEFINE n == Len(q)
           r == Append(q, h)
<1>1. /\ n \in Nat /\ Len(r) = n + 1 /\ r[n + 1] = h
      /\ \A i \in 1 .. n : r[i] = q[i]
  BY AppendProperties, LenProperties
<1>2. \A i \in 1 .. Len(r) : i = n + 1 \/ i \in 1 .. n
  BY <1>1
<1> HIDE DEF r
<1> QED  BY <1>1, <1>2 DEF ReceivesOk, r

(* What becomes of the account while the dialogue is where it was.         *)
LEMMA BalanceMoves ==
  ASSUME NEW s, NEW t, NEW f, NEW g, NEW n, NEW m, NEW u, NEW v, NEW r, NEW spoilt,
         Account(t, m, g, v) = Account(s, n, f, u), Begun(t) = Begun(s),
         Attended(s) => Attended(t) \/ spoilt, Balanced(s, n, f, u, r, spoilt)
  PROVE  Balanced(t, m, g, v, r, spoilt)
BY DEF Balanced

(* The client receives some of what the server has sent ...                *)
Fetching(s, w, k) ==
  [Post(s, Received(SubSeq(w, 1, k))) EXCEPT !.receiving = @ - 1]

LEMMA TalkReceives ==
  ASSUME NEW s \in ProcessStates, s.receiving > 0, NEW w \in Seq(Pieces),
         NEW n \in Nat, NEW u \in Nat, NEW r \in Nat, NEW spoilt,
         Conversing(s, n, w, u, r, spoilt), NEW k \in 1 .. Len(w)
  PROVE  /\ Conversing(Fetching(s, w, k), n, SubSeq(w, k + 1, Len(w)), u, r, spoilt)
         /\ Fetching(s, w, k).failure = s.failure
<1> DEFINE got == SubSeq(w, 1, k)
           rest == SubSeq(w, k + 1, Len(w))
           h == Received(got)
           p == Post(s, h)
           t == [p EXCEPT !.receiving = @ - 1]
<1>1. PICK f \in Seq(ServerCalls) :
        Carries(Coming(s, w), f) /\ Balanced(s, n, f, u, r, spoilt)
  BY DEF Conversing
<1>2. Sound(s) /\ ~Connecting(s)
  BY DEF Conversing, Connecting, Blank
<1>3. /\ got \in Seq(Pieces) /\ rest \in Seq(Pieces)
      /\ Stream(s.half, s.incomming_bytes_, got, rest)
           = Stream(s.half, s.incomming_bytes_, <<>>, w)
  BY StreamFetched
<1>4. h \in Handlers /\ h.op = "receive" /\ h.ok /\ h.got = got
  BY <1>3, HandlerTypes DEF Received, Done, Failed
<1> HIDE DEF got, rest, h
<1>5. /\ t \in ProcessStates /\ Up(t) /\ t.failure = s.failure
      /\ t.incomming_bytes_ = s.incomming_bytes_ /\ Pending(t) = Pending(s)
      /\ GotOf(s.ready) = {} /\ GotOf(t.ready) = {got}
      /\ Lone(t.ready, {"write"}, Failed("write"))
           => Lone(s.ready, {"write"}, Failed("write"))
  BY <1>2, <1>4, UpReceives DEF Sound
<1>6. /\ p \in ProcessStates /\ p.ready = Append(s.ready, h)
      /\ p.stdin = s.stdin /\ p.input_buffer_ = s.input_buffer_
      /\ AtLoop(s, p)
  BY <1>4, PostFields, PostKeepsTerminal, LoopParts
<1> HIDE DEF p
<1>7. /\ t.ready = Append(s.ready, h)
      /\ t.stdin = s.stdin /\ t.input_buffer_ = s.input_buffer_
      /\ AtLoop(s, t)
  BY <1>6 DEF ProcessStates, AtLoop
<1> HIDE DEF t
<1>8. Asking(t) = Asking(s) /\ (Attended(s) => Attended(t))
  <2>1. h.op \notin Prompts
    BY <1>4 DEF Prompts
  <2> QED  BY <1>4, <1>5, <1>7, <2>1, PostedAsks DEF Attended
<1>9. s.ready \in Seq(Handlers) /\ t.ready \in Seq(Handlers)
  BY <1>5, ReadyType
<1>10. Without(s.ready, {"connect"}) /\ Without(t.ready, {"connect"})
  <2>1. Without(s.ready, {"connect"})
    BY <1>2 DEF Sound
  <2> QED  BY <1>4, <1>7, <1>9, <2>1, Appended
<1>11. ReceivesOk(t.ready)
  BY <1>2, <1>4, <1>7, <1>9, ReceivesAppended DEF Sound
<1>12. Sound(t)
  BY <1>2, <1>5, <1>7, <1>10, <1>11 DEF Sound, AtLoop
<1>13. Coming(t, rest) = Coming(s, w)
  <2>1. Arrived(t.ready) = got /\ Arrived(s.ready) = <<>>
    BY <1>5, <1>9, ArrivedFits DEF Arrived
  <2> QED  BY <1>3, <1>5, <1>7, <2>1 DEF Coming, AtLoop
<1>14. Balanced(t, n, f, u, r, spoilt)
  BY <1>1, <1>5, <1>8, <1>10, BesideBalanced DEF Begun
<1>15. Conversing(t, n, rest, u, r, spoilt) /\ t.failure = s.failure
  BY <1>1, <1>5, <1>12, <1>13, <1>14 DEF Conversing
<1>16. t = Fetching(s, w, k)
  BY DEF Fetching, t, p, h, got
<1> QED  BY <1>15, <1>16 DEF rest

(* ... and what it has written is on its way to the server.                *)
LEMMA TalkWrites ==
  ASSUME NEW s \in ProcessStates, s.writing, NEW w \in Seq(Pieces),
         NEW n \in Nat, NEW u \in Nat, NEW r \in Nat, NEW spoilt,
         Conversing(s, n, w, u, r, spoilt)
  PROVE  LET t == [Post(s, Done("write")) EXCEPT !.writing = FALSE]
             m == n + s.outbound_messages_.front
         IN  /\ m \in Nat /\ Conversing(t, m, w, u, r, spoilt)
             /\ t.failure = s.failure
<1> DEFINE h == Done("write")
           p == Post(s, h)
           t == [p EXCEPT !.writing = FALSE]
           q == s.outbound_messages_
           m == n + q.front
<1>1. PICK f \in Seq(ServerCalls) :
        Carries(Coming(s, w), f) /\ Balanced(s, n, f, u, r, spoilt)
  BY DEF Conversing
<1>2. Sound(s) /\ ~Connecting(s)
  BY DEF Conversing, Connecting, Blank, NoCall
<1>3. h \in Handlers /\ h.op = "write"
  BY HandlerTypes DEF Ops
<1>4. /\ t \in ProcessStates /\ Up(t) /\ t.failure = s.failure
      /\ t.incomming_bytes_ = s.incomming_bytes_
      /\ GotOf(t.ready) = GotOf(s.ready)
      /\ Pending(s) = q.msgs /\ Pending(t) = Rest(q)
      /\ ~Lone(t.ready, {"write"}, Failed("write"))
  BY <1>2, UpWrites DEF Sound
<1> HIDE DEF h
<1>5. /\ p \in ProcessStates /\ p.ready = Append(s.ready, h)
      /\ p.stdin = s.stdin /\ p.input_buffer_ = s.input_buffer_
      /\ AtLoop(s, p)
  BY <1>3, PostFields, PostKeepsTerminal, LoopParts
<1> HIDE DEF p
<1>6. /\ t.ready = Append(s.ready, h)
      /\ t.stdin = s.stdin /\ t.input_buffer_ = s.input_buffer_
      /\ AtLoop(s, t)
  BY <1>5 DEF ProcessStates, AtLoop
<1> HIDE DEF t
<1>7. Asking(t) = Asking(s) /\ (Attended(s) => Attended(t))
  <2>1. h.op \notin Prompts
    BY <1>3 DEF Prompts
  <2> QED  BY <1>3, <1>4, <1>6, <2>1, PostedAsks DEF Attended
<1>8. s.ready \in Seq(Handlers) /\ t.ready \in Seq(Handlers)
  BY <1>4, ReadyType
<1>9. Without(s.ready, {"connect"}) /\ Without(t.ready, {"connect"})
  <2>1. Without(s.ready, {"connect"})
    BY <1>2 DEF Sound
  <2> QED  BY <1>3, <1>6, <1>8, <2>1, Appended
<1>10. ReceivesOk(t.ready)
  BY <1>2, <1>3, <1>6, <1>8, ReceivesAppended DEF Sound
<1>11. Sound(t)
  BY <1>2, <1>4, <1>6, <1>9, <1>10 DEF Sound, AtLoop
<1>12. Coming(t, w) = Coming(s, w)
  BY <1>4, <1>6 DEF Coming, Arrived, AtLoop
<1>13. /\ q.front \in Nat /\ Len(q.msgs) \in Nat
       /\ Len(Rest(q)) = Len(q.msgs) - q.front
  <2>1. q \in Queues(Requests)
    BY DEF ProcessStates
  <2> QED  BY <2>1, RestElements, LenProperties DEF Queues
<1>14. Account(t, m, f, u) = Account(s, n, f, u)
  <2> DEFINE a == Asking(s)
             l == Len(q.msgs)
             k == q.front
             c == Cardinality(Answers(f))
  <2>1. /\ Account(s, n, f, u) = a + l + n + c + u
        /\ Account(t, m, f, u) = a + (l - k) + (n + k) + c + u
    BY <1>4, <1>7, <1>13 DEF Account
  <2>2. a \in Nat /\ c \in Nat /\ l \in Nat /\ k \in Nat
    BY <1>13, AccountType
  <2> HIDE DEF a, l, k, c
  <2> QED  BY <2>1, <2>2
<1>15. m \in Nat
  BY <1>13
<1> HIDE DEF m
<1>16. Balanced(t, m, f, u, r, spoilt)
  BY <1>1, <1>7, <1>9, <1>14, BalanceMoves DEF Begun
<1> QED  BY <1>1, <1>4, <1>11, <1>12, <1>15, <1>16 DEF Conversing, t, p, h, m

-----------------------------------------------------------------------------
(* The terminal, the server and the user.  A line is read: one that is not *)
(* empty, if it is the answer to the only dialogue.                        *)
Entered(s, line) ==
  [Post(s, LineRead(Head(s.stdin).prompt, line))
     EXCEPT !.stdin = Tail(@), !.input_buffer_ = Append(@, line)]

LEMMA TalkReads ==
  ASSUME NEW s \in ProcessStates, s.stdin # <<>>, NEW w \in Seq(Pieces),
         NEW n \in Nat, NEW u \in Nat, NEW r \in Nat, NEW spoilt,
         Conversing(s, n, w, u, r, spoilt),
         NEW line \in Lines,
         r = 0 /\ ~spoilt /\ Head(s.stdin).alone => line # NoText
  PROVE  /\ Conversing(Entered(s, line), n, w, u, r, spoilt)
         /\ Entered(s, line).failure = s.failure
<1> DEFINE h == LineRead(Head(s.stdin).prompt, line)
           p == Post(s, h)
           t == Entered(s, line)
<1>1. PICK f \in Seq(ServerCalls) :
        Carries(Coming(s, w), f) /\ Balanced(s, n, f, u, r, spoilt)
  BY DEF Conversing
<1>2. Sound(s) /\ ~Connecting(s)
  BY DEF Conversing, Connecting, Blank
<1>3. t \in ProcessStates /\ Aside(s, t)
  BY LineAside DEF Entered
<1>4. /\ Asking(t) = Asking(s)
      /\ ~Silent(s) /\ ~Typed(s)
      /\ Asked(s) => IF line = NoText THEN Blanked(t) ELSE Typed(t)
  BY LineAsks DEF Entered
<1>5. AtLoop(s, t)
  <2>1. AtLoop(s, p)
    BY LoopParts
  <2>2. p \in ProcessStates
    BY LineAsks, PostFields
  <2>3. t = [p EXCEPT !.stdin = Tail(@), !.input_buffer_ = Append(@, line)]
    BY DEF Entered
  <2> HIDE DEF p, t
  <2> QED  BY <2>1, <2>2, <2>3 DEF AtLoop, ProcessStates
<1> HIDE DEF t, p, h
<1>6. /\ Sound(t) /\ t.failure = s.failure
      /\ Pending(t) = Pending(s) /\ Begun(t) = 1 /\ Begun(s) = 1
      /\ t.incomming_bytes_ = s.incomming_bytes_
      /\ GotOf(t.ready) = GotOf(s.ready)
  BY <1>2, <1>3, <1>5, AsideSound
<1>7. Coming(t, w) = Coming(s, w)
  BY <1>5, <1>6 DEF Coming, Arrived, AtLoop
<1>8. Account(t, n, f, u) = Account(s, n, f, u)
  BY <1>4, <1>6 DEF Account
<1>9. r = 0 /\ Attended(s) => Typed(t) \/ spoilt
  <2>1. Asked(s) => Head(s.stdin).alone
    BY DEF Asked
  <2> QED  BY <1>4, <2>1 DEF Attended
<1>10. Balanced(t, n, f, u, r, spoilt)
  BY <1>1, <1>6, <1>8, <1>9 DEF Balanced, Attended
<1> QED  BY <1>1, <1>6, <1>7, <1>10 DEF Conversing, t

(* The server drops a call, ...                                            *)
LEMMA TalkDropped ==
  ASSUME NEW s \in ProcessStates, NEW w \in Seq(Pieces), NEW n \in Nat,
         NEW u \in Nat, NEW r \in Nat, NEW spoilt,
         Conversing(s, n, w, u, r, spoilt), n > 0
  PROVE  Conversing(s, n - 1, w, u + 1, r, spoilt)
<1>1. PICK f \in Seq(ServerCalls) :
        Carries(Coming(s, w), f) /\ Balanced(s, n, f, u, r, spoilt)
  BY DEF Conversing
<1> DEFINE a == Asking(s)
           p == Len(Pending(s))
           c == Cardinality(Answers(f))
<1>2. a \in Nat /\ p \in Nat /\ c \in Nat
  BY AccountType
<1>3. /\ Account(s, n, f, u) = a + p + n + c + u
      /\ Account(s, n - 1, f, u + 1) = a + p + (n - 1) + c + (u + 1)
  BY DEF Account
<1> HIDE DEF a, p, c
<1>4. Account(s, n - 1, f, u + 1) = Account(s, n, f, u)
  BY <1>2, <1>3
<1>5. Balanced(s, n - 1, f, u + 1, r, spoilt)
  BY <1>1, <1>4 DEF Balanced
<1> QED  BY <1>1, <1>5 DEF Conversing

(* ... or sends a frame: a ship, the answer to a call, or a refusal that   *)
(* nobody asked for.                                                       *)
LEMMA ComingSent ==
  ASSUME NEW s \in ProcessStates, NEW w \in Seq(Pieces), NEW m \in ServerCalls,
         NEW f \in Seq(ServerCalls), Carries(Coming(s, w), f)
  PROVE  Carries(Coming(s, w \o Frame(m)), Append(f, m))
<1> DEFINE g == Append(f, m)
<1>2. /\ s.half \in ServerCalls \cup {"none"}
      /\ s.incomming_bytes_ \in Seq(Pieces) /\ Arrived(s.ready) \in Seq(Pieces)
  BY ReadyType, ArrivedFits DEF ProcessStates
<1>3. Coming(s, w \o Frame(m)) = Coming(s, w) \o Frame(m)
  <2> DEFINE half == s.half
             bytes == s.incomming_bytes_
             got == Arrived(s.ready)
  <2>1. /\ half \in ServerCalls \cup {"none"} /\ bytes \in Seq(Pieces)
        /\ got \in Seq(Pieces)
    BY <1>2
  <2> HIDE DEF half, bytes, got
  <2>2. Stream(half, bytes, got, Sending(w, m))
          = Sending(Stream(half, bytes, got, w), m)
    BY <2>1, StreamSent
  <2>3. Coming(s, Sending(w, m)) = Sending(Coming(s, w), m)
    BY <2>2 DEF Coming, half, bytes, got
  <2> QED  BY <2>3 DEF Sending
<1>4. Coming(s, w) \in Seq(Pieces)
  <2>1. Opened(s.half) \in Seq(Pieces)
    BY <1>2, OpenedType
  <2> QED  BY <1>2, <2>1, ConcatProperties DEF Coming, Stream
<1> DEFINE q == Coming(s, w)
<1>5. q \in Seq(Pieces) /\ Carries(q, f)
  BY <1>4
<1> HIDE DEF q
<1>6. Carries(q \o Frame(m), g)
  BY <1>5, CarriesSent
<1> QED  BY <1>3, <1>6 DEF q

LEMMA TalkHears ==
  ASSUME NEW s \in ProcessStates, NEW w \in Seq(Pieces), NEW n \in Nat,
         NEW u \in Nat, NEW r \in Nat, NEW spoilt,
         Conversing(s, n, w, u, r, spoilt), NEW m \in ServerCalls,
         NEW k \in Nat, NEW l \in Nat, l + IsAnswer(m) = n + k
  PROVE  Conversing(s, l, w \o Frame(m), u, r + k, spoilt)
<1>1. PICK f \in Seq(ServerCalls) :
        Carries(Coming(s, w), f) /\ Balanced(s, n, f, u, r, spoilt)
  BY DEF Conversing
<1> DEFINE g == Append(f, m)
           j == IsAnswer(m)
<1>2. /\ g \in Seq(ServerCalls)
      /\ Cardinality(Answers(g)) = Cardinality(Answers(f)) + j
  BY AnswersSent
<1>3. Carries(Coming(s, w \o Frame(m)), g)
  BY <1>1, ComingSent
<1> HIDE DEF g
<1> DEFINE x == Account(s, n, f, u)
           y == Account(s, l, g, u)
           a == Asking(s)
           p == Len(Pending(s))
           c == Cardinality(Answers(f))
<1>4. /\ a \in Nat /\ p \in Nat /\ c \in Nat /\ j \in Nat
  BY AccountType DEF IsAnswer
<1>5. x = a + p + n + c + u /\ y = a + p + l + (c + j) + u
  BY <1>2 DEF Account
<1>6. l + j = n + k
  OBVIOUS
<1>7. /\ x <= Begun(s) + r
      /\ r = 0 => spoilt \/ (x = Begun(s) /\ Attended(s))
  BY <1>1 DEF Balanced
<1>8. Begun(s) \in {0, 1}
  BY DEF Begun
<1> DEFINE b == Begun(s)
<1> HIDE DEF x, y, a, p, c, j, b
<1>9. y = x + k /\ x \in Nat
  BY <1>4, <1>5, <1>6
<1>10. y <= b + (r + k) /\ (r + k = 0 => y = x /\ r = 0)
  <2>1. b \in {0, 1} /\ x <= b + r
    BY <1>7, <1>8 DEF b
  <2> QED  BY <1>9, <2>1
<1>11. Balanced(s, l, g, u, r + k, spoilt)
  BY <1>7, <1>10 DEF Balanced, y, b
<1> QED  BY <1>2, <1>3, <1>11 DEF Conversing

LEMMA TalkSpoilt ==
  ASSUME NEW s, NEW n, NEW w, NEW u, NEW r, NEW c, NEW d,
         Conversing(s, n, w, u, r, c), c => d
  PROVE  Conversing(s, n, w, u, r, d)
BY DEF Conversing, Balanced

-----------------------------------------------------------------------------
(* The invariant: while nothing is lost, the client attempts to connect or *)
(* converses.  An empty line comes only from a user who has typed one.     *)
Spoilt == \E i \in 1 .. Len(lines) : lines[i] = NoText

OnCourse(s, p, n, w, u, r, spoilt) ==
  /\ s.failure = "none"
  /\ \/ Attempting(s) /\ n = 0 /\ w = <<>> /\ u = 0
     \/ p = "alive" /\ Conversing(s, n, w, u, r, spoilt)

OnTrack(spoilt) ==
  OnCourse(client, peer, asked, wire, unanswered, refusals, spoilt)

Progress == NeverLost => OnTrack(Spoilt)
TypedFit == (\E i \in 1 .. Len(typed) : typed[i] = NoText) => Spoilt
DInv == Progress /\ TypedFit

LEMMA InitDInv == Init => DInv
<1> SUFFICES ASSUME Init PROVE DInv
  OBVIOUS
<1>1. Attempting(Constructed) /\ Constructed.failure = "none"
  BY DEF Constructed, Attempting, Blank, NoCall, Place, EmptyQueue
<1>2. /\ typed = <<>> /\ client = Constructed
      /\ asked = 0 /\ wire = <<>> /\ unanswered = 0
  BY DEF Init
<1> QED  BY <1>1, <1>2 DEF DInv, Progress, TypedFit, OnTrack, OnCourse

LEMMA RanOnCourse ==
  ASSUME NEW s \in ProcessStates, NEW p, NEW n, NEW w, NEW u, NEW r, NEW spoilt,
         OnCourse(s, p, n, w, u, r, spoilt)
  PROVE  OnCourse(Ran(s), p, n, w, u, r, spoilt)
BY RanKeeps DEF OnCourse

(* What is certain of an attempt, and of a conversation.                   *)
LEMMA AttemptFields ==
  ASSUME NEW s, Attempting(s)
  PROVE  /\ s.receiving = 0 /\ ~s.writing /\ s.stdin = <<>>
         /\ s.incomming_bytes_ = <<>> /\ s.loop # "read"
         /\ s.socket # "connected"
         /\ \A i \in 1 .. Len(s.ready) : /\ s.ready[i].op \notin Prompts
                                         /\ s.ready[i].op \notin {"write", "receive"}
BY DEF Attempting, Blank, NoCall, Place, Done, Failed, Prompts

LEMMA TalkFields ==
  ASSUME NEW s, NEW n, NEW w, NEW u, NEW r, NEW spoilt,
         Conversing(s, n, w, u, r, spoilt)
  PROVE  /\ s.timer = "off" /\ ~s.resolving /\ ~s.connecting
         /\ s.socket = "connected" /\ isOpen(s)
BY DEF Conversing, Sound, Up, Place, isOpen

Counted ==
  /\ client \in ProcessStates /\ wire \in Seq(Pieces) /\ asked \in Nat
  /\ unanswered \in Nat /\ refusals \in Nat

LEMMA TypeCounts == EInv => Counted
BY BoundsAssumption DEF EInv, TypeOK, Counted

LEMMA ThreadOnCourse ==
  ASSUME EInv, Thread, OnTrack(Spoilt)
  PROVE  OnCourse(client', peer, asked, wire, unanswered, refusals, Spoilt)
<1> DEFINE On(s) == OnCourse(s, peer, asked, wire, unanswered, refusals, Spoilt)
           Talk(s) == Conversing(s, asked, wire, unanswered, refusals, Spoilt)
<1>0. /\ client \in ProcessStates /\ wire \in Seq(Pieces) /\ asked \in Nat
      /\ unanswered \in Nat /\ refusals \in Nat
      /\ On(client)
  BY TypeCounts DEF Counted, OnTrack
<1>1. ASSUME NEW op \in Ops \cup Prompts, RunHandler(op)
      PROVE  On(client')
  <2> DEFINE t == Handled(client)
  <2>1. client' = Ran(t) /\ client.ready # <<>>
    BY <1>1 DEF RunHandler, Ran, Handled, Next1
  <2>2. t \in ProcessStates
    BY <1>0, <2>1, NextFields
  <2>3. On(t)
    BY <1>0, <2>1, AttemptRuns, TalkRuns DEF OnCourse
  <2> HIDE DEF t
  <2> QED  BY <2>1, <2>2, <2>3, RanOnCourse
<1>2. ASSUME Update
      PROVE  On(client')
  <2> DEFINE t == [client EXCEPT !.loop = "read",
                                 !.half = Head(client.incomming_bytes_).frame,
                                 !.incomming_bytes_ = Tail(@)]
  <2>1. CASE isOpen(client) /\ client.incomming_bytes_ # <<>>
    <3>1. client' = t /\ client.loop = "update"
      BY <1>2, <2>1 DEF Update
    <3>2. peer = "alive" /\ Talk(client)
      BY <1>0, <2>1, AttemptFields DEF OnCourse
    <3>3. Talk(t) /\ t.failure = client.failure
      BY <1>0, <2>1, <3>1, <3>2, TalkBegins
    <3> QED  BY <1>0, <3>1, <3>2, <3>3 DEF OnCourse
  <2>2. CASE ~(isOpen(client) /\ client.incomming_bytes_ # <<>>)
    <3> DEFINE v == [client EXCEPT !.loop = "poll"]
    <3>1. client' = v /\ client.loop = "update"
      BY <1>2, <2>2 DEF Update
    <3>2. On(v)
      BY <1>0, <3>1, LoopKeeps DEF OnCourse
    <3> QED  BY <3>1, <3>2
  <2> QED  BY <2>1, <2>2
<1>3. ASSUME FinishFrame
      PROVE  On(client')
  <2> DEFINE v == [client EXCEPT !.incomming_bytes_ = Tail(@),
                                 !.loop = "update", !.half = "none"]
             t == Dispatch(v, client.half)
  <2>1. client.loop = "read" /\ client.incomming_bytes_ # <<>>
    BY <1>3 DEF FinishFrame
  <2>2. peer = "alive" /\ Talk(client)
    BY <1>0, <2>1, AttemptFields DEF OnCourse
  <2>3. /\ Head(client.incomming_bytes_) = [frame |-> client.half, part |-> 2]
        /\ Talk(t) /\ t.failure = client.failure
    BY <1>0, <2>1, <2>2, TalkEnds
  <2>4. client' = t
    BY <1>3, <2>3 DEF FinishFrame
  <2> QED  BY <1>0, <2>2, <2>3, <2>4 DEF OnCourse
<1> QED  BY <1>1, <1>2, <1>3 DEF Thread

(* A line that is the only one read is the one that was typed.             *)
LEMMA LineOnCourse ==
  ASSUME EInv, TypedFit, LineArrives, OnTrack(Spoilt)
  PROVE  OnCourse(client', peer, asked, wire, unanswered, refusals, Spoilt)
<1>0. /\ client \in ProcessStates /\ wire \in Seq(Pieces) /\ asked \in Nat
      /\ unanswered \in Nat /\ refusals \in Nat
  BY TypeCounts DEF Counted
<1>1. client.stdin # <<>> /\ typed # <<>> /\ typed \in Seq(Lines)
  BY DEF LineArrives, EInv, TypeOK
<1>2. /\ peer = "alive" /\ client.failure = "none"
      /\ Conversing(client, asked, wire, unanswered, refusals, Spoilt)
  BY <1>1, AttemptFields DEF OnTrack, OnCourse
<1>3. PICK line \in IF Head(client.stdin).alone THEN {Head(typed)} ELSE Lines :
        client' = Entered(client, line)
  BY DEF LineArrives, Entered
<1>4. Head(typed) \in Lines /\ Head(typed) = typed[1] /\ 1 \in 1 .. Len(typed)
  BY <1>1, EmptySeq
<1>5. line \in Lines
  BY <1>3, <1>4
<1>6. Head(client.stdin).alone /\ ~Spoilt => line # NoText
  BY <1>3, <1>4 DEF TypedFit
<1>7. /\ Conversing(Entered(client, line), asked, wire, unanswered, refusals,
                    Spoilt)
      /\ Entered(client, line).failure = client.failure
  BY <1>0, <1>1, <1>2, <1>5, <1>6, TalkReads
<1> QED  BY <1>2, <1>3, <1>7 DEF OnCourse

LEMMA ReactorOnCourse ==
  ASSUME EInv, TypedFit, Reactor, OnTrack(Spoilt)
  PROVE  OnCourse(client', peer', asked', wire', unanswered', refusals', Spoilt)
<1> DEFINE Result == OnCourse(client', peer', asked', wire', unanswered',
                              refusals', Spoilt)
           Talk == Conversing(client, asked, wire, unanswered, refusals, Spoilt)
           Still == Attempting(client) /\ asked = 0 /\ wire = <<>>
                      /\ unanswered = 0
<1>0. /\ client \in ProcessStates /\ wire \in Seq(Pieces) /\ asked \in Nat
      /\ unanswered \in Nat /\ refusals \in Nat
      /\ client.failure = "none" /\ (Still \/ (peer = "alive" /\ Talk))
  BY TypeCounts DEF Counted, OnTrack, OnCourse
<1>1. UNCHANGED <<unanswered, refusals>>
  BY DEF Reactor, ResolveCompletes, ConnectSucceeds, ConnectFails,
         ReceiveSucceeds, ReceiveFails, WriteSucceeds, WriteFails, TimeElapses,
         TimerExpires, LineArrives, envVars, session
<1> HIDE DEF Talk, Still
<1>2. ASSUME UNCHANGED <<peer, asked, wire>>, Still,
             Attempting(client'), client'.failure = client.failure
      PROVE  Result
  BY <1>0, <1>1, <1>2 DEF OnCourse, Still
<1>3. ASSUME ResolveCompletes PROVE Result
  <2>1. Still /\ client.resolving /\ UNCHANGED <<peer, asked, wire>>
    BY <1>0, <1>3, TalkFields DEF ResolveCompletes, envVars, session, Talk
  <2>2. PICK h \in {Done("resolve"), Failed("resolve")} :
          client' = [Post(client, h) EXCEPT !.resolving = FALSE]
    BY <1>3 DEF ResolveCompletes
  <2>3. Attempting(client') /\ client'.failure = client.failure
    BY <1>0, <2>1, <2>2, AttemptsComplete DEF Still
  <2> QED  BY <1>2, <2>1, <2>3
<1>4. ASSUME ConnectSucceeds PROVE Result
  <2> DEFINE t == [Post(client, Done("connect")) EXCEPT !.connecting = FALSE,
                                                !.socket = "connected"]
  <2>1. Still /\ client.connecting
    BY <1>0, <1>4, TalkFields DEF ConnectSucceeds, Talk
  <2>2. client' = t /\ peer' = "alive" /\ wire' = <<>> /\ asked' = 0
    BY <1>4 DEF ConnectSucceeds
  <2>3. /\ Conversing(t, 0, <<>>, 0, refusals, Spoilt)
        /\ t.failure = client.failure
    BY <1>0, <2>1, TalkConnects DEF Still
  <2> HIDE DEF t
  <2> QED  BY <1>0, <1>1, <2>1, <2>2, <2>3 DEF OnCourse, Still
<1>5. ASSUME ConnectFails PROVE Result
  <2> DEFINE t == [Post(client, Failed("connect")) EXCEPT !.connecting = FALSE]
  <2>1. /\ Still /\ client.connecting /\ client' = t
        /\ UNCHANGED <<peer, asked, wire>>
    BY <1>0, <1>5, TalkFields DEF ConnectFails, envVars, session, Talk
  <2>2. Attempting(t) /\ t.failure = client.failure
    BY <1>0, <2>1, AttemptsComplete DEF Still
  <2> HIDE DEF t
  <2> QED  BY <1>2, <2>1, <2>2
<1>6. ASSUME ReceiveSucceeds PROVE Result
  <2>1. PICK k \in 1 .. Len(wire) :
          /\ client' = [Post(client, Received(SubSeq(wire, 1, k)))
                          EXCEPT !.receiving = @ - 1]
          /\ wire' = SubSeq(wire, k + 1, Len(wire))
    BY <1>6 DEF ReceiveSucceeds
  <2> DEFINE t == Fetching(client, wire, k)
             rest == SubSeq(wire, k + 1, Len(wire))
  <2>2. client.receiving > 0 /\ UNCHANGED <<peer, asked>>
    BY <1>6 DEF ReceiveSucceeds, session
  <2>3. peer = "alive" /\ Talk
    BY <1>0, <2>2, AttemptFields DEF Still
  <2>4. /\ Conversing(t, asked, rest, unanswered, refusals, Spoilt)
        /\ t.failure = client.failure
    <3>1. Conversing(client, asked, wire, unanswered, refusals, Spoilt)
      BY <2>3 DEF Talk
    <3> HIDE DEF Talk, Still
    <3> QED  BY <1>0, <2>2, <3>1, TalkReceives
  <2>5. client' = t /\ wire' = rest
    BY <2>1 DEF Fetching
  <2> HIDE DEF t, rest
  <2> QED  BY <1>0, <1>1, <2>2, <2>3, <2>4, <2>5 DEF OnCourse
<1>7. ASSUME ReceiveFails \/ WriteFails PROVE FALSE
  <2>1. client.receiving > 0 \/ client.writing
    BY <1>7 DEF ReceiveFails, WriteFails
  <2>2. peer = "alive" /\ Talk
    BY <1>0, <2>1, AttemptFields DEF Still
  <2>3. client.socket = "connected"
    BY <2>2, TalkFields DEF Talk
  <2> QED  BY <1>7, <2>2, <2>3 DEF ReceiveFails, WriteFails
<1>8. ASSUME WriteSucceeds PROVE Result
  <2> DEFINE t == [Post(client, Done("write")) EXCEPT !.writing = FALSE]
             n == asked + client.outbound_messages_.front
  <2>1. client.writing /\ UNCHANGED <<peer, wire>> /\ client' = t
    BY <1>8 DEF WriteSucceeds
  <2>2. peer = "alive" /\ Talk
    BY <1>0, <2>1, AttemptFields DEF Still
  <2>3. asked' = n
    BY <1>8, <2>2 DEF WriteSucceeds
  <2>4. /\ Conversing(t, n, wire, unanswered, refusals, Spoilt)
        /\ t.failure = client.failure
    BY <1>0, <2>1, <2>2, TalkWrites DEF Talk
  <2> HIDE DEF t, n
  <2> QED  BY <1>0, <1>1, <2>1, <2>2, <2>3, <2>4 DEF OnCourse
<1>9. ASSUME TimeElapses PROVE Result
  <2> DEFINE t == [client EXCEPT !.timer = "elapsing"]
  <2>1. /\ Still /\ client.timer = "set" /\ client.ready = <<>>
        /\ client' = t /\ UNCHANGED <<peer, asked, wire>>
    BY <1>0, <1>9, TalkFields DEF TimeElapses, envVars, session, Talk
  <2>2. Attempting(t) /\ t.failure = client.failure
    BY <1>0, <2>1, AttemptsComplete DEF Still
  <2> HIDE DEF t
  <2> QED  BY <1>2, <2>1, <2>2
<1>10. ASSUME TimerExpires PROVE Result
  <2> DEFINE t == [Post(client, Done("timer")) EXCEPT !.timer = "off"]
  <2>1. /\ Still /\ client.timer = "elapsing" /\ client' = t
        /\ UNCHANGED <<peer, asked, wire>>
    BY <1>0, <1>10, TalkFields DEF TimerExpires, envVars, session, Talk
  <2>2. Attempting(t) /\ t.failure = client.failure
    BY <1>0, <2>1, AttemptsComplete DEF Still
  <2> HIDE DEF t
  <2> QED  BY <1>2, <2>1, <2>2
<1>11. ASSUME LineArrives PROVE Result
  <2>1. UNCHANGED <<peer, asked, wire>>
    BY <1>11 DEF LineArrives, session
  <2>2. OnCourse(client', peer, asked, wire, unanswered, refusals, Spoilt)
    BY <1>11, LineOnCourse
  <2> QED  BY <1>1, <2>1, <2>2
<1> HIDE DEF Result
<1>12. Result
  BY <1>3, <1>4, <1>5, <1>6, <1>7, <1>8, <1>9, <1>10, <1>11 DEF Reactor
<1> QED  BY <1>12 DEF Result

LEMMA UserTypesFits ==
  ASSUME EInv, TypedFit, NEW line \in Lines, UserTypes(line)
  PROVE  TypedFit' /\ (Spoilt => Spoilt')
<1>1. lines \in Seq(Lines) /\ typed \in Seq(Lines)
  BY DEF EInv, TypeOK
<1>2. lines' = Append(lines, line) /\ typed' = Append(typed, line)
  BY DEF UserTypes
<1>3. /\ \A i \in 1 .. Len(lines) :
           i \in 1 .. Len(lines') /\ lines'[i] = lines[i]
      /\ Len(lines') \in 1 .. Len(lines') /\ lines'[Len(lines')] = line
      /\ \A i \in 1 .. Len(typed') :
           \/ i \in 1 .. Len(typed) /\ typed'[i] = typed[i]
           \/ typed'[i] = line
  BY <1>1, <1>2
<1>4. Spoilt \/ line = NoText => Spoilt'
  BY <1>3 DEF Spoilt
<1> QED  BY <1>3, <1>4 DEF TypedFit

(* Each of the ways in which the server answers, or does not.              *)
LEMMA ServerOnCourse ==
  ASSUME EInv, OnTrack(Spoilt),
         ServerShips \/ NameGranted \/ NameIsOwn \/ NameIsTaken \/ NameIsWanted
  PROVE  OnCourse(client', peer', asked', wire', unanswered', refusals', Spoilt)
<1> DEFINE Talk(n, w, u, r) == Conversing(client, n, w, u, r, Spoilt)
<1>0. /\ client \in ProcessStates /\ wire \in Seq(Pieces) /\ asked \in Nat
      /\ unanswered \in Nat /\ refusals \in Nat
  BY TypeCounts DEF Counted
<1>1. client.socket = "connected" /\ UNCHANGED <<client, peer>>
  BY DEF ServerShips, NameGranted, NameIsOwn, NameIsTaken, NameIsWanted,
         ServerHears
<1>2. /\ client.failure = "none" /\ peer = "alive"
      /\ Talk(asked, wire, unanswered, refusals)
  BY <1>1, AttemptFields DEF OnTrack, OnCourse
<1>3. /\ {"on_subscribeShip", "on_setUserName_succeeded",
          "on_setUserName_failed"} \subseteq ServerCalls
      /\ IsAnswer("on_subscribeShip") = 0
      /\ IsAnswer("on_setUserName_succeeded") = 1
      /\ IsAnswer("on_setUserName_failed") = 1
  BY DEF ServerCalls, IsAnswer
<1> SUFFICES Talk(asked', wire', unanswered', refusals')
  BY <1>1, <1>2 DEF OnCourse
<1>4. ASSUME NEW m \in ServerCalls, NEW k \in Nat, NEW l \in Nat,
             l + IsAnswer(m) = asked + k
      PROVE  Talk(l, wire \o Frame(m), unanswered, refusals + k)
  BY <1>0, <1>2, <1>4, TalkHears
<1>5. CASE ServerShips
  <2>0. asked + IsAnswer("on_subscribeShip") = asked + 0
    BY <1>0, <1>3
  <2>1. Talk(asked, wire \o Frame("on_subscribeShip"), unanswered, refusals + 0)
    BY <1>0, <1>3, <1>4, <2>0
  <2>2. refusals + 0 = refusals
    BY <1>0
  <2> QED  BY <1>5, <2>1, <2>2 DEF ServerShips, session
<1>6. CASE NameGranted
  <2>1. asked > 0 /\ asked - 1 \in Nat /\ asked - 1 + 1 = asked + 0
    BY <1>0, <1>6 DEF NameGranted
  <2>2. Talk(asked - 1, wire \o Frame("on_setUserName_succeeded"), unanswered,
             refusals + 0)
    BY <1>3, <1>4, <2>1
  <2>3. refusals + 0 = refusals
    BY <1>0
  <2> QED  BY <1>6, <2>2, <2>3 DEF NameGranted
<1>7. CASE NameIsOwn
  <2>1. asked > 0 /\ asked - 1 \in Nat /\ asked - 1 + 1 = asked + 0
    BY <1>0, <1>7 DEF NameIsOwn
  <2>2. Talk(asked - 1, wire \o Frame("on_setUserName_failed"), unanswered,
             refusals + 0)
    BY <1>3, <1>4, <2>1
  <2>3. refusals + 0 = refusals
    BY <1>0
  <2> QED  BY <1>7, <2>2, <2>3 DEF NameIsOwn
<1>8. CASE NameIsTaken
  <2>1. Talk(asked - 1, wire, unanswered + 1, refusals)
    BY <1>0, <1>2, <1>8, TalkDropped DEF NameIsTaken
  <2> QED  BY <1>8, <2>1 DEF NameIsTaken
<1>9. CASE NameIsWanted
  <2>1. Talk(asked, wire \o Frame("on_setUserName_failed"), unanswered,
             refusals + 1)
    BY <1>0, <1>3, <1>4
  <2> QED  BY <1>9, <2>1 DEF NameIsWanted
<1> QED  BY <1>5, <1>6, <1>7, <1>8, <1>9

LEMMA EnvironmentOnCourse ==
  ASSUME EInv, DInv, Environment, NeverLost'
  PROVE  OnTrack(Spoilt)'
<1>1. crashes \in Nat /\ moves \in Nat
  BY BoundsAssumption DEF EInv, TypeOK
<1>2. ~ConnectTo /\ ~ServerCrashes
  BY <1>1 DEF ConnectTo, ServerCrashes, NeverLost
<1>3. ASSUME NEW line \in Lines, UserTypes(line)
      PROVE  OnTrack(Spoilt)'
  <2>1. UNCHANGED <<client, peer, asked, wire, unanswered, refusals, crashes,
                    moves>>
    BY <1>3 DEF UserTypes, session
  <2>2. OnTrack(Spoilt)
    BY <2>1 DEF DInv, Progress, NeverLost
  <2>3. Spoilt => Spoilt'
    BY <1>3, UserTypesFits DEF DInv
  <2>4. OnTrack(Spoilt')
    BY <2>2, <2>3, TalkSpoilt DEF OnTrack, OnCourse
  <2> QED  BY <2>1, <2>4 DEF OnTrack
<1>4. ASSUME ServerShips \/ NameGranted \/ NameIsOwn \/ NameIsTaken
               \/ NameIsWanted
      PROVE  OnTrack(Spoilt)'
  <2>1. UNCHANGED <<lines, crashes, moves>>
    BY <1>4 DEF ServerShips, NameGranted, NameIsOwn, NameIsTaken, NameIsWanted,
                counters
  <2>2. OnTrack(Spoilt) /\ Spoilt' = Spoilt
    BY <2>1 DEF DInv, Progress, NeverLost, Spoilt
  <2>3. OnCourse(client', peer', asked', wire', unanswered', refusals', Spoilt)
    BY <1>4, <2>2, ServerOnCourse
  <2> QED  BY <2>2, <2>3 DEF OnTrack
<1>5. ASSUME ServerStarts
      PROVE  OnTrack(Spoilt)'
  <2>1. UNCHANGED <<client, peer, asked, wire, unanswered, refusals, lines,
                    crashes, moves>>
    BY <1>5 DEF ServerStarts, counters, session
  <2> QED  BY <2>1 DEF DInv, Progress, NeverLost, Spoilt, OnTrack
<1> QED  BY <1>2, <1>3, <1>4, <1>5 DEF Environment

LEMMA TypedTaken ==
  ASSUME EInv, TypedFit, typed' \in {typed, Tail(typed)}, UNCHANGED lines,
         typed' # typed => typed # <<>>
  PROVE  TypedFit'
<1>1. typed \in Seq(Lines)
  BY DEF EInv, TypeOK
<1>2. CASE typed' = typed
  BY <1>2 DEF TypedFit, Spoilt
<1>3. CASE typed' # typed
  <2>1. typed # <<>> /\ typed' = Tail(typed)
    BY <1>3
  <2>2. \A i \in 1 .. Len(typed') :
          i + 1 \in 1 .. Len(typed) /\ typed'[i] = typed[i + 1]
    BY <1>1, <2>1
  <2> QED  BY <2>2 DEF TypedFit, Spoilt
<1> QED  BY <1>2, <1>3

LEMMA NextDInv == EInv /\ DInv /\ [Next]_vars => DInv'
<1> SUFFICES ASSUME EInv, DInv, [Next]_vars PROVE DInv'
  OBVIOUS
<1>1. CASE Thread
  <2>1. UNCHANGED envVars
    BY <1>1 DEF Thread, RunHandler, Update, FinishFrame
  <2>2. UNCHANGED <<peer, asked, wire, unanswered, refusals, typed, lines,
                    crashes, moves>>
    BY <2>1 DEF envVars, counters, session
  <2>3. NeverLost => OnCourse(client', peer, asked, wire, unanswered, refusals,
                              Spoilt)
    BY <1>1, ThreadOnCourse DEF DInv, Progress
  <2>4. NeverLost => OnTrack(Spoilt)'
    BY <2>2, <2>3 DEF OnTrack, Spoilt
  <2> QED  BY <2>2, <2>4 DEF DInv, Progress, TypedFit, Spoilt, NeverLost
<1>2. CASE Reactor
  <2>1. /\ UNCHANGED <<lines, crashes, moves>>
        /\ \/ typed' = typed
           \/ typed # <<>> /\ typed' = Tail(typed)
    BY <1>2 DEF Reactor, ResolveCompletes, ConnectSucceeds, ConnectFails,
                ReceiveSucceeds, ReceiveFails, WriteSucceeds, WriteFails,
                TimeElapses, TimerExpires, LineArrives, envVars, counters
  <2>2. TypedFit'
    BY <2>1, TypedTaken DEF DInv
  <2>3. NeverLost => OnCourse(client', peer', asked', wire', unanswered',
                              refusals', Spoilt)
    BY <1>2, ReactorOnCourse DEF DInv, Progress
  <2>4. Spoilt' = Spoilt /\ NeverLost' = NeverLost
    BY <2>1 DEF Spoilt, NeverLost
  <2> QED  BY <2>2, <2>3, <2>4 DEF DInv, Progress, OnTrack
<1>3. CASE Environment
  <2>1. TypedFit'
    <3>1. \/ \E line \in Lines : UserTypes(line)
          \/ UNCHANGED <<typed, lines>>
      BY <1>3 DEF Environment, ConnectTo, ServerShips, NameGranted, NameIsOwn,
                  NameIsTaken, NameIsWanted, ServerCrashes, ServerStarts, counters
    <3>2. CASE UNCHANGED <<typed, lines>>
      BY <3>2 DEF DInv, TypedFit, Spoilt
    <3>3. ASSUME NEW line \in Lines, UserTypes(line) PROVE TypedFit'
      BY <3>3, UserTypesFits DEF DInv
    <3> QED  BY <3>1, <3>2, <3>3
  <2>2. NeverLost' => OnTrack(Spoilt)'
    BY <1>3, EnvironmentOnCourse
  <2> QED  BY <2>1, <2>2 DEF DInv, Progress
<1>4. CASE UNCHANGED vars
  BY <1>4 DEF DInv, Progress, OnTrack, TypedFit, Spoilt, NeverLost, vars,
              counters, session
<1> QED  BY <1>1, <1>2, <1>3, <1>4 DEF Next

-----------------------------------------------------------------------------
(* What the property counts is what the account holds.  The answers among  *)
(* pieces add up ...                                                       *)
LEMMA AnswersInFinite ==
  ASSUME NEW q \in Seq(Pieces)
  PROVE  /\ IsFiniteSet(AnswersIn(q)) /\ Cardinality(AnswersIn(q)) \in Nat
         /\ Len(q) \in Nat
<1>1. Len(q) \in Nat
  BY LenProperties
<1>2. IsFiniteSet(1 .. Len(q))
  BY <1>1, FS_Interval
<1>3. IsFiniteSet(AnswersIn(q))
  BY <1>2, FS_Subset DEF AnswersIn
<1> QED  BY <1>1, <1>3, FS_CardinalityType

LEMMA AnswersJoined ==
  ASSUME NEW u \in Seq(Pieces), NEW v \in Seq(Pieces)
  PROVE  Cardinality(AnswersIn(u \o v))
           = Cardinality(AnswersIn(u)) + Cardinality(AnswersIn(v))
<1> DEFINE q == u \o v
           n == Len(u)
           T == {i \in n + 1 .. n + Len(v) :
                   q[i].part = 2 /\ q[i].frame # "on_subscribeShip"}
           g == [i \in AnswersIn(v) |-> n + i]
<1>1. /\ n \in Nat /\ Len(v) \in Nat /\ Len(q) = n + Len(v)
      /\ \A i \in 1 .. n : q[i] = u[i]
      /\ \A i \in 1 .. Len(v) : q[n + i] = v[i]
  BY Joined
<1> HIDE DEF q, n
<1>2. AnswersIn(q) = AnswersIn(u) \cup T /\ AnswersIn(u) \cap T = {}
  <2>1. 1 .. n + Len(v) = (1 .. n) \cup (n + 1 .. n + Len(v))
        /\ (1 .. n) \cap (n + 1 .. n + Len(v)) = {}
    BY <1>1
  <2>2. AnswersIn(u) = {i \in 1 .. n : q[i].part = 2
                                       /\ q[i].frame # "on_subscribeShip"}
    BY <1>1 DEF AnswersIn, n
  <2> QED  BY <1>1, <2>1, <2>2 DEF AnswersIn
<1>3. g \in Surjection(AnswersIn(v), T) /\ g \in Injection(AnswersIn(v), T)
  <2>1. \A i \in AnswersIn(v) : i \in 1 .. Len(v) /\ v[i].part = 2
                                /\ v[i].frame # "on_subscribeShip"
    BY DEF AnswersIn
  <2>2. \A i \in AnswersIn(v) : n + i \in T
    BY <1>1, <2>1
  <2>3. ASSUME NEW j \in T PROVE j - n \in AnswersIn(v) /\ g[j - n] = j
    <3>1. j - n \in 1 .. Len(v) /\ n + (j - n) = j
      BY <1>1
    <3>2. v[j - n] = q[j]
      BY <1>1, <3>1
    <3>3. j - n \in AnswersIn(v)
      BY <3>1, <3>2 DEF AnswersIn
    <3> QED  BY <3>1, <3>3
  <2>4. \A i, j \in AnswersIn(v) : g[i] = g[j] => i = j
    BY <1>1, <2>1
  <2>5. g \in [AnswersIn(v) -> T]
    BY <2>2
  <2> HIDE DEF g, T
  <2> QED  BY <2>3, <2>4, <2>5 DEF Surjection, Injection, IsInjective
<1>4. /\ IsFiniteSet(AnswersIn(u)) /\ Cardinality(AnswersIn(u)) \in Nat
      /\ IsFiniteSet(AnswersIn(v)) /\ Cardinality(AnswersIn(v)) \in Nat
  BY AnswersInFinite
<1> HIDE DEF T, g
<1>5. IsFiniteSet(T) /\ Cardinality(T) = Cardinality(AnswersIn(v))
  BY <1>3, <1>4, FS_Surjection
<1>6. Cardinality(AnswersIn(u) \cup T)
        = Cardinality(AnswersIn(u)) + Cardinality(T)
            - Cardinality(AnswersIn(u) \cap T)
  BY <1>4, <1>5, FS_Union
<1>7. Cardinality(AnswersIn(u) \cap T) = 0
  BY <1>2, FS_EmptySet
<1> QED  BY <1>2, <1>4, <1>5, <1>6, <1>7 DEF q

(* ... to those among the calls that the pieces carry.                     *)
LEMMA AnswersCarried ==
  ASSUME NEW q \in Seq(Pieces), NEW f \in Seq(ServerCalls), Carries(q, f)
  PROVE  Cardinality(AnswersIn(q)) = Cardinality(Answers(f))
<1> DEFINE g == [i \in Answers(f) |-> 2 * i]
<1>1. /\ DOMAIN f = 1 .. Len(f) /\ Len(f) \in Nat /\ Len(q) = 2 * Len(f)
      /\ IsFiniteSet(Answers(f))
  BY AnswersFinite DEF Carries
<1>2. ASSUME NEW i \in 1 .. Len(f)
      PROVE  /\ 2 * i \in 1 .. Len(q)
             /\ q[2 * i - 1].part = 1
             /\ q[2 * i].part = 2 /\ q[2 * i].frame = f[i]
  <2>1. 2 * i \in 1 .. Len(q)
    BY <1>1
  <2>2. /\ q[2 * i - 1] = [frame |-> f[i], part |-> 1]
        /\ q[2 * i] = [frame |-> f[i], part |-> 2]
    BY DEF Carries
  <2> QED  BY <2>1, <2>2
<1>3. \A i \in Answers(f) : i \in 1 .. Len(f) /\ f[i] # "on_subscribeShip"
  BY <1>1 DEF Answers
<1>4. ASSUME NEW i \in Answers(f) PROVE 2 * i \in AnswersIn(q)
  BY <1>2, <1>3 DEF AnswersIn
<1>5. ASSUME NEW j \in AnswersIn(q)
      PROVE  \E i \in Answers(f) : g[i] = j
  <2>1. /\ j \in Nat /\ 1 <= j /\ j <= 2 * Len(f)
        /\ q[j].part = 2 /\ q[j].frame # "on_subscribeShip"
    BY <1>1 DEF AnswersIn
  <2>2. PICK i \in 1 .. Len(f) : j = 2 * i \/ j = 2 * i - 1
    <3> DEFINE i == (j + 1) \div 2
    <3>1. i \in Nat /\ (j = 2 * i \/ j = 2 * i - 1)
      BY <2>1
    <3> HIDE DEF i
    <3>2. i \in 1 .. Len(f)
      BY <1>1, <2>1, <3>1
    <3> QED  BY <3>1, <3>2
  <2>3. j = 2 * i
    <3>1. CASE j = 2 * i - 1
      <4>1. q[j].part = 1
        BY <1>2, <3>1
      <4> QED  BY <2>1, <4>1
    <3> QED  BY <2>2, <3>1
  <2>4. f[i] # "on_subscribeShip"
    BY <1>2, <2>1, <2>3
  <2>5. i \in Answers(f)
    BY <1>1, <2>4 DEF Answers
  <2> QED  BY <2>3, <2>5
<1>6. \A i, j \in Answers(f) : g[i] = g[j] => i = j
  BY <1>1, <1>3
<1>7. g \in [Answers(f) -> AnswersIn(q)]
  BY <1>4
<1> HIDE DEF g
<1>8. /\ g \in Surjection(Answers(f), AnswersIn(q))
      /\ g \in Injection(Answers(f), AnswersIn(q))
  BY <1>5, <1>6, <1>7 DEF Surjection, Injection, IsInjective
<1> QED  BY <1>1, <1>8, FS_Surjection

LEMMA StreamAnswers ==
  ASSUME NEW half \in ServerCalls \cup {"none"}, NEW bytes \in Seq(Pieces),
         NEW got \in Seq(Pieces), NEW w \in Seq(Pieces),
         NEW f \in Seq(ServerCalls), Carries(Stream(half, bytes, got, w), f)
  PROVE  Cardinality(AnswersIn(bytes)) + Cardinality(AnswersIn(got))
           + Cardinality(AnswersIn(w)) = Cardinality(Answers(f))
<1> DEFINE o == Opened(half)
           c == got \o w
           b == bytes \o c
           q == o \o b
<1>1. o \in Seq(Pieces)
  BY OpenedType
<1>2. Cardinality(AnswersIn(o)) = 0
  <2>1. AnswersIn(o) = {}
    BY DEF Opened, AnswersIn
  <2> QED  BY <2>1, FS_EmptySet
<1>3. c \in Seq(Pieces)
      /\ Cardinality(AnswersIn(c))
           = Cardinality(AnswersIn(got)) + Cardinality(AnswersIn(w))
  BY Joined, AnswersJoined
<1> HIDE DEF o, c
<1>4. b \in Seq(Pieces)
      /\ Cardinality(AnswersIn(b))
           = Cardinality(AnswersIn(bytes)) + Cardinality(AnswersIn(c))
  BY <1>3, Joined, AnswersJoined
<1> HIDE DEF b
<1>5. q \in Seq(Pieces)
      /\ Cardinality(AnswersIn(q))
           = Cardinality(AnswersIn(o)) + Cardinality(AnswersIn(b))
  BY <1>1, <1>4, Joined, AnswersJoined
<1> HIDE DEF q
<1>6. Carries(q, f)
  BY DEF Stream, o, b, c, q
<1>7. Cardinality(AnswersIn(q)) = Cardinality(Answers(f))
  BY <1>5, <1>6, AnswersCarried
<1>8. /\ Cardinality(AnswersIn(bytes)) \in Nat
      /\ Cardinality(AnswersIn(got)) \in Nat
      /\ Cardinality(AnswersIn(w)) \in Nat
  BY AnswersInFinite
<1> QED  BY <1>2, <1>3, <1>4, <1>5, <1>7, <1>8

(* The answers in a receive, the lines that were read and the calls that   *)
(* were not sent are counted where the handlers keep them.                 *)
LEMMA ReceivedCount ==
  ASSUME client \in ProcessStates, Hearing(client)
  PROVE  Cardinality(AnswersReceived)
           = Cardinality(AnswersIn(Arrived(client.ready)))
<1> DEFINE q == client.ready
           R == ReadyOf({"receive"})
<1>1. q \in Seq(Handlers)
  BY ReadyType
<1>2. CASE Without(q, {"receive"})
  <2>1. R = {} /\ GotOf(q) = {}
    BY <1>1, <1>2, GotWithout DEF ReadyOf, Without
  <2>2. AnswersReceived = {} /\ Arrived(q) = <<>>
    BY <2>1 DEF AnswersReceived, Arrived
  <2>3. AnswersIn(Arrived(q)) = {}
    BY <2>2 DEF AnswersIn
  <2> QED  BY <2>2, <2>3
<1>3. ASSUME NEW h \in Handlers, h.op = "receive", Lone(q, AttemptOps, h)
      PROVE  Cardinality(AnswersReceived) = Cardinality(AnswersIn(Arrived(q)))
  <2>1. Arrived(q) = h.got /\ Arrived(q) \in Seq(Pieces)
    BY <1>1, <1>3, ArrivedFits
  <2>2. PICK k \in 1 .. Len(q) :
          /\ q[k] = h
          /\ \A j \in 1 .. Len(q) : q[j].op \in AttemptOps => j = k
    BY <1>3 DEF Lone
  <2>3. R = {k} /\ client.ready[k].got = h.got
    BY <1>3, <2>2 DEF ReadyOf, AttemptOps
  <2> DEFINE A == AnswersIn(h.got)
             g == [x \in A |-> << k, x >>]
  <2>4. AnswersReceived = {k} \X A
    BY <2>3 DEF AnswersReceived
  <2>5. IsFiniteSet(A)
    BY <2>1, AnswersInFinite
  <2> HIDE DEF A
  <2>6. g \in Surjection(A, {k} \X A) /\ g \in Injection(A, {k} \X A)
    <3>1. \A x \in A : g[x] = << k, x >> /\ g[x] \in {k} \X A
      OBVIOUS
    <3>2. \A y \in {k} \X A : \E x \in A : g[x] = y
      OBVIOUS
    <3>3. \A x, y \in A : g[x] = g[y] => x = y
      OBVIOUS
    <3>4. g \in [A -> {k} \X A]
      BY <3>1
    <3> HIDE DEF g
    <3> QED  BY <3>2, <3>3, <3>4 DEF Surjection, Injection, IsInjective
  <2>7. Cardinality({k} \X A) = Cardinality(A)
    BY <2>5, <2>6, FS_Surjection
  <2> QED  BY <2>1, <2>4, <2>7 DEF A
<1>4. ASSUME Lone(q, AttemptOps, Done("connect"))
      PROVE  Without(q, {"receive"})
  <2>1. PICK k \in 1 .. Len(q) :
          /\ q[k] = Done("connect")
          /\ \A j \in 1 .. Len(q) : q[j].op \in AttemptOps => j = k
    BY <1>4 DEF Lone
  <2>2. q[k].op = "connect"
    BY <2>1 DEF Done, Failed
  <2> QED  BY <2>1, <2>2 DEF Without, AttemptOps
<1>5. Without(q, AttemptOps) => Without(q, {"receive"})
  BY DEF Without, AttemptOps
<1> QED  BY <1>2, <1>3, <1>4, <1>5 DEF Hearing

LEMMA PromptCount ==
  ASSUME client \in ProcessStates
  PROVE  Len(client.stdin) + Cardinality(ReadyOf(Prompts)) = Asking(client)
<1>1. DOMAIN client.ready = 1 .. Len(client.ready)
  BY ReadyType, PromptsFinite
<1>2. ReadyOf(Prompts) = PromptsIn(client.ready)
  BY <1>1 DEF ReadyOf, PromptsIn
<1> QED  BY <1>2 DEF Asking

LEMMA UnsentCount ==
  ASSUME Calling(client), ~Lone(client.ready, {"write"}, Failed("write"))
  PROVE  Unsent = Len(Pending(client))
<1>1. CASE Without(client.ready, {"write"})
  <2>1. ReadyOf({"write"}) = {}
    BY <1>1 DEF Without, ReadyOf
  <2>2. ~Lone(client.ready, {"write"}, Done("write"))
    BY <1>1 DEF Without, Lone, Done, Failed
  <2> QED  BY <2>1, <2>2 DEF Unsent, Pending
<1>2. CASE Lone(client.ready, {"write"}, Done("write"))
  <2>1. PICK i \in 1 .. Len(client.ready) : client.ready[i] = Done("write")
    BY <1>2 DEF Lone
  <2>2. client.ready[i].op = "write" /\ client.ready[i].ok
    BY <2>1 DEF Done, Failed
  <2>3. \E j \in ReadyOf({"write"}) : client.ready[j].ok
    BY <2>2 DEF ReadyOf
  <2> QED  BY <1>2, <2>3 DEF Unsent, Pending
<1> QED  BY <1>1, <1>2 DEF Calling

LEMMA DialoguesCount ==
  ASSUME client \in ProcessStates, wire \in Seq(Pieces), asked \in Nat,
         unanswered \in Nat, Sound(client), NEW f \in Seq(ServerCalls),
         Carries(Coming(client, wire), f)
  PROVE  Dialogues + unanswered = Account(client, asked, f, unanswered)
<1>1. /\ client.ready \in Seq(Handlers) /\ client.incomming_bytes_ \in Seq(Pieces)
      /\ client.half \in ServerCalls \cup {"none"}
  BY ReadyType DEF ProcessStates
<1>2. Arrived(client.ready) \in Seq(Pieces)
  BY <1>1, ArrivedFits
<1> DEFINE b == Cardinality(AnswersIn(client.incomming_bytes_))
           g == Cardinality(AnswersReceived)
           w == Cardinality(AnswersIn(wire))
           c == Cardinality(Answers(f))
           a == Asking(client)
           p == Len(Pending(client))
<1>3. b + g + w = c
  <2>1. g = Cardinality(AnswersIn(Arrived(client.ready)))
    BY ReceivedCount DEF Sound, Up
  <2>2. Carries(Stream(client.half, client.incomming_bytes_,
                       Arrived(client.ready), wire), f)
    BY DEF Coming
  <2> DEFINE h == client.half
             y == client.incomming_bytes_
             v == Arrived(client.ready)
  <2>3. Cardinality(AnswersIn(y)) + Cardinality(AnswersIn(v))
          + Cardinality(AnswersIn(wire)) = Cardinality(Answers(f))
    <3>1. Carries(Stream(h, y, v, wire), f)
      BY <2>2
    <3>2. h \in ServerCalls \cup {"none"} /\ y \in Seq(Pieces) /\ v \in Seq(Pieces)
      BY <1>1, <1>2
    <3> HIDE DEF h, y, v
    <3> QED  BY <3>1, <3>2, StreamAnswers
  <2> QED  BY <2>1, <2>3
<1>4. b \in Nat /\ w \in Nat /\ g \in Nat /\ c \in Nat /\ a \in Nat /\ p \in Nat
  <2>1. g = Cardinality(AnswersIn(Arrived(client.ready)))
    BY ReceivedCount DEF Sound, Up
  <2>2. b \in Nat /\ w \in Nat /\ g \in Nat
    BY <1>1, <1>2, <2>1, AnswersInFinite
  <2> QED  BY <2>2, AccountType
<1>5. Dialogues = (a + p) + asked + (b + g + w)
  <2> DEFINE l == Len(client.stdin)
             r == Cardinality(ReadyOf(Prompts))
  <2>1. l + r = a
    BY PromptCount
  <2>2. Unsent = p
    BY UnsentCount DEF Sound, Up
  <2>3. Dialogues = l + r + Unsent + asked + (b + g + w)
    BY DEF Dialogues, AnswersComing
  <2> HIDE DEF l, r, a, p, b, g, w
  <2> QED  BY <2>1, <2>2, <2>3
<1>6. Account(client, asked, f, unanswered) = a + p + asked + c + unanswered
  BY DEF Account
<1> HIDE DEF a, p, b, g, w, c
<1> QED  BY <1>3, <1>4, <1>5, <1>6

(* A client that attempts to connect has no dialogue.                      *)
LEMMA NoDialogues ==
  ASSUME client \in ProcessStates, Attempting(client), wire = <<>>, asked = 0
  PROVE  Dialogues = 0 /\ ReadyOf({"receive"}) = {}
<1>1. /\ client.stdin = <<>> /\ client.incomming_bytes_ = <<>>
      /\ \A i \in 1 .. Len(client.ready) :
           client.ready[i].op \notin Prompts \cup {"write", "receive"}
  BY AttemptFields
<1>2. /\ ReadyOf(Prompts) = {} /\ ReadyOf({"write"}) = {}
      /\ ReadyOf({"receive"}) = {}
  BY <1>1 DEF ReadyOf
<1>3. client.outbound_messages_.msgs = <<>>
  BY DEF Attempting, Blank, NoCall, EmptyQueue
<1>4. Unsent = 0 /\ Len(client.stdin) = 0
  BY <1>1, <1>2, <1>3 DEF Unsent
<1>5. AnswersReceived = {} /\ AnswersIn(<<>>) = {}
  BY <1>2 DEF AnswersReceived, AnswersIn
<1>6. /\ Cardinality(ReadyOf(Prompts)) = 0
      /\ Cardinality(AnswersReceived) = 0
      /\ Cardinality(AnswersIn(client.incomming_bytes_)) = 0
      /\ Cardinality(AnswersIn(wire)) = 0
  BY <1>1, <1>2, <1>5, FS_EmptySet
<1>7. AnswersComing = 0
  BY <1>6 DEF AnswersComing
<1> QED  BY <1>2, <1>4, <1>6, <1>7 DEF Dialogues

LEMMA OrderlyHolds == EInv /\ DInv => OrderlyWithoutCrash
<1> SUFFICES ASSUME EInv, OnTrack(Spoilt)
             PROVE  Running /\ Dialogues + unanswered <= 1 + refusals
  BY DEF DInv, Progress, OrderlyWithoutCrash
<1>1. Counted
  BY TypeCounts
<1>2. Running
  BY DEF OnTrack, OnCourse, Running
<1>3. CASE Attempting(client) /\ asked = 0 /\ wire = <<>> /\ unanswered = 0
  <2>1. Dialogues = 0
    BY <1>1, <1>3, NoDialogues DEF Counted
  <2> QED  BY <1>1, <1>2, <1>3, <2>1 DEF Counted
<1>4. CASE Conversing(client, asked, wire, unanswered, refusals, Spoilt)
  <2>1. PICK f \in Seq(ServerCalls) :
          /\ Sound(client) /\ Carries(Coming(client, wire), f)
          /\ Account(client, asked, f, unanswered) <= Begun(client) + refusals
    BY <1>4 DEF Conversing, Balanced
  <2>2. Dialogues + unanswered = Account(client, asked, f, unanswered)
    BY <1>1, <2>1, DialoguesCount DEF Counted
  <2>3. Begun(client) \in {0, 1} /\ Account(client, asked, f, unanswered) \in Nat
    BY <1>1, AccountType DEF Counted
  <2>4. Dialogues + unanswered <= 1 + refusals
    BY <1>1, <2>1, <2>2, <2>3 DEF Counted
  <2> QED  BY <1>2, <2>4
<1> QED  BY <1>3, <1>4 DEF OnTrack, OnCourse

LEMMA DialogueHolds == EInv /\ DInv => DialogueNotLost
<1> SUFFICES ASSUME EInv, OnTrack(Spoilt), refusals = 0, ~Spoilt,
                    client.receiving > 0 \/ ReadyOf({"receive"}) # {}
             PROVE  Dialogues + unanswered = 1
  BY DEF DInv, Progress, DialogueNotLost, Spoilt
<1>1. Counted
  BY TypeCounts
<1>2. ~Attempting(client) \/ asked # 0 \/ wire # <<>>
  BY <1>1, NoDialogues, AttemptFields DEF Counted
<1>3. PICK f \in Seq(ServerCalls) :
        /\ Sound(client) /\ Carries(Coming(client, wire), f)
        /\ Account(client, asked, f, unanswered) = Begun(client)
  BY <1>2 DEF OnTrack, OnCourse, Conversing, Balanced
<1>4. Dialogues + unanswered = Account(client, asked, f, unanswered)
  BY <1>1, <1>3, DialoguesCount DEF Counted
<1>5. ~Connecting(client)
  <2>1. ASSUME Connecting(client) PROVE FALSE
    <3>1. client.receiving = 0 /\ client.ready = <<Done("connect")>>
      BY <2>1 DEF Connecting, Blank
    <3>2. ReadyOf({"receive"}) = {}
      BY <3>1 DEF ReadyOf, Done, Failed
    <3> QED  BY <3>1, <3>2
  <2> QED  BY <2>1
<1> QED  BY <1>3, <1>4, <1>5 DEF Sound, Begun

(* While the connection is not lost, the client has one dialogue with the  *)
(* user, and one more for each refusal of its name that it had not asked   *)
(* for: no other handler begins one.  A call the server does not answer    *)
(* ends one.  No frame is mixed up with another, and what was sent is in   *)
(* the list when it is removed.                                            *)
THEOREM OrderlyWithoutCrashCorrect == Spec => []OrderlyWithoutCrash
<1>1. EInv /\ [Next]_vars => EInv'
  BY NextEInv
<1> QED  BY InitEInv, InitDInv, <1>1, NextDInv, OrderlyHolds, PTL DEF Spec

(* Nor does a handler lose one, however the frames of the server are cut   *)
(* on their way and whenever the terminal and the socket complete: unless  *)
(* the user has entered an empty line, or was prompted by a refusal that   *)
(* was not asked for, a client that is connected is in its dialogue, or is *)
(* the author of a call that the server has not answered.                  *)
THEOREM DialogueNotLostCorrect == Spec => []DialogueNotLost
<1>1. EInv /\ [Next]_vars => EInv'
  BY NextEInv
<1> QED  BY InitEInv, InitDInv, <1>1, NextDInv, DialogueHolds, PTL DEF Spec
=============================================================================
