-------------------------- MODULE TalkSystemProofs --------------------------
(***************************************************************************)
(* Proofs about TalkSystem, for any clients, connections, names and        *)
(* bounds.                                                                 *)
(***************************************************************************)
EXTENDS TalkSystem, ChatRoomProofs, ClientProcessProofs,
        WellFoundedInduction, FiniteSetTheorems

(* A step of a client is, to the server, a step of its peer or none.       *)
LEMMA ClientStep ==
  ASSUME NEW p \in Clients,
         \/ RunHandler(p) \/ ResolveCompletes(p) \/ ConnectSucceeds(p)
         \/ ReceiveSucceeds(p) \/ ReceiveFails(p)
         \/ CallSucceeds(p) \/ CallFails(p)
         \/ TimeElapses(p) \/ TimerExpires(p)
         \/ LineArrives(p) \/ Reset(p)
  PROVE  [Next]_vars
<1>1. CASE RunHandler(p)
  <2>1. (conn[p] \in Conns /\ PeerDown(conn[p])) \/ UNCHANGED vars
    BY <1>1 DEF RunHandler, Connected
  <2> QED  BY <2>1 DEF Next
<1>2. CASE ConnectSucceeds(p)
  BY <1>2 DEF ConnectSucceeds, Next
<1>3. CASE Reset(p)
  BY <1>3 DEF Reset, Connected, Next
<1>4. CASE \/ ResolveCompletes(p) \/ ReceiveSucceeds(p) \/ ReceiveFails(p)
           \/ CallSucceeds(p) \/ CallFails(p)
           \/ TimeElapses(p) \/ TimerExpires(p) \/ LineArrives(p)
  BY <1>4 DEF ResolveCompletes, ReceiveSucceeds, ReceiveFails, CallSucceeds,
              CallFails, TimeElapses, TimerExpires, LineArrives
<1> QED  BY <1>1, <1>2, <1>3, <1>4

(* A step of the network or of the server is a step of the server.         *)
LEMMA ServerStep ==
  ASSUME NEW c \in Conns,
         \/ FrameArrives(c) \/ ProcessFrame(c)
         \/ ServerReads(c) \/ ServerWrites(c) \/ ServerHandles(c)
  PROVE  Next
<1>1. FrameSizeArrives(c) \/ Reactor(c) \/ Handler(c)
  BY DEF FrameArrives, ProcessFrame, ServerReads, ServerWrites,
         ServerHandles, Reactor, Handler
<1> QED  BY <1>1 DEF Next

LEMMA SystemMoves == [SysNext]_sysVars => [Next]_vars
<1> SUFFICES ASSUME [SysNext]_sysVars PROVE [Next]_vars
  OBVIOUS
<1>1. CASE SysNext
  BY <1>1, ClientStep, ServerStep DEF SysNext
<1>2. CASE UNCHANGED sysVars
  BY <1>2 DEF sysVars
<1> QED  BY <1>1, <1>2

(* Talk clients are peers as TalkServer knows them, however they lose and  *)
(* make connections: the system is an instance of the server's behaviour.  *)
THEOREM ClientsArePeers == SysSpec => Spec
<1>1. SysInit => Init
  BY DEF SysInit
<1>2. [SysNext]_sysVars => [Next]_vars
  BY SystemMoves
<1> QED  BY <1>1, <1>2, PTL DEF SysSpec, Spec

(* So the server keeps its sessions, their names and its lists of messages *)
(* in order while talk clients use it: with the mixin's assertions,        *)
(* setUserName's search, and the size of the list as the test in write().  *)
THEOREM ServerCorrectInSystem ==
  SysSpec => [](/\ ChainIffRegistered /\ UniqueNames
                /\ WriteMatchesQueue /\ StreamIntegrity)
BY ClientsArePeers, ChainCorrect, NamesCorrect, WritesCorrect, StreamsCorrect,
   PTL

-----------------------------------------------------------------------------
(* Induction, for sets.                                                    *)
LEMMA SetInduction ==
  ASSUME NEW S, 0 \in S, \A n \in Nat : n \in S => n + 1 \in S
  PROVE  Nat \subseteq S
<1> DEFINE R == OpToRel(<, Nat)
           T == {n \in Nat : n \notin S}
<1>1. \A x, y \in Nat : x < y => <<x, y>> \in R
  BY DEF OpToRel
<1> HIDE DEF R
<1>2. IsWellFoundedOn(R, Nat)
  BY NatLessThanWellFounded DEF R
<1>3. ASSUME T # {} PROVE FALSE
  <2>1. PICK x \in T : \A y \in T : ~ (<<y, x>> \in R)
    BY <1>2, <1>3, WFMin
  <2>2. x # 0 /\ x \in Nat
    BY <2>1
  <2>3. x - 1 \in Nat /\ x - 1 < x /\ x - 1 + 1 = x
    BY <2>2
  <2>4. x - 1 \notin T
    BY <1>1, <2>1, <2>2, <2>3
  <2> QED  BY <2>1, <2>3, <2>4
<1> QED  BY <1>3

LEMMA Half ==
  ASSUME NEW n \in Nat
  PROVE  n \div 2 \in Nat /\ 2 * (n \div 2) <= n
OBVIOUS

(* What has arrived are calls of the server.                               *)
LEMMA ArrivedType ==
  ASSUME NEW s \in ProcessStates
  PROVE  /\ Arrived(s) \in Seq(ServerCalls)
         /\ Len(Arrived(s)) = Len(s.incomming_bytes_) \div 2
         /\ \A i \in 1 .. Len(Arrived(s)) :
              Arrived(s)[i] = s.incomming_bytes_[2 * i].frame
<1> DEFINE b == s.incomming_bytes_
           n == Len(b) \div 2
<1>1. b \in Seq(Pieces) /\ Len(b) \in Nat
  BY LenProperties DEF ProcessStates
<1>2. n \in Nat /\ 2 * n <= Len(b)
  BY <1>1, Half
<1> HIDE DEF b, n
<1>3. \A i \in 1 .. n : 2 * i \in 1 .. Len(b)
  BY <1>1, <1>2
<1>4. \A i \in 1 .. Len(b) : b[i] \in Pieces
  BY <1>1, ElementOfSeq
<1>5. \A i \in 1 .. n : b[2 * i].frame \in ServerCalls
  BY <1>3, <1>4 DEF Pieces
<1>6. Arrived(s) = [i \in 1 .. n |-> b[2 * i].frame]
  BY DEF Arrived, b, n
<1>7. /\ Arrived(s) \in Seq(ServerCalls) /\ Len(Arrived(s)) = n
      /\ \A i \in 1 .. n : Arrived(s)[i] = b[2 * i].frame
  BY <1>2, <1>5, <1>6
<1> QED  BY <1>7 DEF b, n

(* The loop of update() dispatches the calls one after the other.          *)
Dispatching(f, base, a, n) ==
  f = [i \in 0 .. n |-> IF i = 0 THEN base ELSE Dispatch(f[i - 1], a[i])]

LEMMA DispatchingExists ==
  ASSUME NEW base, NEW a, NEW n \in Nat
  PROVE  \E f : Dispatching(f, base, a, n)
<1> DEFINE G(f, k) == f = [i \in 0 .. k |->
                       IF i = 0 THEN base ELSE Dispatch(f[i - 1], a[i])]
           S == {k \in Nat : \E f : G(f, k)}
<1>1. 0 \in S
  <2> DEFINE f == [i \in 0 .. 0 |-> base]
  <2>1. G(f, 0)
    OBVIOUS
  <2> QED  BY <2>1
<1>2. ASSUME NEW k \in Nat, k \in S PROVE k + 1 \in S
  <2>1. PICK f : G(f, k)
    BY <1>2
  <2> DEFINE g == [i \in 0 .. k + 1 |->
                     IF i <= k THEN f[i] ELSE Dispatch(f[k], a[k + 1])]
             h == [i \in 0 .. k + 1 |->
                     IF i = 0 THEN base ELSE Dispatch(g[i - 1], a[i])]
  <2>2. ASSUME NEW i \in 0 .. k + 1 PROVE g[i] = h[i]
    <3>1. CASE i = 0
      BY <2>1, <3>1
    <3>2. CASE i \in 1 .. k
      <4>1. i \in 0 .. k /\ i # 0 /\ i - 1 \in 0 .. k + 1 /\ i - 1 <= k
        BY <3>2
      <4>2. g[i] = f[i] /\ g[i - 1] = f[i - 1]
        BY <4>1
      <4>3. f[i] = Dispatch(f[i - 1], a[i])
        BY <2>1, <4>1
      <4> QED  BY <4>1, <4>2, <4>3
    <3>3. CASE i = k + 1
      <4>1. i # 0 /\ ~(i <= k) /\ i - 1 = k /\ k \in 0 .. k + 1 /\ k <= k
        BY <3>3
      <4>2. g[k] = f[k] /\ g[i] = Dispatch(f[k], a[i])
        BY <3>3, <4>1
      <4> QED  BY <4>1, <4>2
    <3> QED  BY <3>1, <3>2, <3>3
  <2>3. g = h
    BY <2>2
  <2> HIDE DEF g
  <2>4. G(g, k + 1)
    BY <2>3
  <2> QED  BY <2>4
<1>3. Nat \subseteq S
  BY <1>1, <1>2, SetInduction
<1> QED  BY <1>3 DEF Dispatching

LEMMA UpdateEffect ==
  ASSUME NEW s \in ProcessStates
  PROVE  update(s) \in ProcessStates /\ Updated(s, update(s))
<1>1. CASE ~isOpen(s)
  BY <1>1 DEF update, Updated
<1>2. CASE isOpen(s)
  <2> DEFINE a == Arrived(s)
             base == [s EXCEPT !.incomming_bytes_ = <<>>]
             done[i \in 0 .. Len(a)] ==
               IF i = 0 THEN base ELSE Dispatch(done[i - 1], a[i])
             R(f) == Dispatching(f, base, a, Len(a))
             S == {i \in Nat : i <= Len(a) =>
                     done[i] \in ProcessStates /\ Aside(base, done[i])}
  <2>1. update(s) = done[Len(a)]
    BY <1>2 DEF update
  <2>2. a \in Seq(ServerCalls) /\ Len(a) \in Nat
    BY ArrivedType, LenProperties
  <2>3. R(done)
    <3>1. \E f : R(f)
      BY <2>2, DispatchingExists
    <3>2. done = CHOOSE f : R(f)
      BY DEF Dispatching
    <3> QED  BY <3>1, <3>2
  <2>4. base \in ProcessStates
    BY EmptySeq DEF ProcessStates
  <2> HIDE DEF a, base, done
  <2>5. \A i \in 0 .. Len(a) :
          done[i] = IF i = 0 THEN base ELSE Dispatch(done[i - 1], a[i])
    BY <2>3 DEF Dispatching
  <2>6. 0 \in S
    <3>1. done[0] = base
      BY <2>2, <2>5
    <3> QED  BY <2>4, <3>1, AsideSelf
  <2>7. ASSUME NEW i \in Nat, i \in S PROVE i + 1 \in S
    <3> SUFFICES ASSUME i + 1 <= Len(a)
                 PROVE  /\ done[i + 1] \in ProcessStates
                        /\ Aside(base, done[i + 1])
      OBVIOUS
    <3>1. done[i] \in ProcessStates /\ Aside(base, done[i])
      BY <2>2, <2>7
    <3>2. i + 1 \in 1 .. Len(a) /\ i + 1 - 1 = i /\ i + 1 # 0
      BY <2>2
    <3>3. done[i + 1] = Dispatch(done[i], a[i + 1]) /\ a[i + 1] \in ServerCalls
      BY <2>2, <2>5, <3>2, ElementOfSeq
    <3>4. done[i + 1] \in ProcessStates /\ Aside(done[i], done[i + 1])
      BY <3>1, <3>3, DispatchAside
    <3> QED  BY <2>4, <3>1, <3>4, AsideTwice
  <2>8. Len(a) \in S
    BY <2>2, <2>6, <2>7, SetInduction
  <2>9. update(s) \in ProcessStates /\ Aside(base, update(s))
    BY <2>1, <2>2, <2>8
  <2> QED  BY <1>2, <2>9 DEF Updated, base
<1> QED  BY <1>1, <1>2

(* The pieces of what was fetched, and the calls they make up.             *)
LEMMA PiecesEffect ==
  ASSUME NEW ms \in Seq(Messages), NEW k \in 1 .. Len(ms),
         \A i \in 1 .. Len(ms) : ms[i].reply \in ServerCalls
  PROVE  /\ PiecesOf(ms, k) \in Seq(Pieces) /\ Len(PiecesOf(ms, k)) = 2 * k
         /\ \A i \in 1 .. k : PiecesOf(ms, k)[2 * i].frame = ms[i].reply
<1>1. k \in Nat /\ Len(ms) \in Nat /\ k <= Len(ms)
  BY LenProperties
<1>2. \A j \in 1 .. 2 * k : (j + 1) \div 2 \in 1 .. k /\ 2 - (j % 2) \in {1, 2}
  BY <1>1
<1>3. \A m \in ServerCalls : /\ Frame(m)[1] \in Pieces /\ Frame(m)[2] \in Pieces
                             /\ Frame(m)[2].frame = m
  BY DEF Frame, Pieces
<1> DEFINE piece(j) == Frame(ms[(j + 1) \div 2].reply)[2 - (j % 2)]
<1>4. ASSUME NEW j \in 1 .. 2 * k PROVE piece(j) \in Pieces
  <2> DEFINE i == (j + 1) \div 2
             n == 2 - (j % 2)
  <2>1. i \in 1 .. k /\ n \in {1, 2}
    BY <1>2
  <2> HIDE DEF i, n
  <2>2. ms[i].reply \in ServerCalls
    BY <1>1, <2>1
  <2>3. Frame(ms[i].reply)[n] \in Pieces
    BY <1>3, <2>1, <2>2
  <2> QED  BY <2>3 DEF i, n
<1>5. PiecesOf(ms, k) = [j \in 1 .. 2 * k |-> piece(j)]
  BY DEF PiecesOf
<1>6. ASSUME NEW i \in 1 .. k PROVE piece(2 * i).frame = ms[i].reply
  <2>1. (2 * i + 1) \div 2 = i /\ 2 - ((2 * i) % 2) = 2
    OBVIOUS
  <2>2. ms[i].reply \in ServerCalls
    BY <1>1
  <2> QED  BY <1>3, <2>1, <2>2
<1> HIDE DEF piece
<1>7. 2 * k \in Nat /\ \A i \in 1 .. k : 2 * i \in 1 .. 2 * k
  BY <1>1
<1> QED  BY <1>4, <1>5, <1>6, <1>7

-----------------------------------------------------------------------------
(* What a step of the server or of the network can do to a connection.     *)

(* What was received is kept, what was made does not become new, and what  *)
(* is down stays down.                                                     *)
LEMMA ServerMoves ==
  ASSUME IInv, [Next]_vars, NEW c \in Conns
  PROVE  /\ phase[c] # "idle" => phase'[c] # "idle" /\ (link'[c] => link[c])
         /\ Len(delivered[c]) <= Len(delivered'[c])
         /\ \A i \in 1 .. Len(delivered[c]) : delivered'[c][i] = delivered[c][i]
<1> USE DEF readVars, writeVars, mixinVars, logVars
<1>1. delivered[c] \in Seq(Messages) /\ Len(delivered[c]) \in Nat
  BY LenProperties DEF IInv, TypeOK
<1>2. CASE delivered' = delivered
  <2>1. /\ Len(delivered[c]) <= Len(delivered'[c])
        /\ \A i \in 1 .. Len(delivered[c]) : delivered'[c][i] = delivered[c][i]
    BY <1>1, <1>2
  <2>2. phase[c] # "idle" => phase'[c] # "idle" /\ (link'[c] => link[c])
    <3>1. ASSUME NEW d \in Conns,
                 \/ Connect(d) \/ FrameSizeArrives(d) \/ FrameDataArrives(d)
                 \/ ReadFails(d) \/ WriteFails(d) \/ OnWriteOk(d)
                 \/ OnWriteError(d) \/ Accept(d) \/ OnFrameSize(d)
                 \/ OnFrameData(d) \/ OnReadError(d) \/ TimesOut(d)
          PROVE  phase[c] # "idle" => phase'[c] # "idle" /\ (link'[c] => link[c])
      BY <3>1 DEF Connect, FrameSizeArrives, FrameDataArrives, ReadFails,
              WriteFails, OnWriteOk, OnWriteError, Accept, OnFrameSize,
              OnFrameData, OnReadError, TimesOut, IInv, TypeOK
    <3>2. ASSUME NEW d \in Conns, PeerLost(d) \/ WriteSucceeds(d)
          PROVE  phase[c] # "idle" => phase'[c] # "idle" /\ (link'[c] => link[c])
      BY <3>2 DEF PeerLost, WriteSucceeds, IInv, TypeOK
    <3>3. ASSUME AcceptError
          PROVE  phase[c] # "idle" => phase'[c] # "idle" /\ (link'[c] => link[c])
      BY <3>3 DEF AcceptError
    <3>4. ASSUME UNCHANGED vars
          PROVE  phase[c] # "idle" => phase'[c] # "idle" /\ (link'[c] => link[c])
      BY <3>4 DEF vars
    <3> QED  BY <3>1, <3>2, <3>3, <3>4
             DEF Next, Reactor, Handler, PeerDown, PeerVanishes
  <2> QED  BY <2>1, <2>2
<1>3. ASSUME NEW d \in Conns, PeerLost(d) \/ WriteSucceeds(d),
             delivered' # delivered
      PROVE  /\ phase[c] # "idle" => phase'[c] # "idle" /\ (link'[c] => link[c])
             /\ Len(delivered[c]) <= Len(delivered'[c])
             /\ \A i \in 1 .. Len(delivered[c]) :
                  delivered'[c][i] = delivered[c][i]
  <2>1. phase' = phase /\ (link'[c] => link[c])
    BY <1>3 DEF PeerLost, WriteSucceeds, IInv, TypeOK
  <2> DEFINE f == FrontString(outbound_messages_[d])
  <2>2. f \in Seq(Messages)
    BY FrontAndRest DEF IInv, TypeOK
  <2>3. \A k \in 0 .. Len(f) : SubSeq(f, 1, k) \in Seq(Messages)
    BY <2>2, SplitAt
  <2>4. \E t \in Seq(Messages) :
          delivered' = [delivered EXCEPT ![d] = @ \o t]
    BY <1>3, <2>2, <2>3 DEF PeerLost, WriteSucceeds
  <2>5. PICK t \in Seq(Messages) : delivered' = [delivered EXCEPT ![d] = @ \o t]
    BY <2>4
  <2>6. \/ delivered'[c] = delivered[c]
        \/ delivered'[c] = delivered[c] \o t
    BY <2>5 DEF IInv, TypeOK
  <2>7. /\ Len(t) \in Nat
        /\ Len(delivered[c] \o t) = Len(delivered[c]) + Len(t)
        /\ \A i \in 1 .. Len(delivered[c]) :
             (delivered[c] \o t)[i] = delivered[c][i]
    BY <1>1, Joined
  <2> QED  BY <1>1, <2>1, <2>6, <2>7
<1>4. delivered' = delivered
        \/ \E d \in Conns : PeerLost(d) \/ WriteSucceeds(d)
  BY DEF Next, Reactor, Handler, PeerDown, PeerVanishes, vars,
         Connect, FrameSizeArrives, FrameDataArrives, ReadFails, WriteFails,
         OnWriteOk, OnWriteError, Accept, OnFrameSize, OnFrameData,
         OnReadError, TimesOut, AcceptError
<1> QED  BY <1>2, <1>3, <1>4

-----------------------------------------------------------------------------
(* The inductive invariant of the system.                                  *)

(* What the server reads are the calls on the connection, in order; while  *)
(* it waits for the data of a frame, or knows the size, there is one left. *)
OnWire(req, wr, ph, rd) ==
  /\ IsPrefix(req, wr)
  /\ ph = "data" \/ (ph = "size" /\ rd = "ok") => Len(req) < Len(wr)

(* All that the server sends to talk clients are answers.                  *)
Kinds ==
  \A c \in Conns : \A i \in 1 .. Len(sent[c]) : sent[c][i].reply \in ServerCalls

(* A connection belongs to one client, and nothing was done with one that  *)
(* is not made yet.                                                        *)
Owns ==
  /\ \A p, q \in Clients : conn[p] = conn[q] /\ conn[p] \in Conns => p = q
  /\ \A p \in Clients : conn[p] \in Conns => phase[conn[p]] # "idle"
  /\ \A c \in Conns : phase[c] = "idle" =>
       /\ written[c] = <<>> /\ asked[c] = <<>>
       /\ heard[c] = <<>> /\ fetched[c] = 0

Held ==
  /\ SysTypeOK /\ fetched \in [Conns -> Nat]
  /\ Kinds /\ Owns
  /\ \A c \in Conns : OnWire(requests[c], written[c], phase[c], reading[c])

(* What a client that is connected has still to write makes up, with what  *)
(* is on the connection, the calls made on it: until the connection is     *)
(* down, which is when a write fails.                                      *)
CallsFit(s, up, ask, wr) ==
  s.failure = "none" /\ s.socket = "connected" =>
    /\ up => ask = wr \o Pending(s)
    /\ Lone(s.ready, {"write"}, Failed("write")) => ~up

(* What it fetched and has not dispatched, k answers being dispatched and  *)
(* n fetched, waits in the handler of its receive.                         *)
AnswersFit(s, ans, k, n) ==
  s.failure = "none" /\ s.socket = "connected" =>
    /\ GotOf(s.ready) = {} => n = k
    /\ \A got \in GotOf(s.ready) :
         /\ Len(got) = 2 * (n - k)
         /\ \A j \in 1 .. n - k : got[2 * j].frame = ans[k + j].reply

(* What was dispatched are the first of the answers that were fetched.     *)
HeardFit(ans, hd, n) ==
  Len(hd) <= n /\ \A i \in 1 .. Len(hd) : hd[i] = ans[i].reply

Fresh ==
  /\ \A p \in Clients : proc[p].failure = "none" => Placed(proc[p])
  /\ \A p \in Clients : conn[p] \in Conns =>
       /\ CallsFit(proc[p], link[conn[p]], asked[conn[p]], written[conn[p]])
       /\ AnswersFit(proc[p], delivered[conn[p]], Len(heard[conn[p]]),
                     fetched[conn[p]])
  /\ \A c \in Conns : /\ IsPrefix(written[c], asked[c])
                       /\ HeardFit(delivered[c], heard[c], fetched[c])

SInv == Held /\ (stray \/ Fresh)

(* What the peer has received are answers, which the server sent.          *)
LEMMA DeliveredKinds ==
  ASSUME TypeOK, StreamIntegrity, Kinds, NEW c \in Conns
  PROVE  /\ delivered[c] \in Seq(Messages) /\ Len(delivered[c]) \in Nat
         /\ sent[c] \in Seq(Messages) /\ Len(sent[c]) \in Nat
         /\ Len(delivered[c]) <= Len(sent[c])
         /\ \A i \in 1 .. Len(delivered[c]) :
              /\ delivered[c][i] = sent[c][i]
              /\ delivered[c][i].reply \in ServerCalls
<1>1. delivered[c] \in Seq(Messages) /\ sent[c] \in Seq(Messages)
  BY DEF TypeOK
<1>2. Len(delivered[c]) \in Nat /\ Len(sent[c]) \in Nat
  BY <1>1, LenProperties
<1>3. /\ Len(delivered[c]) <= Len(sent[c])
      /\ \A i \in 1 .. Len(delivered[c]) : delivered[c][i] = sent[c][i]
  BY <1>1, PrefixElements DEF StreamIntegrity
<1> QED  BY <1>1, <1>2, <1>3 DEF Kinds

(* Nothing is sent but what processing a frame sends.                      *)
LEMMA SentOnlyByProcess ==
  ASSUME SysNext \/ UNCHANGED sysVars,
         \A c \in Conns : ~ProcessFrame(c)
  PROVE  sent' = sent /\ requests' = requests
<1> USE DEF logVars
<1>1. CASE UNCHANGED sysVars
  BY <1>1 DEF sysVars, vars
<1>2. ASSUME NEW p \in Clients,
             \/ RunHandler(p) \/ ResolveCompletes(p) \/ ConnectSucceeds(p)
             \/ ReceiveSucceeds(p) \/ ReceiveFails(p)
             \/ CallSucceeds(p) \/ CallFails(p)
             \/ TimeElapses(p) \/ TimerExpires(p)
             \/ LineArrives(p) \/ Reset(p)
      PROVE  sent' = sent /\ requests' = requests
  <2>1. \/ UNCHANGED vars
        \/ \E c \in Conns : Connect(c)
        \/ PeerDown(conn[p])
    BY <1>2 DEF RunHandler, ResolveCompletes, ConnectSucceeds,
                ReceiveSucceeds, ReceiveFails, CallSucceeds, CallFails,
                TimeElapses, TimerExpires, LineArrives, Reset
  <2> QED  BY <2>1 DEF vars, Connect, PeerDown, PeerLost
<1>3. ASSUME NEW c \in Conns,
             \/ FrameArrives(c)
             \/ ServerReads(c) \/ ServerWrites(c) \/ ServerHandles(c)
      PROVE  sent' = sent /\ requests' = requests
  BY <1>3 DEF FrameArrives, ServerReads, ServerWrites, ServerHandles,
              FrameSizeArrives, FrameDataArrives, ReadFails, WriteSucceeds,
              WriteFails, OnWriteOk, OnWriteError, Accept, OnFrameSize,
              OnReadError
<1> QED  BY <1>1, <1>2, <1>3 DEF SysNext

(* Talk clients are answered, and nothing else.                            *)
LEMMA KindsStep ==
  ASSUME IInv, Held, SysNext \/ UNCHANGED sysVars
  PROVE  Kinds'
<1>1. CASE \A c \in Conns : ~ProcessFrame(c)
  BY <1>1, SentOnlyByProcess DEF Held, Kinds
<1>2. ASSUME NEW c \in Conns, ProcessFrame(c) PROVE Kinds'
  <2>1. PICK r \in Calls : /\ Process(c, r, [from |-> c,
                                             no |-> Len(requests[c]) + 1])
                           /\ requests' = [requests EXCEPT ![c] = Append(@, r)]
    BY <1>2 DEF ProcessFrame, OnFrameData, BeforeProcess
  <2>2. /\ requests \in [Conns -> Seq(Calls)] /\ written \in [Conns -> Seq(Requests)]
        /\ Len(requests[c]) \in Nat /\ Len(written[c]) \in Nat
        /\ requests[c] \in Seq(Calls) /\ written[c] \in Seq(Requests)
    <3>1. requests \in [Conns -> Seq(Calls)] /\ written \in [Conns -> Seq(Requests)]
      BY DEF Held, SysTypeOK, TypeOK
    <3> QED  BY <3>1, LenProperties
  <2>3. Len(requests[c]) < Len(written[c])
    BY <1>2 DEF Held, OnWire, ProcessFrame, OnFrameData
  <2>4. r = written[c][Len(requests[c]) + 1]
    <3>1. Append(requests[c], r)
            = Append(requests[c], written[c][Len(requests[c]) + 1])
      BY <1>2, <2>1, <2>2 DEF ProcessFrame
    <3>2. /\ Append(requests[c], r)[Len(requests[c]) + 1] = r
          /\ written[c][Len(requests[c]) + 1] \in Requests
      BY <2>2, <2>3, AppendProperties, ElementOfSeq
    <3>3. Append(requests[c], written[c][Len(requests[c]) + 1])[Len(requests[c]) + 1]
            = written[c][Len(requests[c]) + 1]
      OBVIOUS
    <3> QED  BY <3>1, <3>2, <3>3
  <2>5. r \in Requests
    BY <2>2, <2>3, <2>4, ElementOfSeq
  <2>6. r.call = "setUserName"
    BY <2>5 DEF Requests
  <2>7. PICK R \in SUBSET Conns, m \in Messages :
          Send(R, m) /\ m.reply \in ServerCalls
    <3>1. setUserName(c, r.name)
      BY <2>1, <2>6 DEF Process
    <3>2. clients_ \subseteq Conns
      BY DEF IInv, TypeOK
    <3>3. \A x \in {"on_setUserName_failed", "on_setUserName_succeeded"} :
            [reply |-> x] \in Messages /\ x \in ServerCalls
      BY DEF Messages, Replies, ServerCalls
    <3>4. \E x \in {"on_setUserName_failed", "on_setUserName_succeeded"},
             d \in Conns : Send({d}, [reply |-> x])
      BY <3>1, <3>2 DEF setUserName
    <3> QED  BY <3>3, <3>4
  <2>8. ASSUME NEW d \in Conns, NEW i \in 1 .. Len(sent'[d])
        PROVE  sent'[d][i].reply \in ServerCalls
    <3>1. sent[d] \in Seq(Messages) /\ Len(sent[d]) \in Nat
      BY LenProperties DEF IInv, TypeOK
    <3>2. /\ Len(Append(sent[d], m)) = Len(sent[d]) + 1
          /\ \A j \in 1 .. Len(sent[d]) : Append(sent[d], m)[j] = sent[d][j]
          /\ Append(sent[d], m)[Len(sent[d]) + 1] = m
      BY <3>1, AppendProperties
    <3>3. sent'[d] = sent[d] \/ sent'[d] = Append(sent[d], m)
      BY <2>7 DEF Send
    <3>4. CASE sent'[d] = sent[d]
      BY <3>4 DEF Held, Kinds
    <3>5. CASE sent'[d] = Append(sent[d], m)
      <4>1. i \in 1 .. Len(sent[d]) \/ i = Len(sent[d]) + 1
        BY <3>1, <3>2, <3>5
      <4>2. CASE i \in 1 .. Len(sent[d])
        <5>1. sent'[d][i] = sent[d][i]
          BY <3>2, <3>5, <4>2
        <5> QED  BY <4>2, <5>1 DEF Held, Kinds
      <4>3. CASE i = Len(sent[d]) + 1
        BY <2>7, <3>2, <3>5, <4>3
      <4> QED  BY <4>1, <4>2, <4>3
    <3> QED  BY <3>3, <3>4, <3>5
  <2> QED  BY <2>8 DEF Kinds
<1> QED  BY <1>1, <1>2

(* One more of the calls that are there.                                   *)
LEMMA PrefixNext ==
  ASSUME NEW S, NEW s \in Seq(S), NEW t \in Seq(S), IsPrefix(s, t),
         Len(s) < Len(t)
  PROVE  IsPrefix(Append(s, t[Len(s) + 1]), t)
<1>1. Len(s) \in Nat /\ Len(t) \in Nat
  BY LenProperties
<1>2. t[Len(s) + 1] \in S
  BY <1>1, ElementOfSeq
<1> DEFINE u == Append(s, t[Len(s) + 1])
<1>3. /\ u \in Seq(S) /\ Len(u) = Len(s) + 1
      /\ \A i \in 1 .. Len(s) : u[i] = s[i]
      /\ u[Len(s) + 1] = t[Len(s) + 1]
  BY <1>1, <1>2, AppendProperties
<1>4. \A i \in 1 .. Len(s) : s[i] = t[i]
  BY PrefixElements
<1> HIDE DEF u
<1>5. Len(u) <= Len(t) /\ \A i \in 1 .. Len(u) : u[i] = t[i]
  BY <1>1, <1>3, <1>4
<1>6. IsPrefix(u, t)
  BY <1>3, <1>5, PrefixElements
<1> QED  BY <1>6 DEF u

(* A frame starts to arrive only if a call is on the wire, and what waits  *)
(* for the rest of one waited for it before.                               *)
LEMMA FramesOnWire ==
  ASSUME IInv, RInv, SysNext \/ UNCHANGED sysVars, NEW c \in Conns,
         phase'[c] = "data" \/ (phase'[c] = "size" /\ reading'[c] = "ok")
  PROVE  /\ \/ phase[c] = "data" \/ (phase[c] = "size" /\ reading[c] = "ok")
            \/ Len(requests[c]) < Len(written[c])
         /\ ~ProcessFrame(c)
<1> USE DEF readVars, writeVars, mixinVars, logVars
<1>1. /\ phase \in [Conns -> Phases] /\ reading \in [Conns -> Outcomes]
      /\ socket_open \in [Conns -> BOOLEAN]
  BY DEF IInv, TypeOK
<1>2. ~ProcessFrame(c)
  BY <1>1 DEF ProcessFrame, OnFrameData, Started
<1>3. SUFFICES ASSUME phase'[c] # phase[c] \/ reading'[c] # reading[c]
               PROVE  \/ phase[c] = "data"
                      \/ phase[c] = "size" /\ reading[c] = "ok"
                      \/ Len(requests[c]) < Len(written[c])
  BY <1>2
<1>4. CASE UNCHANGED sysVars
  BY <1>3, <1>4 DEF sysVars, vars
<1>5. ASSUME NEW p \in Clients,
             \/ RunHandler(p) \/ ResolveCompletes(p) \/ ConnectSucceeds(p)
             \/ ReceiveSucceeds(p) \/ ReceiveFails(p)
             \/ CallSucceeds(p) \/ CallFails(p)
             \/ TimeElapses(p) \/ TimerExpires(p)
             \/ LineArrives(p) \/ Reset(p)
      PROVE  FALSE
  <2>1. \/ UNCHANGED vars
        \/ \E d \in Conns : Connect(d)
        \/ PeerDown(conn[p])
    BY <1>5 DEF RunHandler, ResolveCompletes, ConnectSucceeds,
                ReceiveSucceeds, ReceiveFails, CallSucceeds, CallFails,
                TimeElapses, TimerExpires, LineArrives, Reset
  <2>2. CASE UNCHANGED vars \/ PeerDown(conn[p])
    BY <1>3, <2>2 DEF vars, PeerDown, PeerLost
  <2>3. ASSUME NEW d \in Conns, Connect(d) PROVE FALSE
    BY <1>1, <1>3, <2>3 DEF Connect
  <2> QED  BY <2>1, <2>2, <2>3
<1>6. ASSUME NEW d \in Conns,
             \/ FrameArrives(d) \/ ProcessFrame(d)
             \/ ServerReads(d) \/ ServerWrites(d) \/ ServerHandles(d)
      PROVE  \/ phase[c] = "data"
             \/ phase[c] = "size" /\ reading[c] = "ok"
             \/ Len(requests[c]) < Len(written[c])
  <2>1. CASE FrameArrives(d)
    BY <1>1, <1>3, <2>1 DEF FrameArrives, FrameSizeArrives
  <2>2. CASE ProcessFrame(d)
    BY <1>1, <1>2, <1>3, <2>2 DEF ProcessFrame, OnFrameData
  <2>3. CASE ServerReads(d)
    BY <1>1, <1>3, <2>3 DEF ServerReads, FrameDataArrives, ReadFails
  <2>4. CASE ServerWrites(d)
    BY <1>1, <1>3, <2>4 DEF ServerWrites, WriteSucceeds, WriteFails,
                            OnWriteOk, OnWriteError
  <2>5. CASE ServerHandles(d)
    <3>1. CASE Accept(d)
      <4>1. reading[d] # "ok" /\ reading' = reading
        BY <3>1 DEF Accept, RInv, NothingReadBeforeAccept
      <4> QED  BY <1>1, <1>3, <3>1, <4>1 DEF Accept
    <3>2. CASE OnFrameSize(d) \/ OnReadError(d)
      BY <1>1, <1>3, <3>2 DEF OnFrameSize, OnReadError
    <3> QED  BY <2>5, <3>1, <3>2 DEF ServerHandles
  <2> QED  BY <1>6, <2>1, <2>2, <2>3, <2>4, <2>5
<1> QED  BY <1>4, <1>5, <1>6 DEF SysNext

LEMMA WireStep ==
  ASSUME IInv, RInv, Held, SysNext \/ UNCHANGED sysVars, NEW c \in Conns
  PROVE  OnWire(requests'[c], written'[c], phase'[c], reading'[c])
<1> DEFINE S == Calls \cup Requests
<1>1. /\ requests[c] \in Seq(S) /\ written[c] \in Seq(S)
      /\ written[c] \in Seq(Requests) /\ requests[c] \in Seq(Calls)
  <2>1. written[c] \in Seq(Requests) /\ requests[c] \in Seq(Calls)
    BY DEF Held, SysTypeOK, TypeOK
  <2> QED  BY <2>1, SeqMonotonic
<1>2. Len(requests[c]) \in Nat /\ Len(written[c]) \in Nat
  BY <1>1, LenProperties
<1>3. OnWire(requests[c], written[c], phase[c], reading[c])
  BY DEF Held
<1> HIDE DEF S
<1>4. CASE ProcessFrame(c)
  <2>1. /\ Len(requests[c]) < Len(written[c]) /\ written'[c] = written[c]
        /\ requests'[c] = Append(requests[c], written[c][Len(requests[c]) + 1])
    BY <1>3, <1>4 DEF OnWire, ProcessFrame, OnFrameData, clientVars
  <2>2. ~(phase'[c] = "data" \/ (phase'[c] = "size" /\ reading'[c] = "ok"))
    BY <1>4, FramesOnWire
  <2>3. IsPrefix(requests'[c], written'[c])
    BY <1>1, <1>3, <2>1, PrefixNext DEF OnWire
  <2> QED  BY <2>2, <2>3 DEF OnWire
<1>5. CASE ~ProcessFrame(c)
  <2>1. requests'[c] = requests[c]
    <3>1. CASE \E d \in Conns : ProcessFrame(d)
      <4>1. PICK d \in Conns \ {c} : ProcessFrame(d)
        BY <1>5, <3>1
      <4> QED  BY <4>1 DEF ProcessFrame, OnFrameData, Held, SysTypeOK, TypeOK
    <3>2. CASE \A d \in Conns : ~ProcessFrame(d)
      BY <3>2, SentOnlyByProcess
    <3> QED  BY <3>1, <3>2
  <2>2. \/ written' = written
        \/ \E p \in Clients : CallSucceeds(p)
    BY DEF SysNext, sysVars, clientVars, RunHandler, ResolveCompletes, ConnectSucceeds,
           ReceiveSucceeds, ReceiveFails, CallSucceeds, CallFails,
           TimeElapses, TimerExpires, LineArrives, Reset, FrameArrives,
           ProcessFrame, ServerReads, ServerWrites, ServerHandles
  <2>3. \E t \in Seq(Requests) : \/ written'[c] = written[c]
                                 \/ written'[c] = written[c] \o t
    <3>1. CASE written' = written
      BY <3>1, EmptySeq
    <3>2. ASSUME NEW p \in Clients, CallSucceeds(p) PROVE <2>3
      <4> DEFINE t == FrontString(proc[p].outbound_messages_)
      <4>1. t \in Seq(Requests)
        <5>1. proc[p] \in ProcessStates
          BY DEF Held, SysTypeOK
        <5>2. proc[p].outbound_messages_ \in Queues(Requests)
          BY <5>1 DEF ProcessStates
        <5> QED  BY <5>2, FrontAndRest
      <4>2. \/ written'[c] = written[c]
            \/ written'[c] = written[c] \o t
        BY <3>2 DEF CallSucceeds, Held, SysTypeOK
      <4> QED  BY <4>1, <4>2
    <3> QED  BY <2>2, <3>1, <3>2
  <2>4. PICK t \in Seq(Requests) : \/ written'[c] = written[c]
                                   \/ written'[c] = written[c] \o t
    BY <2>3
  <2>5. /\ written'[c] \in Seq(S) /\ Len(written'[c]) \in Nat
        /\ Len(written[c]) <= Len(written'[c])
        /\ \A i \in 1 .. Len(written[c]) : written'[c][i] = written[c][i]
    <3>1. t \in Seq(S)
      BY SeqMonotonic DEF S
    <3>2. /\ written[c] \o t \in Seq(S) /\ Len(t) \in Nat
          /\ Len(written[c] \o t) = Len(written[c]) + Len(t)
          /\ \A i \in 1 .. Len(written[c]) : (written[c] \o t)[i] = written[c][i]
      BY <1>1, <3>1, Joined
    <3>3. CASE written'[c] = written[c]
      BY <1>1, <1>2, <3>3
    <3>4. CASE written'[c] = written[c] \o t
      BY <1>2, <3>2, <3>4
    <3> QED  BY <2>4, <3>3, <3>4
  <2>6. IsPrefix(requests'[c], written'[c])
    <3>1. /\ Len(requests[c]) <= Len(written[c])
          /\ \A i \in 1 .. Len(requests[c]) : requests[c][i] = written[c][i]
      <4>1. IsPrefix(requests[c], written[c])
        BY <1>3 DEF OnWire
      <4> QED  BY <1>1, <4>1, PrefixElements
    <3>2. /\ Len(requests[c]) <= Len(written'[c])
          /\ \A i \in 1 .. Len(requests[c]) : requests[c][i] = written'[c][i]
      BY <1>2, <2>5, <3>1
    <3> QED  BY <1>1, <2>1, <2>5, <3>2, PrefixElements
  <2>7. phase'[c] = "data" \/ (phase'[c] = "size" /\ reading'[c] = "ok")
          => Len(requests'[c]) < Len(written'[c])
    BY <1>2, <1>3, <2>1, <2>5, FramesOnWire DEF OnWire
  <2> QED  BY <2>6, <2>7 DEF OnWire
<1> QED  BY <1>4, <1>5

-----------------------------------------------------------------------------
(* What the steps of a client are, in the terms of ClientProcessProofs.    *)
LEMMA RunEffect ==
  ASSUME Held, NEW p \in Clients, RunHandler(p)
  PROVE  LET s == proc[p]
             u == Handled(s)
             c == conn[p]
         IN  /\ s \in ProcessStates /\ u \in ProcessStates
             /\ s.ready # <<>> /\ s.failure = "none"
             /\ update(u) \in ProcessStates /\ Updated(u, update(u))
             /\ proc' = [proc EXCEPT ![p] = update(u)]
             /\ asked' = IF Called(s) /\ Connected(p)
                           THEN [asked EXCEPT ![c] =
                                   Append(@, Last(u.outbound_messages_.msgs))]
                           ELSE asked
             /\ Called(s) => Last(u.outbound_messages_.msgs) \in Requests
             /\ stray' = (stray \/ (Called(s) /\ ~Connected(p)))
             /\ heard' = IF isOpen(u) /\ Arrived(u) # <<>>
                           THEN [heard EXCEPT ![c] = @ \o Arrived(u)]
                           ELSE heard
             /\ conn' = conn /\ written' = written /\ fetched' = fetched
             /\ lines' = lines /\ blank' = blank /\ resets' = resets
             /\ delivered' = delivered
             /\ \/ PeerDown(c) /\ c \in Conns /\ u.socket # "connected"
                \/ UNCHANGED vars
<1> DEFINE s == proc[p]
           u == Handled(s)
<1>1. s \in ProcessStates /\ s.ready # <<>> /\ s.failure = "none"
  BY DEF Held, SysTypeOK, RunHandler, Running
<1>2. u \in ProcessStates /\ update(u) \in ProcessStates /\ Updated(u, update(u))
  BY <1>1, NextFields, UpdateEffect
<1>3. Handle([proc[p] EXCEPT !.ready = Tail(@)], Head(proc[p].ready)) = u
  BY DEF Handled, Next1
<1>4. Called(s) => Last(u.outbound_messages_.msgs) \in Requests
  <2>1. u.outbound_messages_ \in Queues(Requests)
    BY <1>2 DEF ProcessStates
  <2>2. s.outbound_messages_ \in Queues(Requests)
    BY <1>1 DEF ProcessStates
  <2>3. /\ u.outbound_messages_.msgs \in Seq(Requests)
        /\ Len(u.outbound_messages_.msgs) \in Nat
        /\ Len(s.outbound_messages_.msgs) \in Nat
    BY <2>1, <2>2, LenProperties DEF Queues
  <2> QED  BY <2>3, ElementOfSeq DEF Called, Last
<1>5. Called(s) <=> Len(u.outbound_messages_.msgs)
                      > Len(proc[p].outbound_messages_.msgs)
  BY DEF Called
<1> HIDE DEF u
<1>6. /\ proc' = [proc EXCEPT ![p] = update(u)]
      /\ asked' = IF Called(s) /\ Connected(p)
                    THEN [asked EXCEPT ![conn[p]] =
                            Append(@, Last(u.outbound_messages_.msgs))]
                    ELSE asked
      /\ stray' = (stray \/ (Called(s) /\ ~Connected(p)))
      /\ heard' = IF isOpen(u) /\ Arrived(u) # <<>>
                    THEN [heard EXCEPT ![conn[p]] = @ \o Arrived(u)]
                    ELSE heard
  BY <1>3, <1>5 DEF RunHandler, Becomes
<1>7. /\ conn' = conn /\ written' = written /\ fetched' = fetched
      /\ lines' = lines /\ blank' = blank /\ resets' = resets
      /\ delivered' = delivered
  BY DEF RunHandler, vars, logVars
<1>8. \/ PeerDown(conn[p]) /\ conn[p] \in Conns /\ u.socket # "connected"
      \/ UNCHANGED vars
  BY <1>3 DEF RunHandler, Connected
<1> QED  BY <1>1, <1>2, <1>4, <1>6, <1>7, <1>8 DEF u

(* A completion posts a handler.                                           *)
LEMMA PostType ==
  ASSUME NEW s \in ProcessStates, NEW h \in Handlers
  PROVE  /\ [Post(s, h) EXCEPT !.resolving = FALSE] \in ProcessStates
         /\ [Post(s, h) EXCEPT !.connecting = FALSE,
                               !.socket = "connected"] \in ProcessStates
         /\ s.receiving > 0 => [Post(s, h) EXCEPT !.receiving = @ - 1] \in ProcessStates
         /\ [Post(s, h) EXCEPT !.writing = FALSE] \in ProcessStates
         /\ [Post(s, h) EXCEPT !.timer = "off"] \in ProcessStates
         /\ [s EXCEPT !.timer = "elapsing"] \in ProcessStates
<1>1. Post(s, h) \in ProcessStates /\ Post(s, h).receiving = s.receiving
  BY PostFields
<1> DEFINE t == Post(s, h)
<1>2. t \in ProcessStates /\ t.receiving = s.receiving
  BY <1>1
<1> HIDE DEF t
<1>3. /\ [t EXCEPT !.resolving = FALSE] \in ProcessStates
      /\ [t EXCEPT !.connecting = FALSE,
                   !.socket = "connected"] \in ProcessStates
  BY ZenonT(60), <1>2 DEF ProcessStates
<1>5. /\ [t EXCEPT !.writing = FALSE] \in ProcessStates
      /\ [t EXCEPT !.timer = "off"] \in ProcessStates
  BY <1>2 DEF ProcessStates
<1>6. [s EXCEPT !.timer = "elapsing"] \in ProcessStates
  BY DEF ProcessStates
<1>4. s.receiving > 0 => [t EXCEPT !.receiving = @ - 1] \in ProcessStates
  <2>1. s.receiving \in Nat
    BY DEF ProcessStates
  <2>2. s.receiving > 0 => t.receiving - 1 \in Nat
    BY <1>2, <2>1
  <2> QED  BY <1>2, <2>2 DEF ProcessStates
<1> QED  BY <1>3, <1>4, <1>5, <1>6 DEF t

(* What a client fetches are answers, whole ones.                          *)
LEMMA FetchEffect ==
  ASSUME IInv, StreamIntegrity, Held, NEW p \in Clients, ReceiveSucceeds(p)
  PROVE  LET c == conn[p]
             new == SubSeq(delivered[c], fetched[c] + 1, Len(delivered[c]))
         IN  /\ c \in Conns /\ Len(new) = Len(delivered[c]) - fetched[c]
             /\ \E k \in 1 .. Len(new) :
                  /\ fetched' = [fetched EXCEPT ![c] = @ + k]
                  /\ fetched[c] + k <= Len(delivered[c])
                  /\ Becomes(p, [Post(proc[p], Received(PiecesOf(new, k)))
                                   EXCEPT !.receiving = @ - 1])
                  /\ PiecesOf(new, k) \in Seq(Pieces)
                  /\ Len(PiecesOf(new, k)) = 2 * k
                  /\ \A i \in 1 .. k :
                       PiecesOf(new, k)[2 * i].frame
                         = delivered[c][fetched[c] + i].reply
<1> DEFINE c == conn[p]
           d == delivered[c]
           n == fetched[c]
           new == SubSeq(d, n + 1, Len(d))
<1>1. c \in Conns
  BY DEF ReceiveSucceeds, Connected
<1>2. /\ d \in Seq(Messages) /\ Len(d) \in Nat
      /\ \A i \in 1 .. Len(d) : d[i].reply \in ServerCalls
  BY <1>1, DeliveredKinds DEF Held, IInv
<1>3. n \in Nat /\ n <= Len(d)
  BY <1>1 DEF Held, SysTypeOK
<1>4. PICK k \in 1 .. Len(new) :
        /\ fetched' = [fetched EXCEPT ![c] = @ + k]
        /\ Becomes(p, [Post(proc[p], Received(PiecesOf(new, k)))
                         EXCEPT !.receiving = @ - 1])
  BY DEF ReceiveSucceeds
<1> HIDE DEF d, n
<1>5. /\ new \in Seq(Messages) /\ Len(new) = Len(d) - n
      /\ \A i \in 1 .. Len(d) - n : new[i] = d[n + i]
  <2>1. CASE n = Len(d)
    <3>1. new = <<>>
      BY <1>2, <2>1, SubSeqEmpty
    <3> QED  BY <1>2, <2>1, <3>1, EmptySeq
  <2>2. CASE n < Len(d)
    BY <1>2, <1>3, <2>2, SubSeqProperties
  <2> QED  BY <1>2, <1>3, <2>1, <2>2
<1> HIDE DEF new
<1>6. /\ k \in Nat /\ k >= 1 /\ k <= Len(d) - n /\ n + k <= Len(d)
      /\ k \in 1 .. Len(new)
  BY <1>2, <1>3, <1>4, <1>5
<1>7. \A i \in 1 .. Len(new) : new[i].reply \in ServerCalls
  BY <1>2, <1>3, <1>5
<1>8. /\ PiecesOf(new, k) \in Seq(Pieces) /\ Len(PiecesOf(new, k)) = 2 * k
      /\ \A i \in 1 .. k : PiecesOf(new, k)[2 * i].frame = new[i].reply
  BY <1>5, <1>6, <1>7, PiecesEffect
<1>9. \A i \in 1 .. k : PiecesOf(new, k)[2 * i].frame = d[n + i].reply
  BY SMTT(30), <1>2, <1>3, <1>5, <1>6, <1>8
<1> HIDE DEF c
<1>10. \E x \in 1 .. Len(new) :
         /\ fetched' = [fetched EXCEPT ![c] = @ + x]
         /\ n + x <= Len(d)
         /\ Becomes(p, [Post(proc[p], Received(PiecesOf(new, x)))
                          EXCEPT !.receiving = @ - 1])
         /\ PiecesOf(new, x) \in Seq(Pieces)
         /\ Len(PiecesOf(new, x)) = 2 * x
         /\ \A i \in 1 .. x : PiecesOf(new, x)[2 * i].frame = d[n + i].reply
  BY <1>4, <1>6, <1>8, <1>9
<1> QED  BY <1>1, <1>5, <1>10 DEF c, d, n, new

-----------------------------------------------------------------------------
(* The types are kept.                                                     *)
ClientTypes ==
  /\ proc \in [Clients -> ProcessStates]
  /\ conn \in [Clients -> Conns \cup {NoClient}]
  /\ written \in [Conns -> Seq(Requests)]
  /\ asked \in [Conns -> Seq(Requests)]
  /\ fetched \in [Conns -> Nat]
  /\ heard \in [Conns -> Seq(ServerCalls)]
  /\ stray \in BOOLEAN
  /\ lines \in 0 .. MaxLines /\ blank \in SUBSET Clients /\ resets \in 0 .. MaxResets

LEMMA HeldTypes ==
  Held => /\ TypeOK /\ ClientTypes
          /\ \A c \in Conns : fetched[c] <= Len(delivered[c])
<1> SUFFICES ASSUME Held PROVE /\ TypeOK /\ ClientTypes
                               /\ \A c \in Conns : fetched[c] <= Len(delivered[c])
  OBVIOUS
<1>1. SysTypeOK /\ fetched \in [Conns -> Nat]
  BY DEF Held
<1>2. \A c \in Conns : fetched[c] <= Len(delivered[c])
  <2> SUFFICES ASSUME NEW c \in Conns PROVE fetched[c] <= Len(delivered[c])
    OBVIOUS
  <2>1. fetched[c] \in 0 .. Len(delivered[c])
    BY <1>1 DEF SysTypeOK
  <2>2. Len(delivered[c]) \in Nat
    BY <1>1, LenProperties DEF SysTypeOK, TypeOK
  <2> QED  BY <2>1, <2>2
<1> QED  BY <1>1, <1>2 DEF SysTypeOK, ClientTypes

LEMMA RunTypes ==
  ASSUME Held, NEW p \in Clients, RunHandler(p)
  PROVE  ClientTypes' /\ fetched' = fetched
<1> DEFINE s == proc[p]
           u == Handled(s)
           m == Last(u.outbound_messages_.msgs)
<1>1. ClientTypes
  BY HeldTypes
<1>2. /\ u \in ProcessStates /\ update(u) \in ProcessStates
      /\ proc' = [proc EXCEPT ![p] = update(u)]
      /\ asked' = IF Called(s) /\ Connected(p)
                    THEN [asked EXCEPT ![conn[p]] = Append(@, m)]
                    ELSE asked
      /\ Called(s) => m \in Requests
      /\ stray' = (stray \/ (Called(s) /\ ~Connected(p)))
      /\ heard' = IF isOpen(u) /\ Arrived(u) # <<>>
                    THEN [heard EXCEPT ![conn[p]] = @ \o Arrived(u)]
                    ELSE heard
      /\ conn' = conn /\ written' = written /\ fetched' = fetched
      /\ lines' = lines /\ blank' = blank /\ resets' = resets
  BY RunEffect
<1>3. Arrived(u) \in Seq(ServerCalls)
  BY <1>2, ArrivedType
<1> HIDE DEF m, u
<1>4. proc' \in [Clients -> ProcessStates]
  BY <1>1, <1>2 DEF ClientTypes
<1>5. asked' \in [Conns -> Seq(Requests)]
  <2>1. \A c \in Conns : Called(s) => Append(asked[c], m) \in Seq(Requests)
    BY <1>1, <1>2, AppendProperties DEF ClientTypes
  <2> QED  BY <1>1, <1>2, <2>1 DEF ClientTypes
<1>6. heard' \in [Conns -> Seq(ServerCalls)]
  <2>1. \A c \in Conns : heard[c] \o Arrived(u) \in Seq(ServerCalls)
    BY <1>1, <1>3, ConcatProperties DEF ClientTypes
  <2> QED  BY <1>1, <1>2, <2>1 DEF ClientTypes
<1> QED  BY <1>1, <1>2, <1>4, <1>5, <1>6 DEF ClientTypes

LEMMA StepTypes ==
  ASSUME IInv, StreamIntegrity, Held, SysNext \/ UNCHANGED sysVars
  PROVE  ClientTypes' /\ \A c \in Conns : fetched'[c] <= Len(delivered[c])
<1>1. /\ ClientTypes /\ \A c \in Conns : fetched[c] <= Len(delivered[c])
  BY HeldTypes
<1>2. CASE UNCHANGED clientVars
  BY <1>1, <1>2 DEF clientVars, ClientTypes
<1>3. ASSUME NEW p \in Clients, RunHandler(p)
      PROVE  ClientTypes' /\ \A c \in Conns : fetched'[c] <= Len(delivered[c])
  BY <1>1, <1>3, RunTypes
<1>4. ASSUME NEW p \in Clients
      PROVE  /\ proc[p] \in ProcessStates
             /\ \A h \in Handlers : Post(proc[p], h) \in ProcessStates
             /\ \A op \in Ops : Done(op) \in Handlers /\ Failed(op) \in Handlers
  BY <1>1, PostFields, HandlerTypes DEF ClientTypes
<1>5. ASSUME NEW p \in Clients,
             \/ ResolveCompletes(p) \/ ReceiveFails(p) \/ CallFails(p)
             \/ TimeElapses(p) \/ TimerExpires(p)
      PROVE  ClientTypes' /\ \A c \in Conns : fetched'[c] <= Len(delivered[c])
  <2>1. /\ \A op \in Ops : Done(op) \in Handlers /\ Failed(op) \in Handlers
        /\ proc[p] \in ProcessStates
    BY <1>4
  <2>2. \E t \in ProcessStates : proc' = [proc EXCEPT ![p] = t]
    BY <1>5, <2>1, PostType
       DEF ResolveCompletes, ReceiveFails, CallFails, TimeElapses,
           TimerExpires, Becomes, Ops
  <2>3. UNCHANGED <<conn, written, fetched, asked, heard, stray, lines, blank, resets>>
    BY <1>5 DEF ResolveCompletes, ReceiveFails, CallFails, TimeElapses,
                TimerExpires
  <2> QED  BY <1>1, <2>2, <2>3 DEF ClientTypes
<1>6. ASSUME NEW p \in Clients, ConnectSucceeds(p)
      PROVE  ClientTypes' /\ \A c \in Conns : fetched'[c] <= Len(delivered[c])
  <2>1. PICK c \in Conns :
          /\ conn' = [conn EXCEPT ![p] = c]
          /\ asked' = IF proc[p].writing
                        THEN [asked EXCEPT ![c] = proc[p].outbound_messages_.msgs]
                        ELSE asked
    BY <1>6 DEF ConnectSucceeds
  <2>2. proc[p].outbound_messages_.msgs \in Seq(Requests)
    BY <1>4 DEF ProcessStates, Queues
  <2>3. \E t \in ProcessStates : proc' = [proc EXCEPT ![p] = t]
    BY <1>4, <1>6, PostType DEF ConnectSucceeds, Becomes, Ops
  <2>4. UNCHANGED <<written, fetched, heard, stray, lines, blank, resets>>
    BY <1>6 DEF ConnectSucceeds
  <2> QED  BY <1>1, <2>1, <2>2, <2>3, <2>4 DEF ClientTypes
<1>7. ASSUME NEW p \in Clients, ReceiveSucceeds(p)
      PROVE  ClientTypes' /\ \A c \in Conns : fetched'[c] <= Len(delivered[c])
  <2> DEFINE c == conn[p]
             new == SubSeq(delivered[c], fetched[c] + 1, Len(delivered[c]))
  <2>1. c \in Conns /\ Len(new) = Len(delivered[c]) - fetched[c]
    BY <1>7, FetchEffect
  <2>2. PICK k \in 1 .. Len(new) :
          /\ fetched' = [fetched EXCEPT ![c] = @ + k]
          /\ fetched[c] + k <= Len(delivered[c])
          /\ Becomes(p, [Post(proc[p], Received(PiecesOf(new, k)))
                           EXCEPT !.receiving = @ - 1])
          /\ PiecesOf(new, k) \in Seq(Pieces)
    BY <1>7, FetchEffect
  <2>3. fetched[c] \in Nat /\ Len(delivered[c]) \in Nat /\ k \in Nat
    BY <2>1, <1>1, LenProperties DEF IInv, TypeOK, ClientTypes
  <2> HIDE DEF new
  <2>4. Received(PiecesOf(new, k)) \in Handlers
    BY <2>2, HandlerTypes
  <2>5. proc[p].receiving > 0
    BY <1>7 DEF ReceiveSucceeds
  <2>6. \E t \in ProcessStates : proc' = [proc EXCEPT ![p] = t]
    BY <1>4, <2>2, <2>4, <2>5, PostType DEF Becomes
  <2>7. UNCHANGED <<conn, written, asked, heard, stray, lines, blank, resets>>
    BY <1>7 DEF ReceiveSucceeds
  <2> HIDE DEF c
  <2>8. /\ fetched' \in [Conns -> Nat]
        /\ \A d \in Conns : fetched'[d] <= Len(delivered[d])
    <3>1. fetched \in [Conns -> Nat]
      BY <1>1 DEF ClientTypes
    <3>2. fetched[c] + k \in Nat
      BY <2>3
    <3>3. fetched' \in [Conns -> Nat]
      BY <2>1, <2>2, <3>1, <3>2
    <3>4. ASSUME NEW d \in Conns PROVE fetched'[d] <= Len(delivered[d])
      <4>1. CASE d = c
        BY <2>1, <2>2, <3>1, <4>1
      <4>2. CASE d # c
        BY <1>1, <2>1, <2>2, <3>1, <4>2
      <4> QED  BY <4>1, <4>2
    <3> QED  BY <3>3, <3>4
  <2> QED  BY <1>1, <2>6, <2>7, <2>8 DEF ClientTypes
<1>8. ASSUME NEW p \in Clients, CallSucceeds(p)
      PROVE  ClientTypes' /\ \A c \in Conns : fetched'[c] <= Len(delivered[c])
  <2>1. \E t \in ProcessStates : proc' = [proc EXCEPT ![p] = t]
    BY <1>4, <1>8, PostType DEF CallSucceeds, Becomes, Ops
  <2>2. UNCHANGED <<conn, fetched, asked, heard, stray, lines, blank, resets>>
    BY <1>8 DEF CallSucceeds
  <2> DEFINE f == FrontString(proc[p].outbound_messages_)
  <2>3. f \in Seq(Requests)
    <3>1. proc[p].outbound_messages_ \in Queues(Requests)
      BY <1>4 DEF ProcessStates
    <3> QED  BY <3>1, FrontAndRest
  <2>4. written' = written
          \/ written' = [written EXCEPT ![conn[p]] = @ \o f]
    BY <1>8 DEF CallSucceeds
  <2> HIDE DEF f
  <2>5. \A c \in Conns : written[c] \o f \in Seq(Requests)
    BY <1>1, <2>3, ConcatProperties DEF ClientTypes
  <2>6. written' \in [Conns -> Seq(Requests)]
    <3>1. written \in [Conns -> Seq(Requests)]
      BY <1>1 DEF ClientTypes
    <3> QED  BY <2>4, <2>5, <3>1
  <2> QED  BY <1>1, <2>1, <2>2, <2>6 DEF ClientTypes
<1>9. ASSUME NEW p \in Clients, LineArrives(p)
      PROVE  ClientTypes' /\ \A c \in Conns : fetched'[c] <= Len(delivered[c])
  <2>1. PICK line \in Lines :
          /\ Becomes(p, [Post(proc[p], LineRead(Head(proc[p].stdin).prompt, line))
                           EXCEPT !.stdin = Tail(@),
                                  !.input_buffer_ = Append(@, line)])
          /\ blank' = IF line = NoText THEN blank \cup {p} ELSE blank
    BY <1>9 DEF LineArrives
  <2>2. line \in Lines
    BY <2>1
  <2>3. proc[p].stdin # <<>>
    BY <1>9 DEF LineArrives
  <2>4. \E t \in ProcessStates : proc' = [proc EXCEPT ![p] = t]
    BY <1>4, <2>1, <2>2, <2>3, LineAside DEF Becomes
  <2>5. /\ UNCHANGED <<conn, written, fetched, asked, heard, stray, resets>>
        /\ lines' = lines + 1 /\ lines < MaxLines
    BY <1>9 DEF LineArrives
  <2>6. MaxLines \in Nat
    BY SystemBoundsAssumption
  <2>7. blank' \in SUBSET Clients
    BY <1>1, <2>1 DEF ClientTypes
  <2> QED  BY <1>1, <2>4, <2>5, <2>6, <2>7 DEF ClientTypes
<1>10. ASSUME NEW p \in Clients, Reset(p)
       PROVE  ClientTypes' /\ \A c \in Conns : fetched'[c] <= Len(delivered[c])
  <2>1. MaxResets \in Nat
    BY SystemBoundsAssumption
  <2> QED  BY <1>1, <1>10, <2>1 DEF Reset, ClientTypes
<1>11. ASSUME NEW c \in Conns,
              \/ FrameArrives(c) \/ ProcessFrame(c)
              \/ ServerReads(c) \/ ServerWrites(c) \/ ServerHandles(c)
       PROVE  UNCHANGED clientVars
  BY <1>11 DEF FrameArrives, ProcessFrame, ServerReads, ServerWrites,
               ServerHandles
<1> QED  BY <1>2, <1>3, <1>5, <1>6, <1>7, <1>8, <1>9, <1>10, <1>11
         DEF SysNext, sysVars

LEMMA TypesStep ==
  ASSUME IInv, IInv', StreamIntegrity, Held, [Next]_vars,
         SysNext \/ UNCHANGED sysVars
  PROVE  SysTypeOK' /\ fetched' \in [Conns -> Nat]
<1>1. ClientTypes' /\ \A c \in Conns : fetched'[c] <= Len(delivered[c])
  BY StepTypes
<1>2. TypeOK'
  BY DEF IInv
<1>3. ASSUME NEW c \in Conns PROVE fetched'[c] \in 0 .. Len(delivered'[c])
  <2>1. Len(delivered[c]) <= Len(delivered'[c])
    BY ServerMoves
  <2>2. delivered[c] \in Seq(Messages) /\ delivered'[c] \in Seq(Messages)
    BY <1>2 DEF IInv, TypeOK
  <2>3. Len(delivered[c]) \in Nat /\ Len(delivered'[c]) \in Nat
    BY <2>2, LenProperties
  <2>4. fetched'[c] \in Nat
    BY <1>1 DEF ClientTypes
  <2> QED  BY <1>1, <2>1, <2>3, <2>4
<1> QED  BY <1>1, <1>2, <1>3 DEF ClientTypes, SysTypeOK

(* A client touches its own state, and what belongs to its connection.     *)
LEMMA OnlyItsOwn ==
  ASSUME Held, NEW p \in Clients,
         \/ RunHandler(p) \/ ResolveCompletes(p) \/ ConnectSucceeds(p)
         \/ ReceiveSucceeds(p) \/ ReceiveFails(p)
         \/ CallSucceeds(p) \/ CallFails(p)
         \/ TimeElapses(p) \/ TimerExpires(p)
         \/ LineArrives(p) \/ Reset(p)
  PROVE  /\ \A q \in Clients : q # p => conn'[q] = conn[q] /\ proc'[q] = proc[q]
         /\ \A c \in Conns : c # conn'[p] =>
              /\ written'[c] = written[c] /\ asked'[c] = asked[c]
              /\ heard'[c] = heard[c] /\ fetched'[c] = fetched[c]
<1>1. ClientTypes
  BY HeldTypes
<1>2. CASE RunHandler(p)
  <2> DEFINE u == Handled(proc[p])
             a == Arrived(u)
             m == Last(u.outbound_messages_.msgs)
  <2>1. /\ proc' = [proc EXCEPT ![p] = update(u)]
        /\ asked' = asked \/ asked' = [asked EXCEPT ![conn[p]] = Append(@, m)]
        /\ heard' = heard \/ heard' = [heard EXCEPT ![conn[p]] = @ \o a]
        /\ conn' = conn /\ written' = written /\ fetched' = fetched
    BY <1>2, RunEffect
  <2> HIDE DEF u, a, m
  <2> QED  BY <1>1, <2>1 DEF ClientTypes
<1>3. CASE ConnectSucceeds(p)
  <2>1. PICK d \in Conns :
          /\ conn' = [conn EXCEPT ![p] = d]
          /\ asked' = IF proc[p].writing
                        THEN [asked EXCEPT ![d] = proc[p].outbound_messages_.msgs]
                        ELSE asked
    BY <1>3 DEF ConnectSucceeds
  <2>2. conn'[p] = d
    BY <1>1, <2>1 DEF ClientTypes
  <2> QED  BY <1>1, <1>3, <2>1, <2>2 DEF ClientTypes, ConnectSucceeds, Becomes
<1>4. CASE ReceiveSucceeds(p)
  BY <1>1, <1>4 DEF ReceiveSucceeds, ClientTypes, Becomes
<1>5. CASE CallSucceeds(p)
  BY <1>1, <1>5 DEF CallSucceeds, ClientTypes, Becomes
<1>6. CASE \/ ResolveCompletes(p) \/ ReceiveFails(p) \/ CallFails(p)
           \/ TimeElapses(p) \/ TimerExpires(p) \/ LineArrives(p) \/ Reset(p)
  BY <1>1, <1>6 DEF ResolveCompletes, ReceiveFails, CallFails, TimeElapses,
                    TimerExpires, LineArrives, Reset, ClientTypes, Becomes
<1> QED  BY <1>2, <1>3, <1>4, <1>5, <1>6

LEMMA SameConn ==
  ASSUME NEW p \in Clients,
         \/ RunHandler(p) \/ ResolveCompletes(p)
         \/ ReceiveSucceeds(p) \/ ReceiveFails(p)
         \/ CallSucceeds(p) \/ CallFails(p)
         \/ TimeElapses(p) \/ TimerExpires(p)
         \/ LineArrives(p) \/ Reset(p)
  PROVE  conn' = conn
BY DEF RunHandler, ResolveCompletes, ReceiveSucceeds, ReceiveFails,
       CallSucceeds, CallFails, TimeElapses, TimerExpires, LineArrives, Reset

LEMMA OwnsStep ==
  ASSUME IInv, Held, [Next]_vars, SysNext \/ UNCHANGED sysVars
  PROVE  Owns'
<1>1. ClientTypes /\ Owns
  BY HeldTypes DEF Held
<1>2. \A c \in Conns : phase[c] # "idle" => phase'[c] # "idle"
  BY ServerMoves
<1>3. CASE UNCHANGED clientVars
  BY <1>1, <1>2, <1>3 DEF Owns, clientVars
<1>4. ASSUME NEW p \in Clients, ConnectSucceeds(p) PROVE Owns'
  <2>1. PICK d \in Conns : Connect(d) /\ conn' = [conn EXCEPT ![p] = d]
    BY <1>4 DEF ConnectSucceeds
  <2>2. /\ phase[d] = "idle" /\ phase' = [phase EXCEPT ![d] = "backlog"]
        /\ phase \in [Conns -> Phases]
    BY <2>1 DEF Connect, IInv, TypeOK
  <2>3. /\ conn'[p] = d /\ \A q \in Clients : q # p => conn'[q] = conn[q]
        /\ \A q \in Clients : conn[q] # d
    BY <1>1, <2>1, <2>2 DEF ClientTypes, Owns
  <2>4. \A c \in Conns : phase'[c] = "idle" => c # d /\ phase[c] = "idle"
    BY <2>2
  <2>5. \A c \in Conns : c # d =>
          /\ written'[c] = written[c] /\ asked'[c] = asked[c]
          /\ heard'[c] = heard[c] /\ fetched'[c] = fetched[c]
    BY <1>4, <2>3, OnlyItsOwn
  <2>6. \A q, r \in Clients : conn'[q] = conn'[r] /\ conn'[q] \in Conns => q = r
    BY <1>1, <2>3 DEF Owns
  <2>7. \A q \in Clients : conn'[q] \in Conns => phase'[conn'[q]] # "idle"
    BY <1>1, <1>2, <2>2, <2>3 DEF Owns
  <2>8. \A c \in Conns : phase'[c] = "idle" =>
          /\ written'[c] = <<>> /\ asked'[c] = <<>>
          /\ heard'[c] = <<>> /\ fetched'[c] = 0
    BY <1>1, <2>4, <2>5 DEF Owns
  <2> QED  BY <2>6, <2>7, <2>8 DEF Owns
<1>5. ASSUME NEW p \in Clients,
             \/ RunHandler(p) \/ ResolveCompletes(p)
             \/ ReceiveSucceeds(p) \/ ReceiveFails(p)
             \/ CallSucceeds(p) \/ CallFails(p)
             \/ TimeElapses(p) \/ TimerExpires(p)
             \/ LineArrives(p) \/ Reset(p)
      PROVE Owns'
  <2>1. conn' = conn
    BY <1>5, SameConn
  <2>2. ASSUME NEW c \in Conns, phase'[c] = "idle"
        PROVE  /\ written'[c] = <<>> /\ asked'[c] = <<>>
               /\ heard'[c] = <<>> /\ fetched'[c] = 0
    <3>1. phase[c] = "idle" /\ conn'[p] # c
      BY <1>1, <1>2, <2>1, <2>2 DEF Owns
    <3> QED  BY <1>1, <1>5, <3>1, OnlyItsOwn DEF Owns
  <2>3. \A q \in Clients : conn'[q] \in Conns => phase'[conn'[q]] # "idle"
    BY <1>1, <1>2, <2>1 DEF Owns
  <2>4. \A q, r \in Clients : conn'[q] = conn'[r] /\ conn'[q] \in Conns => q = r
    BY <1>1, <2>1 DEF Owns
  <2> QED  BY <2>2, <2>3, <2>4 DEF Owns
<1>6. ASSUME NEW c \in Conns,
             \/ FrameArrives(c) \/ ProcessFrame(c)
             \/ ServerReads(c) \/ ServerWrites(c) \/ ServerHandles(c)
      PROVE  UNCHANGED clientVars
  BY <1>6 DEF FrameArrives, ProcessFrame, ServerReads, ServerWrites,
              ServerHandles
<1> QED  BY <1>3, <1>4, <1>5, <1>6 DEF SysNext, sysVars

LEMMA HeldStep ==
  ASSUME IInv, IInv', RInv, StreamIntegrity, Held, [SysNext]_sysVars
  PROVE  Held'
<1>1. SysNext \/ UNCHANGED sysVars
  OBVIOUS
<1>2. [Next]_vars
  BY SystemMoves
<1>3. SysTypeOK' /\ fetched' \in [Conns -> Nat]
  BY <1>1, <1>2, TypesStep
<1>4. Kinds'
  BY <1>1, KindsStep
<1>5. Owns'
  BY <1>1, <1>2, OwnsStep
<1>6. \A c \in Conns : OnWire(requests'[c], written'[c], phase'[c], reading'[c])
  BY <1>1, WireStep
<1> QED  BY <1>3, <1>4, <1>5, <1>6 DEF Held

-----------------------------------------------------------------------------
(* What others do to a connection: it may go down, and receive more.       *)
LEMMA Drift ==
  ASSUME NEW s, NEW up, NEW down, down => up, NEW ask, NEW wr,
         NEW ans, NEW more, NEW hd, NEW n \in Nat, Len(hd) \in Nat,
         Len(ans) \in Nat, n <= Len(ans),
         \A i \in 1 .. Len(ans) : more[i] = ans[i]
  PROVE  /\ CallsFit(s, up, ask, wr) => CallsFit(s, down, ask, wr)
         /\ HeardFit(ans, hd, n) => HeardFit(more, hd, n)
         /\ HeardFit(ans, hd, n) /\ AnswersFit(s, ans, Len(hd), n)
              => AnswersFit(s, more, Len(hd), n)
<1>1. CallsFit(s, up, ask, wr) => CallsFit(s, down, ask, wr)
  BY DEF CallsFit
<1>2. HeardFit(ans, hd, n) => HeardFit(more, hd, n)
  BY DEF HeardFit
<1>3. HeardFit(ans, hd, n) /\ AnswersFit(s, ans, Len(hd), n)
        => AnswersFit(s, more, Len(hd), n)
  <2> DEFINE k == Len(hd)
  <2>1. SUFFICES ASSUME k <= n, AnswersFit(s, ans, k, n)
                 PROVE  AnswersFit(s, more, k, n)
    BY DEF HeardFit
  <2>2. k \in Nat
    OBVIOUS
  <2> HIDE DEF k
  <2>3. \A j \in 1 .. n - k : k + j \in 1 .. Len(ans)
    BY <2>1, <2>2
  <2> QED  BY <2>1, <2>3 DEF AnswersFit
<1> QED  BY <1>1, <1>2, <1>3

(* A step of the server or of the network.                                 *)
LEMMA FreshDrifts ==
  ASSUME IInv, StreamIntegrity, Held, Fresh, [Next]_vars,
         UNCHANGED <<proc, conn, written, fetched, asked, heard>>
  PROVE  Fresh'
<1>1. ClientTypes /\ \A c \in Conns : fetched[c] <= Len(delivered[c])
  BY HeldTypes
<1>2. /\ proc' = proc /\ conn' = conn /\ written' = written /\ asked' = asked
      /\ heard' = heard /\ fetched' = fetched
  OBVIOUS
<1>3. ASSUME NEW c \in Conns
      PROVE  /\ fetched[c] \in Nat /\ Len(heard[c]) \in Nat
             /\ Len(delivered[c]) \in Nat /\ fetched[c] <= Len(delivered[c])
             /\ \A i \in 1 .. Len(delivered[c]) :
                  delivered'[c][i] = delivered[c][i]
             /\ phase[c] # "idle" => (link'[c] => link[c])
  <2>1. heard[c] \in Seq(ServerCalls) /\ delivered[c] \in Seq(Messages)
    BY <1>1 DEF ClientTypes, IInv, TypeOK
  <2> QED  BY <1>1, <2>1, LenProperties, ServerMoves DEF ClientTypes
<1>4. ASSUME NEW p \in Clients, conn[p] \in Conns
      PROVE  /\ CallsFit(proc[p], link'[conn[p]], asked[conn[p]], written[conn[p]])
             /\ AnswersFit(proc[p], delivered'[conn[p]], Len(heard[conn[p]]),
                           fetched[conn[p]])
  <2> DEFINE c == conn[p]
  <2>1. phase[c] # "idle"
    BY <1>4 DEF Held, Owns
  <2>2. /\ CallsFit(proc[p], link[c], asked[c], written[c])
        /\ AnswersFit(proc[p], delivered[c], Len(heard[c]), fetched[c])
        /\ HeardFit(delivered[c], heard[c], fetched[c])
    BY <1>4 DEF Fresh
  <2> QED  BY <1>3, <1>4, <2>1, <2>2, Drift
<1>5. ASSUME NEW c \in Conns
      PROVE  /\ IsPrefix(written[c], asked[c])
             /\ HeardFit(delivered'[c], heard[c], fetched[c])
  <2>1. /\ IsPrefix(written[c], asked[c])
        /\ HeardFit(delivered[c], heard[c], fetched[c])
    BY DEF Fresh
  <2> QED  BY <1>3, <2>1, Drift
<1>6. \A p \in Clients : proc[p].failure = "none" => Placed(proc[p])
  BY DEF Fresh
<1> QED  BY <1>2, <1>4, <1>5, <1>6 DEF Fresh

(* A step of a client, of which others see only what it does to the        *)
(* connection.                                                             *)
LEMMA FreshLocally ==
  ASSUME IInv, StreamIntegrity, Held, Fresh, [Next]_vars, Owns',
         NEW p \in Clients,
         \A q \in Clients : q # p => conn'[q] = conn[q] /\ proc'[q] = proc[q],
         \A c \in Conns : c # conn'[p] =>
           /\ written'[c] = written[c] /\ asked'[c] = asked[c]
           /\ heard'[c] = heard[c] /\ fetched'[c] = fetched[c],
         proc'[p].failure = "none" => Placed(proc'[p]),
         conn'[p] \in Conns =>
           /\ CallsFit(proc'[p], link'[conn'[p]], asked'[conn'[p]],
                       written'[conn'[p]])
           /\ AnswersFit(proc'[p], delivered'[conn'[p]],
                         Len(heard'[conn'[p]]), fetched'[conn'[p]])
           /\ IsPrefix(written'[conn'[p]], asked'[conn'[p]])
           /\ HeardFit(delivered'[conn'[p]], heard'[conn'[p]],
                       fetched'[conn'[p]])
  PROVE  Fresh'
<1>1. ClientTypes /\ \A c \in Conns : fetched[c] <= Len(delivered[c])
  BY HeldTypes
<1>2. ASSUME NEW c \in Conns
      PROVE  /\ fetched[c] \in Nat /\ Len(heard[c]) \in Nat
             /\ Len(delivered[c]) \in Nat /\ fetched[c] <= Len(delivered[c])
             /\ \A i \in 1 .. Len(delivered[c]) :
                  delivered'[c][i] = delivered[c][i]
             /\ phase[c] # "idle" => (link'[c] => link[c])
  <2>1. heard[c] \in Seq(ServerCalls) /\ delivered[c] \in Seq(Messages)
    BY <1>1 DEF ClientTypes, IInv, TypeOK
  <2> QED  BY <1>1, <2>1, LenProperties, ServerMoves DEF ClientTypes
<1>3. ASSUME NEW q \in Clients, q # p, conn'[q] \in Conns
      PROVE  /\ CallsFit(proc'[q], link'[conn'[q]], asked'[conn'[q]],
                         written'[conn'[q]])
             /\ AnswersFit(proc'[q], delivered'[conn'[q]],
                           Len(heard'[conn'[q]]), fetched'[conn'[q]])
  <2> DEFINE c == conn[q]
  <2>1. conn'[q] = c /\ c \in Conns /\ proc'[q] = proc[q] /\ c # conn'[p]
    BY <1>3 DEF Owns
  <2>2. /\ written'[c] = written[c] /\ asked'[c] = asked[c]
        /\ heard'[c] = heard[c] /\ fetched'[c] = fetched[c]
    BY <2>1
  <2>3. phase[c] # "idle"
    BY <2>1 DEF Held, Owns
  <2>4. /\ CallsFit(proc[q], link[c], asked[c], written[c])
        /\ AnswersFit(proc[q], delivered[c], Len(heard[c]), fetched[c])
        /\ HeardFit(delivered[c], heard[c], fetched[c])
    BY <2>1 DEF Fresh
  <2>5. /\ CallsFit(proc[q], link'[c], asked[c], written[c])
        /\ AnswersFit(proc[q], delivered'[c], Len(heard[c]), fetched[c])
    BY <1>2, <2>1, <2>3, <2>4, Drift
  <2> QED  BY <2>1, <2>2, <2>5
<1>4. ASSUME NEW c \in Conns, c # conn'[p]
      PROVE  /\ IsPrefix(written'[c], asked'[c])
             /\ HeardFit(delivered'[c], heard'[c], fetched'[c])
  <2>1. /\ IsPrefix(written[c], asked[c])
        /\ HeardFit(delivered[c], heard[c], fetched[c])
    BY DEF Fresh
  <2>2. HeardFit(delivered'[c], heard[c], fetched[c])
    BY <1>2, <2>1, Drift
  <2> QED  BY <1>4, <2>1, <2>2
<1>5. \A q \in Clients : proc'[q].failure = "none" => Placed(proc'[q])
  BY DEF Fresh
<1> QED  BY <1>3, <1>4, <1>5 DEF Fresh

(* A client that is not connected has nothing to do with a connection.     *)
LEMMA TryingFits ==
  ASSUME NEW s, s.socket # "connected"
  PROVE  /\ \A up, ask, wr : CallsFit(s, up, ask, wr)
         /\ \A ans, k, n : AnswersFit(s, ans, k, n)
BY DEF CallsFit, AnswersFit

LEMMA NotConnected ==
  ASSUME NEW s, Trying(s) \/ Lost(s)
  PROVE  s.socket # "connected" /\ s.socket \in {"closed", "open"}
BY DEF Trying, Lost, Place

LEMMA SameFits ==
  ASSUME NEW s, NEW t, t.socket = s.socket, t.failure = s.failure,
         NEW up, NEW ask, NEW wr, NEW ans, NEW k, NEW n
  PROVE  /\ Pending(t) = Pending(s) /\ CallsFit(s, up, ask, wr)
              /\ (Lone(t.ready, {"write"}, Failed("write"))
                    => Lone(s.ready, {"write"}, Failed("write")))
            => CallsFit(t, up, ask, wr)
         /\ GotOf(t.ready) = GotOf(s.ready) /\ AnswersFit(s, ans, k, n)
            => AnswersFit(t, ans, k, n)
<1>1. Pending(t) = Pending(s) /\ CallsFit(s, up, ask, wr)
        /\ (Lone(t.ready, {"write"}, Failed("write"))
              => Lone(s.ready, {"write"}, Failed("write")))
      => CallsFit(t, up, ask, wr)
  BY DEF CallsFit
<1>2. GotOf(t.ready) = GotOf(s.ready) /\ AnswersFit(s, ans, k, n)
      => AnswersFit(t, ans, k, n)
  BY DEF AnswersFit
<1> QED  BY <1>1, <1>2

(* Name resolution and the timer.                                          *)
LEMMA FreshAttempt ==
  ASSUME IInv, StreamIntegrity, Held, Fresh, [Next]_vars, Owns',
         NEW p \in Clients,
         ResolveCompletes(p) \/ TimeElapses(p) \/ TimerExpires(p)
  PROVE  Fresh'
<1> DEFINE s == proc[p]
<1>1. ClientTypes /\ s \in ProcessStates
  BY HeldTypes DEF ClientTypes
<1>2. Placed(s)
  BY DEF Fresh, ResolveCompletes, TimeElapses, TimerExpires, Running
<1>3. PICK t \in ProcessStates : proc' = [proc EXCEPT ![p] = t] /\ Trying(t)
  BY <1>1, <1>2, AttemptCompletes
     DEF ResolveCompletes, TimeElapses, TimerExpires, Becomes
<1>4. proc'[p] = t
  BY <1>1, <1>3 DEF ClientTypes
<1>5. UNCHANGED <<vars, conn, written, fetched, asked, heard>>
  BY DEF ResolveCompletes, TimeElapses, TimerExpires
<1>6. /\ conn' = conn /\ written' = written /\ fetched' = fetched
      /\ asked' = asked /\ heard' = heard /\ delivered' = delivered
      /\ link' = link
  BY <1>5 DEF vars, logVars
<1>7. t.socket # "connected" /\ Placed(t)
  BY <1>3, NotConnected DEF Placed
<1>8. conn[p] \in Conns =>
        /\ IsPrefix(written[conn[p]], asked[conn[p]])
        /\ HeardFit(delivered[conn[p]], heard[conn[p]], fetched[conn[p]])
  BY DEF Fresh
<1>9. \A q \in Clients : q # p => conn'[q] = conn[q] /\ proc'[q] = proc[q]
  BY <1>1, <1>3, <1>6 DEF ClientTypes
<1> QED  BY <1>4, <1>6, <1>7, <1>8, <1>9, TryingFits, FreshLocally

(* The user enters a line.                                                 *)
LEMMA FreshLine ==
  ASSUME IInv, StreamIntegrity, Held, Fresh, [Next]_vars, Owns',
         NEW p \in Clients, LineArrives(p)
  PROVE  Fresh'
<1> DEFINE s == proc[p]
<1>1. ClientTypes /\ s \in ProcessStates
  BY HeldTypes DEF ClientTypes
<1>2. Placed(s)
  BY DEF Fresh, LineArrives, Running
<1>3. PICK line \in Lines :
        Becomes(p, [Post(s, LineRead(Head(s.stdin).prompt, line))
                      EXCEPT !.stdin = Tail(@),
                             !.input_buffer_ = Append(@, line)])
  BY DEF LineArrives
<1>4. line \in Lines /\ s.stdin # <<>>
  BY <1>3 DEF LineArrives
<1>5. PICK t \in ProcessStates : proc' = [proc EXCEPT ![p] = t] /\ Aside(s, t)
  BY <1>1, <1>3, <1>4, LineAside DEF Becomes
<1>6. proc'[p] = t
  BY <1>1, <1>5 DEF ClientTypes
<1>7. UNCHANGED <<vars, conn, written, fetched, asked, heard>>
  BY DEF LineArrives
<1>8. /\ conn' = conn /\ written' = written /\ fetched' = fetched
      /\ asked' = asked /\ heard' = heard /\ delivered' = delivered
      /\ link' = link
  BY <1>7 DEF vars, logVars
<1>9. Placed(t)
  BY <1>1, <1>2, <1>5, AsidePlaced DEF Placed
<1>10. /\ Pending(t) = Pending(s) /\ GotOf(t.ready) = GotOf(s.ready)
       /\ Lone(t.ready, {"write"}, Failed("write"))
            <=> Lone(s.ready, {"write"}, Failed("write"))
  BY <1>1, <1>5, AsidePending
<1>11. t.socket = s.socket /\ t.failure = s.failure
  BY <1>5 DEF Aside
<1> DEFINE c == conn[p]
<1>12. ASSUME c \in Conns
       PROVE  /\ CallsFit(t, link[c], asked[c], written[c])
              /\ AnswersFit(t, delivered[c], Len(heard[c]), fetched[c])
  <2>1. /\ CallsFit(s, link[c], asked[c], written[c])
        /\ AnswersFit(s, delivered[c], Len(heard[c]), fetched[c])
    BY <1>12 DEF Fresh
  <2> QED  BY <1>10, <1>11, <2>1, SameFits
<1>13. c \in Conns =>
        /\ IsPrefix(written[c], asked[c])
        /\ HeardFit(delivered[c], heard[c], fetched[c])
  BY DEF Fresh
<1>14. \A q \in Clients : q # p => conn'[q] = conn[q] /\ proc'[q] = proc[q]
  BY <1>1, <1>5, <1>8 DEF ClientTypes
<1> QED  BY <1>6, <1>8, <1>9, <1>12, <1>13, <1>14, FreshLocally

(* A receive completes.                                                    *)
LEMMA FreshReceive ==
  ASSUME IInv, StreamIntegrity, Held, Fresh, [Next]_vars, Owns',
         NEW p \in Clients, NEW k \in Nat, NEW h \in Handlers,
         Running(p), proc[p].receiving > 0,
         h.op = "receive", Len(h.got) = 2 * k,
         Becomes(p, [Post(proc[p], h) EXCEPT !.receiving = @ - 1]),
         UNCHANGED <<vars, conn, written, asked, heard>>,
         IF k = 0 THEN fetched' = fetched
         ELSE /\ conn[p] \in Conns
              /\ fetched' = [fetched EXCEPT ![conn[p]] = @ + k]
              /\ \A i \in 1 .. k : h.got[2 * i].frame
                   = delivered[conn[p]][fetched[conn[p]] + i].reply
  PROVE  Fresh'
<1> DEFINE s == proc[p]
           t == [Post(s, h) EXCEPT !.receiving = @ - 1]
           c == conn[p]
<1>1. ClientTypes /\ s \in ProcessStates
  BY HeldTypes DEF ClientTypes
<1>2. Placed(s) /\ s.failure = "none"
  BY DEF Fresh, Running
<1>3. /\ t \in ProcessStates /\ Online(t) /\ t.failure = s.failure
      /\ Online(s) /\ Pending(t) = Pending(s)
      /\ GotOf(s.ready) = {} /\ GotOf(t.ready) = {h.got}
      /\ Lone(t.ready, {"write"}, Failed("write"))
           => Lone(s.ready, {"write"}, Failed("write"))
  BY <1>1, <1>2, ReceiveCompletes
<1>4. proc' = [proc EXCEPT ![p] = t]
  BY DEF Becomes
<1> HIDE DEF t
<1>5. proc'[p] = t
  BY <1>1, <1>4 DEF ClientTypes
<1>6. s.socket = "connected" /\ t.socket = "connected" /\ Placed(t)
  BY <1>3 DEF Online, Up, Place, Placed
<1>7. /\ conn' = conn /\ written' = written
      /\ asked' = asked /\ heard' = heard /\ delivered' = delivered
      /\ link' = link
  BY DEF vars, logVars
<1>8. ASSUME c \in Conns
      PROVE  /\ CallsFit(t, link[c], asked[c], written[c])
             /\ AnswersFit(t, delivered[c], Len(heard[c]), fetched'[c])
             /\ IsPrefix(written[c], asked[c])
             /\ HeardFit(delivered[c], heard[c], fetched'[c])
  <2> DEFINE n == fetched[c]
  <2>1. /\ CallsFit(s, link[c], asked[c], written[c])
        /\ AnswersFit(s, delivered[c], Len(heard[c]), n)
        /\ IsPrefix(written[c], asked[c])
        /\ HeardFit(delivered[c], heard[c], n)
    BY <1>8 DEF Fresh
  <2>2. n = Len(heard[c]) /\ n \in Nat
    BY <1>1, <1>2, <1>3, <1>6, <1>8, <2>1 DEF AnswersFit, ClientTypes
  <2>3. /\ fetched'[c] = n + k
        /\ \A i \in 1 .. k : h.got[2 * i].frame = delivered[c][n + i].reply
    BY <1>1, <1>8, <2>2 DEF ClientTypes
  <2>4. CallsFit(t, link[c], asked[c], written[c])
    BY <1>3, <1>6, <2>1, SameFits
  <2> HIDE DEF n
  <2>5. AnswersFit(t, delivered[c], n, n + k)
    <3> DEFINE m == n + k
               d == delivered[c]
    <3>1. m - n = k
      BY <2>2
    <3>2. GotOf(t.ready) = {h.got}
      BY <1>3
    <3> HIDE DEF m, d
    <3>3. ASSUME NEW got \in GotOf(t.ready)
          PROVE  /\ Len(got) = 2 * (m - n)
                 /\ \A j \in 1 .. m - n : got[2 * j].frame = d[n + j].reply
      BY <2>3, <3>1, <3>2 DEF d
    <3>4. GotOf(t.ready) # {}
      BY <3>2
    <3>5. AnswersFit(t, d, n, m)
      BY <3>3, <3>4 DEF AnswersFit
    <3> QED  BY <3>5 DEF m, d
  <2>6. HeardFit(delivered[c], heard[c], n + k)
    <3>1. n <= n + k
      BY <2>2
    <3> QED  BY <2>1, <2>2, <3>1 DEF HeardFit
  <2> QED  BY <2>1, <2>2, <2>3, <2>4, <2>5, <2>6
<1>9. \A q \in Clients : q # p => conn'[q] = conn[q] /\ proc'[q] = proc[q]
  BY <1>1, <1>4, <1>7 DEF ClientTypes
<1>10. \A d \in Conns : d # conn'[p] => fetched'[d] = fetched[d]
  BY <1>1, <1>7 DEF ClientTypes
<1> QED  BY <1>5, <1>6, <1>7, <1>8, <1>9, <1>10, FreshLocally

LEMMA FreshReceives ==
  ASSUME IInv, StreamIntegrity, Held, Fresh, [Next]_vars, Owns',
         NEW p \in Clients, ReceiveSucceeds(p) \/ ReceiveFails(p)
  PROVE  Fresh'
<1>1. CASE ReceiveFails(p)
  <2>1. Failed("receive") \in Handlers /\ Failed("receive").op = "receive"
    BY HandlerTypes DEF Ops
  <2>2. Len(Failed("receive").got) = 2 * 0
    BY DEF Failed
  <2>3. 0 \in Nat
    OBVIOUS
  <2> HIDE DEF Failed
  <2> QED  BY <1>1, <2>1, <2>2, <2>3, FreshReceive DEF ReceiveFails
<1>2. CASE ReceiveSucceeds(p)
  <2> DEFINE c == conn[p]
             new == SubSeq(delivered[c], fetched[c] + 1, Len(delivered[c]))
  <2>1. c \in Conns /\ Len(new) = Len(delivered[c]) - fetched[c]
    BY <1>2, FetchEffect
  <2>2. PICK k \in 1 .. Len(new) :
          /\ fetched' = [fetched EXCEPT ![c] = @ + k]
          /\ Becomes(p, [Post(proc[p], Received(PiecesOf(new, k)))
                           EXCEPT !.receiving = @ - 1])
          /\ PiecesOf(new, k) \in Seq(Pieces)
          /\ Len(PiecesOf(new, k)) = 2 * k
          /\ \A i \in 1 .. k : PiecesOf(new, k)[2 * i].frame
               = delivered[c][fetched[c] + i].reply
    BY <1>2, FetchEffect
  <2>3. k \in Nat /\ k # 0
    BY <2>2
  <2> DEFINE h == Received(PiecesOf(new, k))
  <2>4. h \in Handlers /\ h.op = "receive" /\ h.got = PiecesOf(new, k)
    BY <2>2, HandlerTypes DEF Received, Done, Failed
  <2>5. /\ Running(p) /\ proc[p].receiving > 0
        /\ UNCHANGED <<vars, conn, written, asked, heard>>
    BY <1>2 DEF ReceiveSucceeds
  <2>6. /\ Len(h.got) = 2 * k
        /\ \A i \in 1 .. k : h.got[2 * i].frame
             = delivered[c][fetched[c] + i].reply
        /\ Becomes(p, [Post(proc[p], h) EXCEPT !.receiving = @ - 1])
    BY <2>2, <2>4
  <2> HIDE DEF h, new
  <2> QED  BY <2>1, <2>2, <2>3, <2>4, <2>5, <2>6, FreshReceive
<1> QED  BY <1>1, <1>2

LEMMA Regrouped ==
  ASSUME NEW S, NEW u \in Seq(S), NEW v \in Seq(S), NEW w \in Seq(S)
  PROVE  u \o (v \o w) = (u \o v) \o w /\ IsPrefix(u \o v, u \o (v \o w))
<1>1. (u \o v) \o w = u \o (v \o w)
  BY ConcatAssociative
<1>2. u \o v \in Seq(S)
  BY ConcatProperties
<1>3. IsPrefix(u \o v, (u \o v) \o w)
  BY <1>2, PrefixConcat
<1> QED  BY <1>1, <1>3

(* A write completes.                                                      *)
LEMMA FreshWrites ==
  ASSUME IInv, StreamIntegrity, Held, Fresh, [Next]_vars, Owns',
         NEW p \in Clients, CallSucceeds(p) \/ CallFails(p)
  PROVE  Fresh'
<1> DEFINE s == proc[p]
           q == s.outbound_messages_
           h == IF CallSucceeds(p) THEN Done("write") ELSE Failed("write")
           t == [Post(s, h) EXCEPT !.writing = FALSE]
           c == conn[p]
<1>1. ClientTypes /\ s \in ProcessStates
  BY HeldTypes DEF ClientTypes
<1>2. Placed(s) /\ s.failure = "none" /\ s.writing
  BY DEF Fresh, Running, CallSucceeds, CallFails
<1>3. /\ t \in ProcessStates /\ Online(t) /\ t.failure = s.failure
      /\ Online(s) /\ GotOf(t.ready) = GotOf(s.ready)
      /\ Pending(s) = q.msgs
      /\ h = Done("write") => /\ Pending(t) = Rest(q)
                              /\ ~Lone(t.ready, {"write"}, Failed("write"))
      /\ h = Failed("write") => Pending(t) = Pending(s)
  BY <1>1, <1>2, CallCompletes
<1>4. /\ proc' = [proc EXCEPT ![p] = t]
      /\ UNCHANGED <<vars, conn, fetched, asked, heard>>
  BY DEF CallSucceeds, CallFails, Becomes
<1>5. CallSucceeds(p) => h = Done("write")
  OBVIOUS
<1>6. ~CallSucceeds(p) => h = Failed("write")
  OBVIOUS
<1> HIDE DEF t, h
<1>7. proc'[p] = t
  BY <1>1, <1>4 DEF ClientTypes
<1>8. s.socket = "connected" /\ t.socket = "connected" /\ Placed(t)
  BY <1>3 DEF Online, Up, Place, Placed
<1>9. /\ conn' = conn /\ fetched' = fetched
      /\ asked' = asked /\ heard' = heard /\ delivered' = delivered
      /\ link' = link
  BY <1>4 DEF vars, logVars
<1>10. ASSUME c \in Conns
       PROVE  /\ CallsFit(s, link[c], asked[c], written[c])
              /\ AnswersFit(t, delivered[c], Len(heard[c]), fetched[c])
              /\ IsPrefix(written[c], asked[c])
              /\ HeardFit(delivered[c], heard[c], fetched[c])
  <2>1. /\ CallsFit(s, link[c], asked[c], written[c])
        /\ AnswersFit(s, delivered[c], Len(heard[c]), fetched[c])
        /\ IsPrefix(written[c], asked[c])
        /\ HeardFit(delivered[c], heard[c], fetched[c])
    BY <1>10 DEF Fresh
  <2>2. t.socket = s.socket
    BY <1>8
  <2> QED  BY <1>3, <2>1, <2>2, SameFits
<1>11. ASSUME c \in Conns
       PROVE  /\ CallsFit(t, link[c], asked[c], written'[c])
              /\ IsPrefix(written'[c], asked[c])
  <2>1. CASE CallSucceeds(p) /\ link[c]
    <3> DEFINE f == FrontString(q)
               w == written[c]
    <3>1. q \in Queues(Requests)
      BY <1>1 DEF ProcessStates
    <3>2. f \in Seq(Requests) /\ Rest(q) \in Seq(Requests) /\ f \o Rest(q) = q.msgs
      BY <3>1, FrontAndRest
    <3>3. w \in Seq(Requests)
      BY <1>1, <1>11 DEF ClientTypes
    <3>4. written'[c] = w \o f
      BY <1>1, <1>11, <2>1 DEF CallSucceeds, ClientTypes
    <3>5. asked[c] = w \o q.msgs
      BY <1>2, <1>3, <1>8, <1>10, <1>11, <2>1 DEF CallsFit
    <3> HIDE DEF f, w
    <3>6. /\ asked[c] = (w \o f) \o Rest(q)
          /\ IsPrefix(w \o f, asked[c])
      <4> DEFINE r == Rest(q)
      <4>1. r \in Seq(Requests) /\ asked[c] = w \o (f \o r)
        BY <3>2, <3>5
      <4> HIDE DEF r
      <4>2. /\ w \o (f \o r) = (w \o f) \o r
            /\ IsPrefix(w \o f, w \o (f \o r))
        BY <3>2, <3>3, <4>1, Regrouped
      <4>3. /\ asked[c] = (w \o f) \o r
            /\ IsPrefix(w \o f, asked[c])
        BY <4>1, <4>2
      <4> QED  BY <4>3 DEF r
    <3>8. Pending(t) = Rest(q) /\ ~Lone(t.ready, {"write"}, Failed("write"))
      BY <1>3, <1>5, <2>1
    <3> QED  BY <3>4, <3>6, <3>8 DEF CallsFit
  <2>2. CASE CallSucceeds(p) /\ ~link[c]
    <3>1. written'[c] = written[c]
      BY <2>2 DEF CallSucceeds
    <3> QED  BY <1>10, <1>11, <2>2, <3>1 DEF CallsFit
  <2>3. CASE ~CallSucceeds(p)
    <3>1. written' = written /\ Failing(p)
      BY <2>3 DEF CallFails
    <3>2. ~link[c]
      BY <1>8, <3>1 DEF Failing
    <3> QED  BY <1>10, <1>11, <3>1, <3>2 DEF CallsFit
  <2> QED  BY <2>1, <2>2, <2>3
<1>12. /\ \A r \in Clients : r # p => conn'[r] = conn[r] /\ proc'[r] = proc[r]
       /\ \A d \in Conns : d # conn'[p] => written'[d] = written[d]
  BY OnlyItsOwn
<1> QED  BY <1>7, <1>8, <1>9, <1>10, <1>11, <1>12, FreshLocally

(* A connection is made: nothing is left over from an earlier one.         *)
LEMMA FreshConnects ==
  ASSUME IInv, StreamIntegrity, Held, Fresh, [Next]_vars, Owns',
         NEW p \in Clients, ConnectSucceeds(p)
  PROVE  Fresh'
<1> DEFINE s == proc[p]
           t == [Post(s, Done("connect"))
                   EXCEPT !.connecting = FALSE, !.socket = "connected"]
<1>1. ClientTypes /\ s \in ProcessStates
  BY HeldTypes DEF ClientTypes
<1>2. Placed(s) /\ s.connecting
  BY DEF Fresh, Running, ConnectSucceeds
<1>3. /\ t \in ProcessStates /\ Online(t)
      /\ Pending(t) = <<>> /\ GotOf(t.ready) = {} /\ ~s.writing
      /\ ~Lone(t.ready, {"write"}, Failed("write"))
  BY <1>1, <1>2, ConnectCompletes
<1>4. proc' = [proc EXCEPT ![p] = t]
  BY DEF ConnectSucceeds, Becomes
<1> HIDE DEF t
<1>5. PICK c \in Conns : Connect(c) /\ conn' = [conn EXCEPT ![p] = c]
                           /\ asked' = asked
  BY <1>3 DEF ConnectSucceeds
<1>6. proc'[p] = t /\ conn'[p] = c
  BY <1>1, <1>4, <1>5 DEF ClientTypes
<1>7. /\ phase[c] = "idle" /\ delivered' = delivered
      /\ written' = written /\ fetched' = fetched /\ heard' = heard
  BY <1>5 DEF Connect, logVars, ConnectSucceeds
<1>8. written[c] = <<>> /\ asked[c] = <<>> /\ heard[c] = <<>> /\ fetched[c] = 0
  BY <1>7 DEF Held, Owns
<1>9. CallsFit(t, link'[c], asked[c], written[c])
  BY <1>3, <1>8 DEF CallsFit
<1>10. AnswersFit(t, delivered[c], Len(heard[c]), fetched[c])
  BY <1>3, <1>8 DEF AnswersFit
<1>11. /\ IsPrefix(written[c], asked[c])
       /\ HeardFit(delivered[c], heard[c], fetched[c])
  BY DEF Fresh
<1>12. Placed(t)
  BY <1>3 DEF Placed
<1>13. /\ \A q \in Clients : q # p => conn'[q] = conn[q] /\ proc'[q] = proc[q]
       /\ \A d \in Conns : d # conn'[p] => asked'[d] = asked[d]
  BY OnlyItsOwn
<1> QED  BY <1>5, <1>6, <1>7, <1>9, <1>10, <1>11, <1>12, <1>13, FreshLocally

(* A handler that leaves the client connected dispatches just what was     *)
(* fetched.                                                                *)
LEMMA OnwardAnswers ==
  ASSUME NEW s \in ProcessStates, NEW u \in ProcessStates, NEW t,
         Onward(s, u), s.failure = "none", s.ready # <<>>, Online(s),
         GotOf(t.ready) = GotOf(u.ready),
         NEW ans, NEW hd \in Seq(ServerCalls), NEW n \in Nat,
         HeardFit(ans, hd, n), AnswersFit(s, ans, Len(hd), n),
         NEW more, more = IF Arrived(u) # <<>> THEN hd \o Arrived(u) ELSE hd
  PROVE  HeardFit(ans, more, n) /\ AnswersFit(t, ans, Len(more), n)
<1> DEFINE a == Arrived(u)
           k == Len(hd)
<1>0. s.socket = "connected"
  BY DEF Online, Up, Place
<1>1. /\ a \in Seq(ServerCalls) /\ Len(a) = Len(u.incomming_bytes_) \div 2
      /\ \A i \in 1 .. Len(a) : a[i] = u.incomming_bytes_[2 * i].frame
  BY ArrivedType
<1>2. k \in Nat /\ Len(a) \in Nat /\ k <= n
  BY <1>1, LenProperties DEF HeardFit
<1>3. more = hd \o a
  <2>1. CASE a # <<>>
    BY <2>1
  <2>2. CASE a = <<>>
    BY <2>2, ConcatEmptySeq
  <2> QED  BY <2>1, <2>2
<1> HIDE DEF a
<1>4. /\ Len(more) = k + Len(a)
      /\ \A i \in 1 .. k : more[i] = hd[i]
      /\ \A i \in 1 .. Len(a) : more[k + i] = a[i]
  <2>1. Len(hd \o a) = Len(hd) + Len(a)
    BY <1>1, Joined
  <2>2. \A i \in 1 .. Len(hd) : (hd \o a)[i] = hd[i]
    BY <1>1, Joined
  <2>3. \A i \in 1 .. Len(a) : (hd \o a)[Len(hd) + i] = a[i]
    <3>1. a \in Seq(ServerCalls) /\ hd \in Seq(ServerCalls)
      BY <1>1
    <3> HIDE DEF k
    <3> QED  BY <3>1, Joined
  <2> QED  BY <1>3, <2>1, <2>2, <2>3
<1>5. \A i \in 1 .. k : hd[i] = ans[i].reply
  BY DEF HeardFit
<1> HIDE DEF k
<1>6. CASE Head(s.ready).op = "receive"
  <2> DEFINE got == Head(s.ready).got
             m == n - k
  <2>1. u.incomming_bytes_ = got /\ got \in GotOf(s.ready) /\ GotOf(u.ready) = {}
    BY <1>6, OnwardBytes DEF Onward
  <2>2. m \in Nat /\ k + m = n
    BY <1>2
  <2>3. Len(got) = 2 * m /\ \A j \in 1 .. m : got[2 * j].frame = ans[k + j].reply
    BY <1>0, <2>1 DEF AnswersFit, k
  <2> HIDE DEF got, m
  <2>4. Len(a) = m
    BY <1>1, <2>1, <2>2, <2>3
  <2>5. Len(more) = n
    BY <1>4, <2>2, <2>4
  <2>6. AnswersFit(t, ans, Len(more), n)
    BY <2>1, <2>5 DEF AnswersFit
  <2>7. \A i \in 1 .. m : more[k + i] = ans[k + i].reply
    BY <1>1, <1>4, <2>1, <2>3, <2>4
  <2>8. ASSUME NEW i \in 1 .. n PROVE more[i] = ans[i].reply
    <3>1. CASE i \in 1 .. k
      BY <1>4, <1>5, <3>1
    <3>2. CASE ~(i \in 1 .. k)
      <4>1. i - k \in 1 .. m /\ k + (i - k) = i
        BY <1>2, <2>2, <3>2
      <4>2. more[k + (i - k)] = ans[k + (i - k)].reply
        BY <2>7, <4>1
      <4> QED  BY <4>1, <4>2
    <3> QED  BY <3>1, <3>2
  <2> QED  BY <2>5, <2>6, <2>8 DEF HeardFit
<1>7. CASE Head(s.ready).op # "receive"
  <2>1. u.incomming_bytes_ = <<>> /\ GotOf(u.ready) = GotOf(s.ready)
    BY <1>7, OnwardBytes DEF Onward
  <2>2. Len(a) = 0
    BY <1>1, <2>1
  <2>3. Len(more) = k
    BY <1>2, <1>4, <2>2
  <2>4. AnswersFit(t, ans, Len(more), n)
    BY <1>0, <2>1, <2>3 DEF AnswersFit, k
  <2> QED  BY <1>2, <1>4, <1>5, <2>3, <2>4 DEF HeardFit
<1> QED  BY <1>6, <1>7

(* ... and what it calls is what it has to write then.                     *)
AskedAfter(s, ask) ==
  IF Called(s) THEN Append(ask, Last(Handled(s).outbound_messages_.msgs))
               ELSE ask

LEMMA OnwardCalls ==
  ASSUME NEW s \in ProcessStates, NEW u, u = Handled(s), NEW t,
         Onward(s, u), s.failure = "none", s.socket = "connected",
         Pending(t) = Pending(u),
         Lone(t.ready, {"write"}, Failed("write"))
           => Lone(s.ready, {"write"}, Failed("write")),
         NEW up, NEW ask \in Seq(Requests), NEW wr \in Seq(Requests),
         CallsFit(s, up, ask, wr), IsPrefix(wr, ask),
         NEW more, more = AskedAfter(s, ask)
  PROVE  CallsFit(t, up, more, wr) /\ IsPrefix(wr, more)
<1>1. up => ask = wr \o Pending(s)
  BY DEF CallsFit
<1>2. Lone(t.ready, {"write"}, Failed("write")) => ~up
  BY DEF CallsFit
<1>3. CASE ~Called(s)
  <2>1. more = ask /\ Pending(t) = Pending(s)
    BY <1>3 DEF Onward, AskedAfter
  <2> QED  BY <1>1, <1>2, <2>1 DEF CallsFit
<1>4. CASE Called(s)
  <2>1. PICK m \in Requests :
          /\ u.outbound_messages_.msgs = Append(s.outbound_messages_.msgs, m)
          /\ Pending(u) = Append(Pending(s), m)
    BY <1>4 DEF Onward
  <2>2. s.outbound_messages_ \in Queues(Requests)
    BY DEF ProcessStates
  <2>3. /\ s.outbound_messages_.msgs \in Seq(Requests)
        /\ Rest(s.outbound_messages_) \in Seq(Requests)
    BY <2>2, FrontAndRest DEF Queues
  <2>4. Pending(s) \in Seq(Requests)
    BY <2>3 DEF Pending
  <2>5. Last(u.outbound_messages_.msgs) = m
    <3> DEFINE old == s.outbound_messages_.msgs
    <3>1. old \in Seq(Requests) /\ u.outbound_messages_.msgs = Append(old, m)
      BY <2>1, <2>3
    <3> HIDE DEF old
    <3>2. /\ Len(Append(old, m)) = Len(old) + 1
          /\ Append(old, m)[Len(old) + 1] = m
      BY <3>1, AppendProperties
    <3> QED  BY <3>1, <3>2 DEF Last
  <2>6. more = Append(ask, m)
    BY <1>4, <2>5 DEF AskedAfter
  <2>7. IsPrefix(wr, Append(ask, m))
    BY PrefixAppend
  <2>8. Append(wr \o Pending(s), m) = wr \o Append(Pending(s), m)
    <3> DEFINE r == Pending(s)
    <3>1. r \in Seq(Requests)
      BY <2>4
    <3> HIDE DEF r
    <3>2. <<m>> \in Seq(Requests)
      OBVIOUS
    <3>3. (wr \o r) \o <<m>> = wr \o (r \o <<m>>) /\ wr \o r \in Seq(Requests)
      BY <3>1, <3>2, ConcatAssociative, ConcatProperties
    <3>4. /\ Append(r, m) = r \o <<m>>
          /\ Append(wr \o r, m) = (wr \o r) \o <<m>>
      BY <3>1, <3>3, AppendIsConcat
    <3> QED  BY <3>3, <3>4 DEF r
  <2> QED  BY <1>1, <1>2, <2>1, <2>6, <2>7, <2>8 DEF CallsFit
<1> QED  BY <1>3, <1>4

(* A handler of a client runs, and no call is made without a connection.   *)
LEMMA FreshRuns ==
  ASSUME IInv, StreamIntegrity, Held, Fresh, [Next]_vars, Owns',
         NEW p \in Clients, RunHandler(p), ~stray'
  PROVE  Fresh'
<1> DEFINE s == proc[p]
           u == Handled(s)
           t == update(u)
           a == Arrived(u)
           m == Last(u.outbound_messages_.msgs)
           c == conn[p]
<1>1. ClientTypes
  BY HeldTypes
<1>2. /\ s \in ProcessStates /\ u \in ProcessStates
      /\ s.ready # <<>> /\ s.failure = "none"
      /\ t \in ProcessStates /\ Updated(u, t)
      /\ proc' = [proc EXCEPT ![p] = t]
      /\ asked' = IF Called(s) /\ Connected(p)
                    THEN [asked EXCEPT ![c] = Append(@, m)] ELSE asked
      /\ Called(s) => m \in Requests
      /\ ~(Called(s) /\ ~Connected(p))
      /\ heard' = IF isOpen(u) /\ a # <<>>
                    THEN [heard EXCEPT ![c] = @ \o a] ELSE heard
      /\ conn' = conn /\ written' = written /\ fetched' = fetched
      /\ delivered' = delivered
      /\ u.socket # "connected" \/ UNCHANGED vars
  BY RunEffect
<1>3. Placed(s)
  BY <1>2 DEF Fresh
<1>4. /\ a \in Seq(ServerCalls) /\ Len(a) = Len(u.incomming_bytes_) \div 2
  BY <1>2, ArrivedType
<1>5. /\ \A q \in Clients : q # p => conn'[q] = conn[q] /\ proc'[q] = proc[q]
      /\ \A d \in Conns : d # conn'[p] =>
           /\ written'[d] = written[d] /\ asked'[d] = asked[d]
           /\ heard'[d] = heard[d] /\ fetched'[d] = fetched[d]
  BY OnlyItsOwn
<1> HIDE DEF u, t, a, m
<1>6. proc'[p] = t
  BY <1>1, <1>2 DEF ClientTypes
<1>7. c \in Conns =>
        /\ IsPrefix(written[c], asked[c])
        /\ HeardFit(delivered[c], heard[c], fetched[c])
  BY DEF Fresh
<1>8. SUFFICES /\ t.failure = "none" => Placed(t)
               /\ c \in Conns =>
                    /\ CallsFit(t, link'[c], asked'[c], written[c])
                    /\ AnswersFit(t, delivered[c], Len(heard'[c]), fetched[c])
                    /\ IsPrefix(written[c], asked'[c])
                    /\ HeardFit(delivered[c], heard'[c], fetched[c])
  BY <1>2, <1>5, <1>6, FreshLocally
(* Not connected then: there is nothing to hear of the connection.         *)
<1>9. ASSUME t.failure = "none" => t.socket # "connected" /\ Placed(t),
             ~Called(s), ~isOpen(u) \/ a = <<>>
      PROVE  /\ t.failure = "none" => Placed(t)
             /\ c \in Conns =>
                  /\ CallsFit(t, link'[c], asked'[c], written[c])
                  /\ AnswersFit(t, delivered[c], Len(heard'[c]), fetched[c])
                  /\ IsPrefix(written[c], asked'[c])
                  /\ HeardFit(delivered[c], heard'[c], fetched[c])
  <2>1. asked' = asked /\ heard' = heard
    BY <1>2, <1>9
  <2>2. CASE t.failure = "none"
    BY <1>7, <1>9, <2>1, <2>2, TryingFits
  <2>3. CASE t.failure # "none"
    BY <1>7, <2>1, <2>3 DEF CallsFit, AnswersFit
  <2> QED  BY <2>2, <2>3
<1>10. CASE Trying(s) \/ Lost(s)
  <2>1. ~Called(s)
    <3>1. s.socket # "connected"
      BY <1>10, NotConnected
    <3> QED  BY <1>2, <3>1 DEF Connected
  <2>2. CASE Trying(s)
    <3>1. Trying(t) /\ u.incomming_bytes_ = <<>>
      BY <1>2, <2>1, <2>2, TryingStep DEF u
    <3>2. t.socket # "connected" /\ Placed(t)
      BY <3>1, NotConnected DEF Placed
    <3>3. a = <<>>
      <4>1. Len(a) = 0
        BY <1>4, <3>1
      <4> QED  BY <1>4, <4>1, EmptySeq
    <3> QED  BY <1>9, <2>1, <3>2, <3>3
  <2>3. CASE Lost(s)
    <3>1. ~isOpen(u) /\ (t.failure = "none" => Lost(t))
      BY <1>2, <2>1, <2>3, LostStep DEF u
    <3>2. t.failure = "none" => t.socket # "connected" /\ Placed(t)
      BY <3>1, NotConnected DEF Placed
    <3> QED  BY <1>9, <2>1, <3>1, <3>2
  <2> QED  BY <1>10, <2>2, <2>3
<1>11. CASE Online(s)
  <2>1. \/ Lost(t) /\ ~isOpen(u) /\ ~Called(s)
        \/ /\ Onward(s, u) /\ Online(t) /\ Pending(t) = Pending(u)
           /\ GotOf(t.ready) = GotOf(u.ready)
           /\ Lone(t.ready, {"write"}, Failed("write"))
                => Lone(s.ready, {"write"}, Failed("write"))
    BY <1>2, <1>11, OnlineStep DEF u
  <2>2. CASE Lost(t) /\ ~isOpen(u) /\ ~Called(s)
    <3>1. t.socket # "connected" /\ Placed(t)
      BY <2>2, NotConnected DEF Placed
    <3> QED  BY <1>9, <2>2, <3>1
  <2>3. CASE /\ Onward(s, u) /\ Online(t) /\ Pending(t) = Pending(u)
             /\ GotOf(t.ready) = GotOf(u.ready)
             /\ Lone(t.ready, {"write"}, Failed("write"))
                  => Lone(s.ready, {"write"}, Failed("write"))
    <3>1. Placed(t) /\ s.socket = "connected" /\ u.socket = "connected"
      BY <1>11, <2>3 DEF Placed, Online, Up, Onward, Place
    <3>2. isOpen(u) /\ link' = link
      BY <1>2, <3>1 DEF isOpen, vars
    <3>3. ASSUME c \in Conns
          PROVE  /\ CallsFit(t, link'[c], asked'[c], written[c])
                 /\ AnswersFit(t, delivered[c], Len(heard'[c]), fetched[c])
                 /\ IsPrefix(written[c], asked'[c])
                 /\ HeardFit(delivered[c], heard'[c], fetched[c])
      <4>1. /\ CallsFit(s, link[c], asked[c], written[c])
            /\ AnswersFit(s, delivered[c], Len(heard[c]), fetched[c])
        BY <3>3 DEF Fresh
      <4>2. /\ asked[c] \in Seq(Requests) /\ written[c] \in Seq(Requests)
            /\ heard[c] \in Seq(ServerCalls) /\ fetched[c] \in Nat
        BY <1>1, <3>3 DEF ClientTypes
      <4>3. Connected(p)
        BY <3>1, <3>3 DEF Connected
      <4>4. asked'[c] = IF Called(s) THEN Append(asked[c], m) ELSE asked[c]
        BY <1>1, <1>2, <3>3, <4>3 DEF ClientTypes
      <4>5. heard'[c] = IF a # <<>> THEN heard[c] \o a ELSE heard[c]
        BY <1>1, <1>2, <3>2, <3>3 DEF ClientTypes
      <4>6. CallsFit(t, link[c], asked'[c], written[c])
              /\ IsPrefix(written[c], asked'[c])
        <5> DEFINE more == asked'[c]
        <5>1. more = IF Called(s) THEN Append(asked[c], m) ELSE asked[c]
          BY <4>4
        <5>2. IsPrefix(written[c], asked[c])
          BY <1>7, <3>3
        <5> HIDE DEF more
        <5>3. CallsFit(t, link[c], more, written[c]) /\ IsPrefix(written[c], more)
          <6>1. more = AskedAfter(s, asked[c])
            BY <5>1 DEF AskedAfter, m, u
          <6> QED  BY <1>2, <2>3, <3>1, <4>1, <4>2, <5>2, <6>1, OnwardCalls DEF u
        <5> QED  BY <5>3 DEF more
      <4>7. HeardFit(delivered[c], heard'[c], fetched[c])
              /\ AnswersFit(t, delivered[c], Len(heard'[c]), fetched[c])
        BY ZenonT(60), <1>2, <1>7, <1>11, <2>3, <3>3, <4>1, <4>2, <4>5, OnwardAnswers DEF a
      <4> QED  BY <3>2, <4>6, <4>7
    <3> QED  BY <3>1, <3>3
  <2> QED  BY <2>1, <2>2, <2>3
<1> QED  BY <1>3, <1>10, <1>11 DEF Placed

-----------------------------------------------------------------------------
LEMMA StrayStays == [SysNext]_sysVars => (stray => stray')
BY DEF SysNext, sysVars, clientVars, RunHandler, ResolveCompletes,
       ConnectSucceeds, ReceiveSucceeds, ReceiveFails, CallSucceeds,
       CallFails, TimeElapses, TimerExpires, LineArrives, Reset, FrameArrives,
       ProcessFrame, ServerReads, ServerWrites, ServerHandles

LEMMA SysInitSInv == SysInit => SInv
<1> SUFFICES ASSUME SysInit PROVE SInv
  OBVIOUS
<1>1. IInv
  BY InitIInv DEF SysInit
<1>2. /\ \A c \in Conns : /\ phase[c] = "idle" /\ link[c] = FALSE
                          /\ requests[c] = <<>> /\ sent[c] = <<>>
                          /\ delivered[c] = <<>> /\ written[c] = <<>>
                          /\ asked[c] = <<>> /\ heard[c] = <<>>
                          /\ fetched[c] = 0
      /\ \A p \in Clients : conn[p] = NoClient /\ proc[p] = Constructed
  BY DEF SysInit, Init
<1>3. Constructed \in ProcessStates /\ Trying(Constructed)
  <2>1. EmptyQueue \in Queues(Requests)
    BY EmptyQueueProperties
  <2>2. Constructed \in ProcessStates
    BY <2>1, EmptySeq DEF Constructed, ProcessStates
  <2>3. /\ Without(Constructed.ready, {"write"})
        /\ Without(Constructed.ready, AttemptOps)
    BY DEF Constructed, Without
  <2> QED  BY <2>2, <2>3 DEF Constructed, Trying, NoCall, Place
<1>4. SysTypeOK /\ fetched \in [Conns -> Nat]
  <2>1. TypeOK
    BY <1>1 DEF IInv
  <2>2. 0 \in 0 .. MaxLines /\ 0 \in 0 .. MaxResets
    BY SystemBoundsAssumption
  <2>3. \A c \in Conns : fetched[c] \in 0 .. Len(delivered[c])
    BY <1>2
  <2>4. /\ <<>> \in Seq(Requests) /\ <<>> \in Seq(ServerCalls)
    BY EmptySeq
  <2> QED  BY <1>3, <2>1, <2>2, <2>3, <2>4 DEF SysInit, SysTypeOK
<1>5. Kinds
  BY <1>2 DEF Kinds
<1>6. Owns
  BY <1>2, ConnsAssumption DEF Owns
<1>7. ASSUME NEW S PROVE IsPrefix(<<>>, <<>>)
  <2> DEFINE e == <<>>
  <2>1. e \in Seq(S) /\ Len(e) = 0
    BY EmptySeq
  <2> HIDE DEF e
  <2>2. Len(e) <= Len(e) /\ \A i \in 1 .. Len(e) : e[i] = e[i]
    BY <2>1
  <2>3. IsPrefix(e, e)
    BY <2>1, <2>2, PrefixElements
  <2> QED  BY <2>3 DEF e
<1>8. \A c \in Conns : OnWire(requests[c], written[c], phase[c], reading[c])
  BY <1>2, <1>7 DEF OnWire
<1>9. Fresh
  <2>1. \A p \in Clients : Placed(proc[p])
    BY <1>2, <1>3 DEF Placed
  <2>2. \A p \in Clients : conn[p] \notin Conns
    BY <1>2, ConnsAssumption
  <2>3. \A c \in Conns : HeardFit(delivered[c], heard[c], fetched[c])
    BY <1>2 DEF HeardFit
  <2> QED  BY <1>2, <1>7, <2>1, <2>2, <2>3 DEF Fresh
<1> QED  BY <1>4, <1>5, <1>6, <1>8, <1>9 DEF SInv, Held

LEMMA SysNextSInv ==
  IInv /\ IInv' /\ RInv /\ StreamIntegrity /\ SInv /\ [SysNext]_sysVars => SInv'
<1> SUFFICES ASSUME IInv, IInv', RInv, StreamIntegrity, SInv,
                    [SysNext]_sysVars
             PROVE  SInv'
  OBVIOUS
<1>1. Held /\ Held'
  BY HeldStep DEF SInv
<1>2. Owns' /\ [Next]_vars
  BY <1>1, SystemMoves DEF Held
<1>3. SUFFICES ASSUME ~stray' PROVE Fresh'
  BY <1>1 DEF SInv
<1>4. Fresh
  BY <1>3, StrayStays DEF SInv
<1>5. CASE UNCHANGED <<proc, conn, written, fetched, asked, heard>>
  BY <1>1, <1>2, <1>4, <1>5, FreshDrifts
<1>6. ASSUME NEW p \in Clients,
             \/ RunHandler(p) \/ ResolveCompletes(p) \/ ConnectSucceeds(p)
             \/ ReceiveSucceeds(p) \/ ReceiveFails(p)
             \/ CallSucceeds(p) \/ CallFails(p)
             \/ TimeElapses(p) \/ TimerExpires(p) \/ LineArrives(p)
      PROVE  Fresh'
  BY <1>1, <1>2, <1>3, <1>4, <1>6, FreshRuns, FreshAttempt, FreshConnects,
     FreshReceives, FreshWrites, FreshLine
<1>7. ASSUME NEW p \in Clients, Reset(p)
      PROVE  UNCHANGED <<proc, conn, written, fetched, asked, heard>>
  BY <1>7 DEF Reset
<1>8. ASSUME NEW c \in Conns,
             \/ FrameArrives(c) \/ ProcessFrame(c)
             \/ ServerReads(c) \/ ServerWrites(c) \/ ServerHandles(c)
      PROVE  UNCHANGED <<proc, conn, written, fetched, asked, heard>>
  BY <1>8 DEF FrameArrives, ProcessFrame, ServerReads, ServerWrites,
              ServerHandles, clientVars
<1> QED  BY <1>5, <1>6, <1>7, <1>8 DEF SysNext, sysVars, clientVars

(* What the invariant says of calls and answers.                           *)
LEMMA SInvNothingStale ==
  ASSUME IInv, StreamIntegrity, SInv
  PROVE  SysTypeOK /\ NothingStale
<1>1. SysTypeOK /\ ClientTypes
  BY HeldTypes DEF SInv, Held
<1>2. ASSUME NEW c \in Conns PROVE IsPrefix(requests[c], written[c])
  BY DEF SInv, Held, OnWire
<1>3. ASSUME NEW c \in Conns, Fresh
      PROVE  /\ IsPrefix(written[c], asked[c])
             /\ IsPrefix(heard[c], [i \in DOMAIN sent[c] |-> sent[c][i].reply])
  <2> DEFINE answers == [i \in DOMAIN sent[c] |-> sent[c][i].reply]
  <2>1. /\ IsPrefix(written[c], asked[c])
        /\ HeardFit(delivered[c], heard[c], fetched[c])
    BY <1>3 DEF Fresh
  <2>2. /\ sent[c] \in Seq(Messages) /\ Len(sent[c]) \in Nat
        /\ Len(delivered[c]) \in Nat /\ Len(delivered[c]) <= Len(sent[c])
        /\ \A i \in 1 .. Len(delivered[c]) : delivered[c][i] = sent[c][i]
    BY DeliveredKinds DEF IInv, SInv, Held
  <2>3. \A i \in 1 .. Len(sent[c]) : sent[c][i].reply \in ServerCalls
    BY DEF SInv, Held, Kinds
  <2>4. DOMAIN sent[c] = 1 .. Len(sent[c])
    BY <2>2, LenProperties
  <2>5. /\ answers \in Seq(ServerCalls) /\ Len(answers) = Len(sent[c])
        /\ \A i \in 1 .. Len(sent[c]) : answers[i] = sent[c][i].reply
    BY <2>2, <2>3, <2>4
  <2> HIDE DEF answers
  <2>6. /\ heard[c] \in Seq(ServerCalls) /\ Len(heard[c]) \in Nat
        /\ fetched[c] \in Nat /\ fetched[c] <= Len(delivered[c])
    <3>1. heard[c] \in Seq(ServerCalls) /\ fetched[c] \in Nat
      BY <1>1 DEF ClientTypes
    <3> QED  BY <3>1, LenProperties, HeldTypes DEF SInv
  <2>7. /\ Len(heard[c]) <= Len(answers)
        /\ \A i \in 1 .. Len(heard[c]) : heard[c][i] = answers[i]
    BY SMTT(30), <2>1, <2>2, <2>5, <2>6 DEF HeardFit
  <2>8. IsPrefix(heard[c], answers)
    BY <2>5, <2>6, <2>7, PrefixElements
  <2> QED  BY <2>1, <2>8 DEF answers
<1> QED  BY <1>1, <1>2, <1>3 DEF NothingStale, SInv

LEMMA SystemInvariant == SysSpec => [](IInv /\ RInv /\ StreamIntegrity /\ SInv)
<1>1. SysInit => IInv /\ RInv /\ StreamIntegrity /\ SInv
  BY InitIInv, InitRInv, StreamInit, SysInitSInv DEF SysInit
<1>2. IInv /\ RInv /\ StreamIntegrity /\ SInv /\ [SysNext]_sysVars
        => (IInv /\ RInv /\ StreamIntegrity /\ SInv)'
  BY SystemMoves, NextIInv, NextRInv, StreamNext, SysNextSInv
<1> QED  BY <1>1, <1>2, PTL DEF SysSpec

(* The two programs together: what a process is given, fetches, calls and  *)
(* dispatches is of its type, and nobody reads more than there is.         *)
THEOREM SystemTypeCorrect == SysSpec => []SysTypeOK
<1>1. IInv /\ RInv /\ StreamIntegrity /\ SInv => SysTypeOK
  BY SInvNothingStale
<1> QED  BY <1>1, SystemInvariant, PTL

(* However connections are reset and made again, the server reads just the *)
(* calls made on a connection and a client dispatches just the answers to  *)
(* it, in order and once, unless something was called with no connection.  *)
THEOREM NothingStaleCorrect == SysSpec => []NothingStale
<1>1. IInv /\ RInv /\ StreamIntegrity /\ SInv => NothingStale
  BY SInvNothingStale
<1> QED  BY <1>1, SystemInvariant, PTL

-----------------------------------------------------------------------------
(* Sums, and the dialogues a client has at its terminal.                   *)

(* What the elements of E add to the sum.                                  *)
PartOf(f, E) == UNION {{y} \X (1 .. f[y]) : y \in E}

LEMMA PartsFinite ==
  ASSUME NEW D, IsFiniteSet(D), NEW f \in [D -> Nat]
  PROVE  IsFiniteSet(PartOf(f, D))
<1> DEFINE g == [y \in D |-> {y} \X (1 .. f[y])]
           S == {{y} \X (1 .. f[y]) : y \in D}
<1>1. g \in Surjection(D, S)
  BY DEF Surjection
<1>2. IsFiniteSet(S)
  BY <1>1, FS_Surjection
<1>3. ASSUME NEW y \in D PROVE IsFiniteSet({y} \X (1 .. f[y]))
  <2>1. f[y] \in Int /\ 1 \in Int
    OBVIOUS
  <2>2. IsFiniteSet(1 .. f[y]) /\ IsFiniteSet({y})
    BY <2>1, FS_Singleton, FS_Interval
  <2> QED  BY <2>2, FS_Product
<1>4. \A T \in S : IsFiniteSet(T)
  BY <1>3
<1> HIDE DEF S
<1>5. IsFiniteSet(UNION S)
  BY <1>2, <1>4, FS_UNION
<1> QED  BY <1>5 DEF S, PartOf

LEMMA TotalSplit ==
  ASSUME NEW D, IsFiniteSet(D), NEW f \in [D -> Nat], NEW x \in D
  PROVE  /\ Cardinality(PartOf(f, D \ {x})) \in Nat
         /\ Total(f) = Cardinality(PartOf(f, D \ {x})) + f[x]
<1> DEFINE R == PartOf(f, D \ {x})
           T == {x} \X (1 .. f[x])
<1>1. Total(f) = Cardinality(PartOf(f, D))
  BY DEF Total, PartOf
<1>2. PartOf(f, D) = R \cup T
  BY DEF PartOf
<1>3. R \cap T = {}
  BY DEF PartOf
<1>4. IsFiniteSet(PartOf(f, D))
  BY PartsFinite
<1>5. IsFiniteSet(R) /\ IsFiniteSet(T)
  BY <1>2, <1>4, FS_Subset
<1>6. Cardinality(T) = f[x]
  <2>1. f[x] \in Nat /\ 1 \in Int /\ f[x] \in Int
    OBVIOUS
  <2>2. /\ IsFiniteSet(1 .. f[x]) /\ Cardinality(1 .. f[x]) = f[x]
    BY <2>1, FS_Interval
  <2>3. IsFiniteSet({x}) /\ Cardinality({x}) = 1
    BY FS_Singleton
  <2>4. Cardinality(T) = Cardinality({x}) * Cardinality(1 .. f[x])
    BY <2>2, <2>3, FS_Product
  <2> QED  BY <2>1, <2>2, <2>3, <2>4
<1> HIDE DEF R, T
<1>7. Cardinality(R) \in Nat /\ Cardinality({}) = 0
  BY <1>5, FS_CardinalityType, FS_EmptySet
<1>8. Cardinality(R \cup T) = Cardinality(R) + Cardinality(T)
  <2>1. Cardinality(R \cup T)
          = Cardinality(R) + Cardinality(T) - Cardinality(R \cap T)
    BY <1>5, FS_Union
  <2> QED  BY <1>3, <1>6, <1>7, <2>1
<1> QED  BY <1>1, <1>2, <1>6, <1>7, <1>8 DEF R

LEMMA TotalChange ==
  ASSUME NEW D, IsFiniteSet(D), NEW f \in [D -> Nat], NEW g \in [D -> Nat],
         NEW x \in D, \A y \in D : y # x => g[y] = f[y]
  PROVE  /\ Total(f) \in Nat /\ Total(g) \in Nat
         /\ Total(g) = Total(f) - f[x] + g[x]
<1>1. PartOf(g, D \ {x}) = PartOf(f, D \ {x})
  <2>1. \A y \in D \ {x} : {y} \X (1 .. g[y]) = {y} \X (1 .. f[y])
    OBVIOUS
  <2> QED  BY <2>1 DEF PartOf
<1> DEFINE n == Cardinality(PartOf(f, D \ {x}))
<1>2. n \in Nat /\ Total(f) = n + f[x]
  BY TotalSplit
<1>3. Total(g) = n + g[x]
  BY <1>1, TotalSplit
<1> HIDE DEF n
<1> QED  BY <1>2, <1>3

(* update() dispatches what has arrived, one after the other.              *)
Dispatches(s, done) ==
  /\ done[0] = [s EXCEPT !.incomming_bytes_ = <<>>]
  /\ \A i \in 1 .. Len(Arrived(s)) :
       done[i] = Dispatch(done[i - 1], Arrived(s)[i])
  /\ \A i \in 0 .. Len(Arrived(s)) : done[i] \in ProcessStates
  /\ update(s) = done[Len(Arrived(s))]

LEMMA UpdateDispatches ==
  ASSUME NEW s \in ProcessStates, isOpen(s)
  PROVE  \E f : Dispatches(s, f)
<1> DEFINE a == Arrived(s)
           base == [s EXCEPT !.incomming_bytes_ = <<>>]
           done[i \in 0 .. Len(a)] ==
             IF i = 0 THEN base ELSE Dispatch(done[i - 1], a[i])
           R(f) == Dispatching(f, base, a, Len(a))
           S == {i \in Nat : i <= Len(a) => done[i] \in ProcessStates}
<1>1. update(s) = done[Len(a)]
  BY DEF update
<1>2. a \in Seq(ServerCalls) /\ Len(a) \in Nat
  BY ArrivedType, LenProperties
<1>3. R(done)
  <2>1. \E f : R(f)
    BY <1>2, DispatchingExists
  <2>2. done = CHOOSE f : R(f)
    BY DEF Dispatching
  <2> QED  BY <2>1, <2>2
<1>4. base \in ProcessStates
  BY EmptySeq DEF ProcessStates
<1> HIDE DEF a, base, done
<1>5. \A i \in 0 .. Len(a) :
        done[i] = IF i = 0 THEN base ELSE Dispatch(done[i - 1], a[i])
  BY <1>3 DEF Dispatching
<1>6. done[0] = base
  BY <1>2, <1>5
<1>7. \A i \in 1 .. Len(a) : done[i] = Dispatch(done[i - 1], a[i])
  <2>1. \A i \in 1 .. Len(a) : i \in 0 .. Len(a) /\ i # 0
    BY <1>2
  <2> QED  BY <1>5, <2>1
<1>8. ASSUME NEW i \in Nat, i \in S PROVE i + 1 \in S
  <2> SUFFICES ASSUME i + 1 <= Len(a) PROVE done[i + 1] \in ProcessStates
    OBVIOUS
  <2>1. i + 1 \in 1 .. Len(a) /\ i + 1 - 1 = i /\ i <= Len(a)
    BY <1>2
  <2>2. done[i] \in ProcessStates /\ a[i + 1] \in ServerCalls
    BY <1>2, <1>8, <2>1, ElementOfSeq
  <2>3. done[i + 1] = Dispatch(done[i], a[i + 1])
    BY <1>7, <2>1
  <2> QED  BY <2>2, <2>3, DispatchAside
<1>9. \A i \in 0 .. Len(a) : done[i] \in ProcessStates
  <2>1. 0 \in S
    BY <1>4, <1>6
  <2>2. Nat \subseteq S
    BY <1>8, <2>1, SetInduction
  <2> QED  BY <1>2, <2>2
<1>10. Dispatches(s, done)
  BY <1>1, <1>6, <1>7, <1>9 DEF Dispatches, a, base
<1> QED  BY <1>10

(* Each answer that has arrived brings at most one dialogue back.          *)
LEMMA UpdateAsks ==
  ASSUME NEW s \in ProcessStates, isOpen(s)
  PROVE  /\ Asking(update(s)) <= Asking(s) + Len(Arrived(s))
         /\ Len(Arrived(s)) = 0 => AtTerminal(s, update(s))
         /\ Len(Arrived(s)) = 1 /\ Silent(s)
              /\ Arrived(s)[1] # "on_subscribeShip" => Asked(update(s))
<1> DEFINE a == Arrived(s)
           S(f) == {i \in Nat : i <= Len(a) => Asking(f[i]) <= Asking(s) + i}
<1>1. a \in Seq(ServerCalls) /\ Len(a) \in Nat
  BY ArrivedType, LenProperties
<1>2. PICK f : Dispatches(s, f)
  BY UpdateDispatches
<1> HIDE DEF a
<1>3. /\ f[0] = [s EXCEPT !.incomming_bytes_ = <<>>]
      /\ \A i \in 1 .. Len(a) : f[i] = Dispatch(f[i - 1], a[i])
      /\ \A i \in 0 .. Len(a) : f[i] \in ProcessStates
      /\ update(s) = f[Len(a)]
  BY <1>2 DEF Dispatches, a
<1>4. AtTerminal(s, f[0])
  BY <1>3 DEF AtTerminal, ProcessStates
<1>5. Asking(f[0]) = Asking(s) /\ (Silent(s) => Silent(f[0])) /\ Asking(s) \in Nat
  BY <1>4, SameTerminal, AskingType
<1>6. ASSUME NEW i \in Nat, i \in S(f) PROVE i + 1 \in S(f)
  <2> SUFFICES ASSUME i + 1 <= Len(a)
               PROVE  Asking(f[i + 1]) <= Asking(s) + (i + 1)
    OBVIOUS
  <2>1. /\ i + 1 \in 1 .. Len(a) /\ i + 1 - 1 = i /\ i <= Len(a)
        /\ i \in 0 .. Len(a) /\ i + 1 \in 0 .. Len(a)
    BY <1>1
  <2>2. /\ f[i] \in ProcessStates /\ f[i + 1] \in ProcessStates
        /\ a[i + 1] \in ServerCalls
    BY <1>1, <1>3, <2>1, ElementOfSeq
  <2>3. f[i + 1] = Dispatch(f[i], a[i + 1])
    BY <1>3, <2>1
  <2>4. Asking(f[i + 1]) <= Asking(f[i]) + 1
    BY <2>2, <2>3, DispatchAsks
  <2>5. /\ Asking(f[i]) \in Nat /\ Asking(f[i + 1]) \in Nat
        /\ Asking(f[i]) <= Asking(s) + i
    BY <1>6, <2>1, <2>2, AskingType
  <2> QED  BY <1>5, <2>4, <2>5
<1>7. Asking(update(s)) <= Asking(s) + Len(a)
  <2>1. 0 \in S(f)
    BY <1>5
  <2> HIDE DEF S
  <2>2. Nat \subseteq S(f)
    BY <1>6, <2>1, SetInduction
  <2> QED  BY <1>1, <1>3, <2>2 DEF S
<1>8. Len(a) = 0 => AtTerminal(s, update(s))
  BY <1>3, <1>4
<1>9. ASSUME Len(a) = 1, Silent(s), a[1] # "on_subscribeShip"
      PROVE  Asked(update(s))
  <2>1. 1 \in 1 .. Len(a) /\ 0 \in 0 .. Len(a) /\ 1 - 1 = 0
    BY <1>9
  <2>2. update(s) = Dispatch(f[0], a[1]) /\ f[0] \in ProcessStates
    BY <1>3, <1>9, <2>1
  <2>3. a[1] \in ServerCalls
    BY <1>1, <2>1, ElementOfSeq
  <2> QED  BY <1>5, <1>9, <2>2, <2>3, DispatchAsks
<1> QED  BY <1>7, <1>8, <1>9 DEF a

-----------------------------------------------------------------------------
(* The server, while no connection is lost: nothing fails there.           *)
ServerUp(c) ==
  /\ phase[c] # "idle" => link[c]
  /\ phase[c] # "gone" /\ reading[c] # "err" /\ writing[c] # "err"
  /\ c \in clients_ => socket_open[c]

LEMMA WritesRegistered ==
  ASSUME IInv, NEW c \in Conns, ServerUp(c)
  PROVE  /\ writing[c] # "idle" => c \in clients_
         /\ phase[c] \in {"size", "data"} <=> c \in clients_
         /\ c \in clients_ => Started(c) = "pending"
<1>1. phase[c] \in Phases
  BY DEF IInv, TypeOK
<1>2. phase[c] \in {"size", "data"} <=> c \in clients_
  BY DEF IInv, ChainIffRegistered
<1>3. writing[c] # "idle" => phase[c] \notin {"idle", "backlog"}
  BY DEF IInv, NothingBeforeAccept
<1> QED  BY <1>1, <1>2, <1>3 DEF ServerUp, Phases, Started

(* A frame is processed: the one call there is, setUserName, is answered   *)
(* once.  If it succeeds the answer is for who asked.                      *)
LEMMA FrameAnswered ==
  ASSUME IInv, Held, NEW c \in Conns, ProcessFrame(c)
  PROVE  /\ requests' = [requests EXCEPT ![c] = Append(@, written[c][Len(requests[c]) + 1])]
         /\ written[c][Len(requests[c]) + 1] \in Calls
         /\ \/ Send({c}, [reply |-> "on_setUserName_succeeded"])
            \/ \E d \in clients_ : Send({d}, [reply |-> "on_setUserName_failed"])
<1>1. PICK r \in Calls : /\ Process(c, r, [from |-> c,
                                           no |-> Len(requests[c]) + 1])
                         /\ requests' = [requests EXCEPT ![c] = Append(@, r)]
  BY DEF ProcessFrame, OnFrameData, BeforeProcess
<1>2. /\ requests \in [Conns -> Seq(Calls)] /\ written \in [Conns -> Seq(Requests)]
      /\ Len(requests[c]) \in Nat /\ Len(written[c]) \in Nat
      /\ requests[c] \in Seq(Calls) /\ written[c] \in Seq(Requests)
  <2>1. requests \in [Conns -> Seq(Calls)] /\ written \in [Conns -> Seq(Requests)]
    BY DEF Held, SysTypeOK, TypeOK
  <2> QED  BY <2>1, LenProperties
<1>3. Len(requests[c]) < Len(written[c])
  BY DEF Held, OnWire, ProcessFrame, OnFrameData
<1>4. r = written[c][Len(requests[c]) + 1]
  <2>1. Append(requests[c], r)
          = Append(requests[c], written[c][Len(requests[c]) + 1])
    BY <1>1, <1>2 DEF ProcessFrame
  <2>2. /\ Append(requests[c], r)[Len(requests[c]) + 1] = r
        /\ written[c][Len(requests[c]) + 1] \in Requests
    BY <1>2, <1>3, AppendProperties, ElementOfSeq
  <2>3. Append(requests[c], written[c][Len(requests[c]) + 1])[Len(requests[c]) + 1]
          = written[c][Len(requests[c]) + 1]
    OBVIOUS
  <2> QED  BY <2>1, <2>2, <2>3
<1>5. r \in Requests
  BY <1>2, <1>3, <1>4, ElementOfSeq
<1>6. r.call = "setUserName"
  BY <1>5 DEF Requests
<1>7. setUserName(c, r.name)
  BY <1>1, <1>6 DEF Process
<1>8. \/ Send({c}, [reply |-> "on_setUserName_succeeded"])
      \/ \E d \in clients_ : Send({d}, [reply |-> "on_setUserName_failed"])
  BY <1>7 DEF setUserName
<1> QED  BY <1>1, <1>4, <1>8

(* No operation of the server fails while it answers.                      *)
LEMMA SendUp ==
  ASSUME IInv, NEW d \in clients_, NEW m, Send({d}, m),
         \A c \in Conns : ServerUp(c)
  PROVE  \A c \in Conns : writing'[c] # "err"
<1>1. d \in Conns
  BY DEF IInv, TypeOK
<1>2. Started(d) = "pending" /\ writing[d] # "err"
  BY <1>1, WritesRegistered DEF ServerUp
<1>3. Write(d, m).writing # "err"
  BY <1>2 DEF Write, AsyncWriteOne
<1> QED  BY <1>3 DEF Send, ServerUp

LEMMA ServerUpStep ==
  ASSUME IInv, Held, \A c \in Conns : ServerUp(c), NEW d \in Conns,
         \/ UNCHANGED vars \/ Connect(d) \/ FrameArrives(d) \/ ProcessFrame(d)
         \/ ServerReads(d) \/ ServerWrites(d) \/ ServerHandles(d)
  PROVE  \A c \in Conns : ServerUp(c)'
<1> USE DEF readVars, writeVars, mixinVars, logVars
<1>1. /\ phase \in [Conns -> Phases] /\ reading \in [Conns -> Outcomes]
      /\ socket_open \in [Conns -> BOOLEAN] /\ link \in [Conns -> BOOLEAN]
      /\ writing \in [Conns -> {"idle"} \cup Outcomes]
      /\ clients_ \subseteq Conns
  BY DEF IInv, TypeOK
<1>2. \A c \in Conns :
        /\ writing[c] # "idle" => c \in clients_
        /\ phase[c] \in {"size", "data"} <=> c \in clients_
        /\ c \in clients_ => Started(c) = "pending"
  BY WritesRegistered
<1>3. CASE UNCHANGED vars
  BY <1>3 DEF vars, ServerUp
<1>4. CASE Connect(d)
  BY <1>1, <1>4 DEF Connect, ServerUp
<1>5. CASE FrameArrives(d)
  BY <1>1, <1>5 DEF FrameArrives, FrameSizeArrives, ServerUp
<1>6. CASE ServerReads(d)
  <2>1. ~ReadFails(d)
    BY DEF ReadFails, ServerUp
  <2> QED  BY <1>1, <1>6, <2>1 DEF ServerReads, FrameDataArrives, ServerUp
<1>7. CASE ServerWrites(d)
  <2>1. ~WriteFails(d) /\ ~OnWriteError(d)
    <3>1. writing[d] = "pending" => link[d]
      BY <1>2 DEF ServerUp
    <3> QED  BY <3>1 DEF WriteFails, OnWriteError, ServerUp
  <2>2. CASE WriteSucceeds(d)
    BY <1>1, <2>2 DEF WriteSucceeds, ServerUp
  <2>3. CASE OnWriteOk(d)
    <3>1. Started(d) = "pending"
      BY <1>2, <2>3 DEF OnWriteOk
    <3>2. \A c \in Conns : writing'[c] # "err"
      BY <1>1, <2>3, <3>1 DEF OnWriteOk, AsyncWriteOne, ServerUp
    <3> QED  BY <2>3, <3>2 DEF OnWriteOk, ServerUp
  <2> QED  BY <1>7, <2>1, <2>2, <2>3 DEF ServerWrites
<1>8. CASE ServerHandles(d)
  <2>1. ~OnReadError(d)
    BY DEF OnReadError, ServerUp
  <2>2. CASE Accept(d)
    BY <1>1, <2>2 DEF Accept, ServerUp
  <2>3. CASE OnFrameSize(d)
    <3>1. Started(d) = "pending"
      BY <1>2, <2>3 DEF OnFrameSize
    <3> QED  BY <1>1, <2>3, <3>1 DEF OnFrameSize, ServerUp
  <2> QED  BY <1>8, <2>1, <2>2, <2>3 DEF ServerHandles
<1>9. CASE ProcessFrame(d)
  <2>1. Started(d) = "pending" /\ d \in clients_
    BY <1>2, <1>9 DEF ProcessFrame, OnFrameData
  <2>2. \E m : \E e \in clients_ : Send({e}, m)
    BY <1>9, <2>1, FrameAnswered
  <2>3. \A c \in Conns : writing'[c] # "err"
    BY <2>2, SendUp
  <2>4. /\ phase' = [phase EXCEPT ![d] = "size"]
        /\ reading' = [reading EXCEPT ![d] = "pending"]
        /\ UNCHANGED <<socket_open, clients_, link>> /\ phase[d] = "data"
    BY <1>9, <2>1 DEF ProcessFrame, OnFrameData
  <2> QED  BY <1>1, <2>3, <2>4 DEF ServerUp
<1> QED  BY <1>3, <1>4, <1>5, <1>6, <1>7, <1>8, <1>9

-----------------------------------------------------------------------------
(* The sum of the dialogues.                                               *)
Dialogues == Total([p \in Clients |-> Asking(proc[p])])
               + Total([c \in Conns |-> OnTheWay(c)])

(* While nothing was called without a connection, no call is processed     *)
(* that was not made, and no answer dispatched that was not sent.          *)
LEMMA WayType ==
  ASSUME IInv, StreamIntegrity, Held, Fresh, NEW c \in Conns
  PROVE  /\ OnTheWay(c) \in Nat
         /\ Len(asked[c]) \in Nat /\ Len(requests[c]) \in Nat
         /\ Len(sent[c]) \in Nat /\ Len(heard[c]) \in Nat
         /\ Len(heard[c]) <= Len(sent[c])
         /\ \A i \in 1 .. Len(heard[c]) : heard[c][i] = sent[c][i].reply
<1>1. ClientTypes /\ TypeOK
  BY HeldTypes
<1>2. /\ asked[c] \in Seq(Requests) /\ written[c] \in Seq(Requests)
      /\ requests[c] \in Seq(Calls) /\ sent[c] \in Seq(Messages)
      /\ heard[c] \in Seq(ServerCalls) /\ fetched[c] \in Nat
  BY <1>1 DEF ClientTypes, TypeOK
<1>3. /\ Len(asked[c]) \in Nat /\ Len(written[c]) \in Nat
      /\ Len(requests[c]) \in Nat /\ Len(sent[c]) \in Nat
      /\ Len(heard[c]) \in Nat
  BY <1>2, LenProperties
<1>4. Len(written[c]) <= Len(asked[c])
  BY <1>2, PrefixElements DEF Fresh
<1>5. Len(requests[c]) <= Len(written[c])
  BY DEF Held, OnWire, IsPrefix
<1>6. /\ fetched[c] <= Len(delivered[c]) /\ Len(delivered[c]) \in Nat
      /\ Len(delivered[c]) <= Len(sent[c])
      /\ \A i \in 1 .. Len(delivered[c]) : delivered[c][i] = sent[c][i]
  BY HeldTypes, DeliveredKinds DEF Held
<1>7. /\ Len(heard[c]) <= fetched[c]
      /\ \A i \in 1 .. Len(heard[c]) : heard[c][i] = delivered[c][i].reply
  BY DEF Fresh, HeardFit
<1>8. \A i \in 1 .. Len(heard[c]) : heard[c][i] = sent[c][i].reply
  <2>1. \A i \in 1 .. Len(heard[c]) : i \in 1 .. Len(delivered[c])
    BY <1>2, <1>3, <1>6, <1>7
  <2> QED  BY <1>6, <1>7, <2>1
<1>9. Len(heard[c]) <= Len(sent[c]) /\ Len(requests[c]) <= Len(asked[c])
  BY <1>2, <1>3, <1>4, <1>5, <1>6, <1>7
<1>10. OnTheWay(c) \in Nat
  <2> DEFINE a == Len(asked[c])
             r == Len(requests[c])
             s == Len(sent[c])
             h == Len(heard[c])
  <2>1. /\ a \in Nat /\ r \in Nat /\ s \in Nat /\ h \in Nat
        /\ h <= s /\ r <= a
    BY <1>3, <1>9
  <2>2. OnTheWay(c) = (a - r) + (s - h)
    BY DEF OnTheWay
  <2> HIDE DEF a, r, s, h
  <2> QED  BY <2>1, <2>2
<1> QED  BY <1>3, <1>8, <1>9, <1>10

SumSound == IInv /\ StreamIntegrity /\ Held /\ Fresh

Numbers == /\ [p \in Clients |-> Asking(proc[p])] \in [Clients -> Nat]
           /\ [c \in Conns |-> OnTheWay(c)] \in [Conns -> Nat]

LEMMA SumNumbers == SumSound => Numbers
<1> SUFFICES ASSUME SumSound PROVE Numbers
  OBVIOUS
<1>1. \A p \in Clients : proc[p] \in ProcessStates
  BY HeldTypes DEF ClientTypes, SumSound
<1>2. [p \in Clients |-> Asking(proc[p])] \in [Clients -> Nat]
  BY <1>1, AskingType
<1>3. [c \in Conns |-> OnTheWay(c)] \in [Conns -> Nat]
  BY WayType DEF SumSound
<1> QED  BY <1>2, <1>3 DEF Numbers

LEMMA NumbersNext == SumSound' => Numbers'
BY SumNumbers, PTL

(* What one client and one connection change of the sum.                   *)
LEMMA SumChanges ==
  ASSUME SumSound, SumSound', NEW p \in Clients, NEW c \in Conns,
         \A q \in Clients : q # p => Asking(proc'[q]) = Asking(proc[q]),
         \A d \in Conns : d # c => OnTheWay(d)' = OnTheWay(d)
  PROVE  /\ Dialogues \in Nat /\ Dialogues' \in Nat
         /\ Dialogues' = (Dialogues - (Asking(proc[p]) + OnTheWay(c)))
                           + (Asking(proc'[p]) + OnTheWay(c)')
<1> DEFINE f == [q \in Clients |-> Asking(proc[q])]
           g == [q \in Clients |-> Asking(proc'[q])]
           v == [d \in Conns |-> OnTheWay(d)]
           w == [d \in Conns |-> OnTheWay(d)']
<1>1. f \in [Clients -> Nat] /\ v \in [Conns -> Nat]
  BY SumNumbers DEF Numbers
<1>2. g \in [Clients -> Nat] /\ w \in [Conns -> Nat]
  BY NumbersNext DEF Numbers
<1>4. IsFiniteSet(Clients) /\ IsFiniteSet(Conns)
  BY ClientsAssumption, ConnsAssumption
<1>5. /\ \A q \in Clients : q # p => g[q] = f[q]
      /\ \A d \in Conns : d # c => w[d] = v[d]
  OBVIOUS
<1>6. /\ f[p] = Asking(proc[p]) /\ g[p] = Asking(proc'[p])
      /\ v[c] = OnTheWay(c) /\ w[c] = OnTheWay(c)'
  OBVIOUS
<1>7. Dialogues = Total(f) + Total(v) /\ Dialogues' = Total(g) + Total(w)
  BY DEF Dialogues
<1> HIDE DEF f, g, v, w
<1>8. /\ Total(f) \in Nat /\ Total(g) \in Nat
      /\ Total(g) = Total(f) - f[p] + g[p]
  BY <1>1, <1>2, <1>4, <1>5, TotalChange
<1>9. /\ Total(v) \in Nat /\ Total(w) \in Nat
      /\ Total(w) = Total(v) - v[c] + w[c]
  BY <1>1, <1>2, <1>4, <1>5, TotalChange
<1>10. f[p] \in Nat /\ g[p] \in Nat /\ v[c] \in Nat /\ w[c] \in Nat
  BY <1>1, <1>2
<1> QED  BY <1>6, <1>7, <1>8, <1>9, <1>10

(* A call that is processed is an answer then, on its way to the client    *)
(* that called, or to another one if the name is refused.                  *)
Answered == {"on_setUserName_succeeded", "on_setUserName_failed"}

OnlyAnswers ==
  \A c \in Conns : \A i \in 1 .. Len(sent[c]) : sent[c][i].reply \in Answered

Plus(x, e) == IF x = e THEN 1 ELSE 0

LEMMA PlusValues ==
  \A x, e : /\ x = e => Plus(x, e) = 1
            /\ x # e => Plus(x, e) = 0
BY DEF Plus

LEMMA FrameWays ==
  ASSUME SumSound, NEW c \in Conns, ProcessFrame(c)
  PROVE  \E d \in Conns :
           /\ \A e \in Conns :
                OnTheWay(e)' = (OnTheWay(e) - Plus(c, e)) + Plus(d, e)
           /\ OnTheWay(c) > 0
           /\ d = c \/ Refused'
           /\ Refused => Refused'
           /\ OnlyAnswers => OnlyAnswers'
<1>1. PICK x \in Answered, d \in clients_ :
        /\ Send({d}, [reply |-> x])
        /\ x = "on_setUserName_failed" \/ d = c
  <2>1. c \in clients_
    BY DEF ProcessFrame, OnFrameData, SumSound, IInv, ChainIffRegistered
  <2> QED  BY <2>1, FrameAnswered DEF Answered, SumSound
<1>2. d \in Conns
  BY DEF SumSound, IInv, TypeOK
<1> DEFINE r == written[c][Len(requests[c]) + 1]
           m == [reply |-> x]
<1>3. /\ requests' = [requests EXCEPT ![c] = Append(@, r)] /\ r \in Calls
  BY FrameAnswered DEF SumSound
<1>4. /\ requests \in [Conns -> Seq(Calls)] /\ sent \in [Conns -> Seq(Messages)]
      /\ m \in Messages
  BY DEF SumSound, IInv, TypeOK, Messages, Replies, Answered
<1>5. /\ \A e \in Conns : sent'[e] = IF e = d THEN Append(sent[e], m) ELSE sent[e]
      /\ asked' = asked /\ heard' = heard
  BY <1>1 DEF Send, ProcessFrame, clientVars
<1>6. m.reply = x
  OBVIOUS
<1> HIDE DEF r, m
<1>7. ASSUME NEW e \in Conns
      PROVE  /\ Len(requests[e]) \in Nat /\ Len(sent[e]) \in Nat
             /\ Len(requests'[e]) = Len(requests[e]) + Plus(c, e)
             /\ Len(sent'[e]) = Len(sent[e]) + Plus(d, e)
             /\ \A i \in 1 .. Len(sent[e]) : sent'[e][i] = sent[e][i]
             /\ e = d => sent'[e][Len(sent[e]) + 1] = m
  <2>1. Len(requests[e]) \in Nat /\ Len(sent[e]) \in Nat
    BY <1>4, LenProperties
  <2>2. /\ Len(Append(requests[e], r)) = Len(requests[e]) + 1
        /\ Len(Append(sent[e], m)) = Len(sent[e]) + 1
        /\ Append(sent[e], m)[Len(sent[e]) + 1] = m
        /\ \A i \in 1 .. Len(sent[e]) : Append(sent[e], m)[i] = sent[e][i]
    BY <1>3, <1>4, AppendProperties
  <2>3. requests'[e] = IF e = c THEN Append(requests[e], r) ELSE requests[e]
    BY <1>3, <1>4
  <2>4. Len(requests'[e]) = Len(requests[e]) + Plus(c, e)
    <3>1. CASE e = c
      BY <2>1, <2>2, <2>3, <3>1, PlusValues
    <3>2. CASE e # c
      BY <2>1, <2>3, <3>2, PlusValues
    <3> QED  BY <3>1, <3>2
  <2>5. Len(sent'[e]) = Len(sent[e]) + Plus(d, e)
    <3>1. CASE e = d
      BY <1>5, <2>1, <2>2, <3>1, PlusValues
    <3>2. CASE e # d
      BY <1>5, <2>1, <3>2, PlusValues
    <3> QED  BY <3>1, <3>2
  <2> QED  BY <1>5, <2>1, <2>2, <2>4, <2>5
<1>8. ASSUME NEW e \in Conns
      PROVE  OnTheWay(e)' = (OnTheWay(e) - Plus(c, e)) + Plus(d, e)
  <2> DEFINE a == Len(asked[e])
             h == Len(heard[e])
             q == Len(requests[e])
             s == Len(sent[e])
             k == Plus(c, e)
             n == Plus(d, e)
  <2>1. /\ a \in Nat /\ h \in Nat /\ q \in Nat /\ s \in Nat
        /\ k \in Nat /\ n \in Nat
    BY WayType DEF SumSound, Plus
  <2>2. OnTheWay(e) = (a - q) + (s - h)
    BY DEF OnTheWay
  <2>3. OnTheWay(e)' = (a - (q + k)) + ((s + n) - h)
    BY <1>5, <1>7 DEF OnTheWay
  <2> HIDE DEF a, h, q, s, k, n
  <2>4. OnTheWay(e)' = (OnTheWay(e) - k) + n
    BY <2>1, <2>2, <2>3
  <2> QED  BY <2>4 DEF k, n
<1>9. OnTheWay(c) > 0
  <2> DEFINE a == Len(asked[c])
             h == Len(heard[c])
             q == Len(requests[c])
             s == Len(sent[c])
  <2>1. /\ a \in Nat /\ h \in Nat /\ q \in Nat /\ s \in Nat /\ h <= s
    BY WayType DEF SumSound
  <2>2. q < Len(written[c])
    BY DEF SumSound, Held, OnWire, ProcessFrame, OnFrameData
  <2>3. Len(written[c]) <= a /\ Len(written[c]) \in Nat
    <3>1. written[c] \in Seq(Requests)
      BY HeldTypes DEF ClientTypes, SumSound
    <3> QED  BY <3>1, LenProperties DEF SumSound, Fresh, IsPrefix
  <2>4. OnTheWay(c) = (a - q) + (s - h)
    BY DEF OnTheWay
  <2> HIDE DEF a, h, q, s
  <2> QED  BY <2>1, <2>2, <2>3, <2>4
<1>10. ASSUME NEW e \in Conns, NEW i \in 1 .. Len(sent[e])
       PROVE  i \in 1 .. Len(sent'[e]) /\ sent'[e][i] = sent[e][i]
  <2>1. Plus(d, e) \in Nat
    BY DEF Plus
  <2> QED  BY <1>7, <2>1
<1>11. ASSUME NEW e \in Conns, NEW i \in 1 .. Len(sent'[e])
       PROVE  i \in 1 .. Len(sent[e]) \/ sent'[e][i] = m
  <2>1. Len(sent[e]) \in Nat /\ Len(sent'[e]) = Len(sent[e]) + Plus(d, e)
    BY <1>7
  <2>2. CASE e = d
    <3>1. Len(sent'[e]) = Len(sent[e]) + 1
      BY <2>1, <2>2, PlusValues
    <3>2. i \in 1 .. Len(sent[e]) \/ i = Len(sent[e]) + 1
      BY <2>1, <3>1
    <3> QED  BY <1>7, <2>2, <3>2
  <2>3. CASE e # d
    BY <2>1, <2>3, PlusValues
  <2> QED  BY <2>2, <2>3
<1>12. OnlyAnswers => OnlyAnswers'
  BY <1>6, <1>10, <1>11 DEF OnlyAnswers
<1>13. \A e \in Conns : /\ DOMAIN sent[e] = 1 .. Len(sent[e])
                        /\ DOMAIN sent'[e] = 1 .. Len(sent'[e])
  <2>1. \A e \in Conns : Append(sent[e], m) \in Seq(Messages)
    BY <1>4, AppendProperties
  <2>2. \A e \in Conns : sent'[e] \in Seq(Messages)
    BY <1>4, <1>5, <2>1
  <2> QED  BY <1>4, <2>2, LenProperties
<1>14. Refused => Refused'
  BY <1>10, <1>13 DEF Refused
<1>15. d = c \/ Refused'
  <2> SUFFICES ASSUME d # c PROVE Refused'
    OBVIOUS
  <2>1. sent'[d][Len(sent[d]) + 1].reply = "on_setUserName_failed"
    BY <1>1, <1>2, <1>6, <1>7
  <2>2. Len(sent[d]) + 1 \in 1 .. Len(sent'[d])
    <3>1. Len(sent[d]) \in Nat /\ Len(sent'[d]) = Len(sent[d]) + Plus(d, d)
      BY <1>2, <1>7
    <3>2. Plus(d, d) = 1
      BY PlusValues
    <3> QED  BY <3>1, <3>2
  <2>3. \E i \in DOMAIN sent'[d] : sent'[d][i].reply = "on_setUserName_failed"
    BY <1>2, <1>13, <2>1, <2>2
  <2> QED  BY <1>2, <2>3 DEF Refused
<1> QED  BY <1>2, <1>8, <1>9, <1>12, <1>14, <1>15

LEMMA FrameSum ==
  ASSUME SumSound, SumSound', NEW c \in Conns, ProcessFrame(c)
  PROVE  Dialogues' = Dialogues
<1> DEFINE v == [e \in Conns |-> OnTheWay(e)]
           w == [e \in Conns |-> OnTheWay(e)']
           x == [e \in Conns |-> OnTheWay(e) - Plus(c, e)]
<1>1. PICK d \in Conns :
        /\ \A e \in Conns :
             OnTheWay(e)' = (OnTheWay(e) - Plus(c, e)) + Plus(d, e)
        /\ OnTheWay(c) > 0
  BY FrameWays
<1>2. v \in [Conns -> Nat] /\ w \in [Conns -> Nat]
  BY SumNumbers, NumbersNext DEF Numbers
<1>3. /\ x \in [Conns -> Nat] /\ x[c] = v[c] - 1
      /\ \A e \in Conns : e # c => x[e] = v[e]
  BY <1>1, <1>2 DEF Plus
<1>4. /\ w[d] = x[d] + 1
      /\ \A e \in Conns : e # d => w[e] = x[e]
  BY <1>1, <1>3 DEF Plus
<1>5. proc' = proc
  BY DEF ProcessFrame, clientVars
<1>6. /\ Dialogues = Total([p \in Clients |-> Asking(proc[p])]) + Total(v)
      /\ Dialogues' = Total([p \in Clients |-> Asking(proc[p])]) + Total(w)
  BY <1>5 DEF Dialogues
<1> HIDE DEF v, w, x
<1>7. Total(v) \in Nat /\ Total(x) \in Nat /\ Total(x) = Total(v) - v[c] + x[c]
  BY <1>2, <1>3, ConnsAssumption, TotalChange
<1>8. Total(w) \in Nat /\ Total(w) = Total(x) - x[d] + w[d]
  BY <1>2, <1>3, <1>4, ConnsAssumption, TotalChange
<1>9. v[c] \in Nat /\ x[d] \in Nat
  BY <1>2, <1>3
<1>10. Total(w) = Total(v)
  BY <1>3, <1>4, <1>7, <1>8, <1>9
<1> QED  BY <1>6, <1>10

-----------------------------------------------------------------------------
(* While no connection is lost, a client is on its way to its first and    *)
(* only connection, ...                                                    *)
Resolved == [Constructed EXCEPT !.resolving = FALSE, !.ready = <<Done("resolve")>>]
Connecting == [Constructed EXCEPT !.resolving = FALSE, !.connecting = TRUE,
                                  !.socket = "open"]
Made == [Constructed EXCEPT !.resolving = FALSE, !.socket = "connected",
                            !.ready = <<Done("connect")>>]

(* ... or it has it, and no operation on it has failed.                    *)
Talking(s) ==
  /\ s.failure = "none" /\ Online(s) /\ ReceivesOk(s.ready)
  /\ s = Made \/ Without(s.ready, {"connect"})

Stage(p) ==
  \/ /\ conn[p] = NoClient /\ proc[p] \in {Constructed, Resolved, Connecting}
     /\ p \notin blank
  \/ conn[p] \in Conns /\ Talking(proc[p])

(* As long as no name is refused, its dialogue is in one place, or an      *)
(* empty line is to end it or has: w dialogues are on their way then.      *)
Settled(s, w, p, B) ==
  IF s = Made THEN w = 0 /\ p \notin B
  ELSE IF p \in B THEN (Blanked(s) \/ Finished(s)) /\ w = 0
  ELSE \/ Silent(s) /\ w = 1
       \/ (Asked(s) \/ Typed(s)) /\ w = 0

Tidy(p) == conn[p] \in Conns => Settled(proc[p], OnTheWay(conn[p]), p, blank)

(* The clients whose dialogue is still there.                              *)
Kept == Opened \ Ended

DCore ==
  /\ ~stray /\ OnlyAnswers
  /\ \A c \in Conns : ServerUp(c)
  /\ \A p \in Clients : Stage(p)
  /\ Dialogues <= Cardinality(Opened)
  /\ ~Refused => /\ Dialogues = Cardinality(Kept)
                 /\ \A p \in Clients : Tidy(p)

DInv == resets = 0 => DCore

(* A step that moves no dialogue.                                          *)
LEMMA SameDialogues ==
  ASSUME \A p \in Clients : Asking(proc'[p]) = Asking(proc[p]),
         \A c \in Conns : OnTheWay(c)' = OnTheWay(c)
  PROVE  Dialogues' = Dialogues
<1>1. [p \in Clients |-> Asking(proc'[p])] = [p \in Clients |-> Asking(proc[p])]
  OBVIOUS
<1>2. [c \in Conns |-> OnTheWay(c)'] = [c \in Conns |-> OnTheWay(c)]
  OBVIOUS
<1> QED  BY <1>1, <1>2 DEF Dialogues

LEMMA SameSent ==
  ASSUME sent' = sent
  PROVE  Refused' = Refused /\ OnlyAnswers' = OnlyAnswers
BY DEF Refused, OnlyAnswers

LEMMA PromptingAsks == \A p \in Clients : Prompting(p) = Asking(proc[p])
BY DEF Prompting, Asking, PromptsIn

LEMMA PromptingAsksNext == (\A p \in Clients : Prompting(p) = Asking(proc[p]))'
BY PromptingAsks, PTL

LEMMA SameKept ==
  ASSUME \A q \in Clients : Asking(proc'[q]) = Asking(proc[q]),
         \A q \in Clients : Asking(proc[q]) = 0 => (q \in blank' <=> q \in blank),
         Opened' = Opened
  PROVE  Kept' = Kept
<1>1. \A q \in Clients :
        /\ q \in Ended <=> q \in blank /\ Asking(proc[q]) = 0
        /\ q \in Ended' <=> q \in blank' /\ Asking(proc'[q]) = 0
  BY PromptingAsks, PromptingAsksNext DEF Ended
<1>2. Opened \subseteq Clients
  BY DEF Opened
<1>3. \A q \in Clients : q \in Ended' <=> q \in Ended
  BY <1>1
<1> QED  BY <1>2, <1>3 DEF Kept

(* A step of a client that moves none: it stays in order if its own        *)
(* dialogue stays in one place.                                            *)
LEMMA QuietStep ==
  ASSUME DCore, NEW p \in Clients,
         \A q \in Clients : q # p => conn'[q] = conn[q] /\ proc'[q] = proc[q],
         Asking(proc'[p]) = Asking(proc[p]),
         \A q \in Clients :
           q # p \/ Asking(proc[q]) = 0 => (q \in blank' <=> q \in blank),
         \A c \in Conns : OnTheWay(c)' = OnTheWay(c),
         sent' = sent, stray' = stray, Opened' = Opened,
         \A c \in Conns : ServerUp(c)',
         Stage(p)', Tidy(p) => Tidy(p)'
  PROVE  DCore'
<1>0. \A q \in Clients : Asking(proc'[q]) = Asking(proc[q])
  OBVIOUS
<1>1. Dialogues' = Dialogues
  BY <1>0, SameDialogues
<1>2. Refused' = Refused /\ OnlyAnswers'
  BY SameSent DEF DCore
<1>3. ASSUME NEW q \in Clients
      PROVE  Stage(q)' /\ (Tidy(q) => Tidy(q)')
  <2>1. CASE q = p
    BY <2>1
  <2>2. CASE q # p
    <3>1. /\ conn'[q] = conn[q] /\ proc'[q] = proc[q] /\ Stage(q)
          /\ q \in blank' <=> q \in blank
      BY <2>2 DEF DCore
    <3>2. Stage(q)'
      BY <3>1 DEF Stage
    <3>3. Tidy(q) => Tidy(q)'
      BY <3>1 DEF Tidy, Settled
    <3> QED  BY <3>2, <3>3
  <2> QED  BY <2>1, <2>2
<1>4. Kept' = Kept
  <2>1. \A q \in Clients : Asking(proc[q]) = 0 => (q \in blank' <=> q \in blank)
    OBVIOUS
  <2> QED  BY <1>0, <2>1, SameKept
<1> QED  BY <1>1, <1>2, <1>3, <1>4 DEF DCore

(* What one client changes of a set of clients.                            *)
In(x, S) == IF x \in S THEN 1 ELSE 0

LEMMA SetChange ==
  ASSUME NEW S \in SUBSET Clients, NEW T \in SUBSET Clients, NEW p \in Clients,
         \A q \in Clients : q # p => (q \in S <=> q \in T)
  PROVE  /\ Cardinality(S) \in Nat /\ Cardinality(T) \in Nat
         /\ In(p, S) \in Nat /\ In(p, T) \in Nat
         /\ Cardinality(T) + In(p, S) = Cardinality(S) + In(p, T)
<1>1. IsFiniteSet(S) /\ IsFiniteSet(T)
  BY ClientsAssumption, FS_Subset
<1>2. Cardinality(S) \in Nat /\ Cardinality(T) \in Nat
  BY <1>1, FS_CardinalityType
<1>3. CASE p \in S <=> p \in T
  <2>1. S = T
    BY <1>3
  <2> QED  BY <1>2, <2>1 DEF In
<1>4. CASE p \notin S /\ p \in T
  <2>1. T = S \cup {p}
    BY <1>4
  <2>2. Cardinality(T) = Cardinality(S) + 1
    BY <1>1, <1>4, <2>1, FS_AddElement
  <2> QED  BY <1>2, <1>4, <2>2 DEF In
<1>5. CASE p \in S /\ p \notin T
  <2>1. S = T \cup {p}
    BY <1>5
  <2>2. Cardinality(S) = Cardinality(T) + 1
    BY <1>1, <1>5, <2>1, FS_AddElement
  <2> QED  BY <1>2, <1>5, <2>2 DEF In
<1> QED  BY <1>3, <1>4, <1>5

(* What a client brings when it is connected, and what of it there is.     *)
Brought(p) == In(p, Opened)
Lasting(p) == In(p, Kept)
Weight(p) == Asking(proc[p]) + OnTheWay(conn[p])

LEMMA MadeFields ==
  /\ Made \in ProcessStates /\ Made.ready = <<Done("connect")>>
  /\ Made.ready # <<>> /\ Head(Made.ready) = Done("connect")
  /\ Made.receiving = 0 /\ Silent(Made) /\ ~Made.writing
  /\ Made.stdin = <<>> /\ ~Without(Made.ready, {"connect"})
<1>1. Done("connect") \in Handlers /\ Done("connect").op = "connect"
  BY HandlerTypes DEF Ops
<1>2. Constructed \in ProcessStates
  BY EmptySeq DEF Constructed, ProcessStates, EmptyQueue, Queues
<1>3. <<Done("connect")>> \in Seq(Handlers)
  BY <1>1
<1>4. Made \in ProcessStates
  <2>1. ASSUME NEW s \in ProcessStates
        PROVE  /\ [s EXCEPT !.resolving = FALSE] \in ProcessStates
               /\ [s EXCEPT !.socket = "connected"] \in ProcessStates
    BY ZenonT(60) DEF ProcessStates
  <2>5. ASSUME NEW s \in ProcessStates, NEW q \in Seq(Handlers)
        PROVE  [s EXCEPT !.ready = q] \in ProcessStates
    BY DEF ProcessStates, Handlers
  <2> HIDE DEF Constructed
  <2> DEFINE v == [Constructed EXCEPT !.resolving = FALSE]
             w == [v EXCEPT !.socket = "connected"]
  <2>2. v \in ProcessStates
    BY <1>2, <2>1
  <2> HIDE DEF v
  <2>3. w \in ProcessStates
    BY <2>1, <2>2
  <2> HIDE DEF w
  <2>4. [w EXCEPT !.ready = <<Done("connect")>>] \in ProcessStates
    BY <1>3, <2>5, <2>3
  <2> QED  BY <2>4 DEF Made, v, w
<1>5. /\ Made.ready = <<Done("connect")>> /\ Made.receiving = 0
      /\ ~Made.writing /\ Made.stdin = <<>> /\ Made.input_buffer_ = <<>>
  BY DEF Made, Constructed
<1>6. /\ Made.ready # <<>> /\ Head(Made.ready) = Done("connect")
      /\ Len(Made.ready) = 1 /\ Made.ready[1] = Done("connect")
  BY <1>5
<1>7. Without(Made.ready, Prompts)
  BY <1>1, <1>6 DEF Without, Prompts
<1>8. ~Without(Made.ready, {"connect"})
  BY <1>1, <1>6 DEF Without
<1> QED  BY <1>4, <1>5, <1>6, <1>7, <1>8 DEF Silent

LEMMA SettledWeight ==
  ASSUME NEW s \in ProcessStates, NEW w \in Nat, NEW p, NEW B, Settled(s, w, p, B)
  PROVE  Asking(s) + w = IF s = Made \/ (p \in B /\ Asking(s) = 0) THEN 0 ELSE 1
<1>1. Asking(s) \in Nat
  BY AskingType
<1>2. CASE s = Made
  BY <1>1, <1>2, MadeFields, TidyAsks DEF Settled
<1>3. CASE s # Made /\ p \in B
  BY <1>1, <1>3, TidyAsks DEF Settled
<1>4. CASE s # Made /\ p \notin B
  BY <1>1, <1>4, TidyAsks DEF Settled
<1> QED  BY <1>2, <1>3, <1>4

LEMMA OpenedTalking ==
  ASSUME NEW p \in Clients, conn[p] \in Conns, proc[p] \in ProcessStates,
         Talking(proc[p])
  PROVE  p \in Opened <=> proc[p] # Made
<1> DEFINE s == proc[p]
<1>1. DOMAIN s.ready = 1 .. Len(s.ready)
  BY ReadyType, PromptsFinite
<1>2. conn[p] # NoClient
  BY ConnsAssumption
<1>3. p \in Opened <=> Without(s.ready, {"connect"})
  BY <1>1, <1>2 DEF Opened, Without
<1> QED  BY <1>3, MadeFields DEF Talking

(* A client whose dialogue is in one place has one, unless it has none yet *)
(* or an empty line has ended it.                                          *)
WeightsFit ==
  \A p \in Clients :
    conn[p] \in Conns /\ Stage(p) /\ Tidy(p) => Weight(p) = Lasting(p)

LEMMA SumWeights == SumSound => WeightsFit
<1> SUFFICES ASSUME SumSound, NEW p \in Clients, conn[p] \in Conns, Stage(p), Tidy(p)
             PROVE  Weight(p) = Lasting(p)
  BY DEF WeightsFit
<1> DEFINE s == proc[p]
           w == OnTheWay(conn[p])
<1>1. s \in ProcessStates /\ w \in Nat
  BY HeldTypes, SumNumbers DEF SumSound, ClientTypes, Numbers
<1>2. Talking(s)
  BY ConnsAssumption DEF Stage
<1>3. Asking(s) + w = IF s = Made \/ (p \in blank /\ Asking(s) = 0) THEN 0 ELSE 1
  BY <1>1, SettledWeight DEF Tidy
<1>4. p \in Opened <=> s # Made
  BY <1>1, <1>2, OpenedTalking
<1>5. p \in Ended <=> p \in blank /\ Asking(s) = 0
  BY PromptingAsks DEF Ended
<1>6. Lasting(p) = IF s = Made \/ (p \in blank /\ Asking(s) = 0) THEN 0 ELSE 1
  BY <1>4, <1>5 DEF Lasting, In, Kept
<1> QED  BY <1>3, <1>6 DEF Weight

LEMMA SumWeightsNext == SumSound' => WeightsFit'
BY SumWeights, PTL

(* A step that moves a dialogue: what the client has more, its connection  *)
(* has less, but for the dialogue it brings when it is connected.          *)
LEMMA MoveStep ==
  ASSUME SumSound, SumSound', DCore, NEW p \in Clients, conn[p] \in Conns,
         conn' = conn, Owns,
         \A q \in Clients : q # p => proc'[q] = proc[q],
         \A c \in Conns : c # conn[p] => OnTheWay(c)' = OnTheWay(c),
         sent' = sent, stray' = stray, blank' = blank,
         \A c \in Conns : ServerUp(c)', Stage(p)',
         Weight(p)' + Brought(p) <= Weight(p) + Brought(p)',
         Tidy(p) => Tidy(p)'
  PROVE  DCore'
<1> DEFINE c == conn[p]
           A == Asking(proc[p])
           B == Asking(proc'[p])
           V == OnTheWay(c)
           W == OnTheWay(c)'
           n == Cardinality(Opened)
           k == Cardinality(Opened')
           x == Brought(p)
           y == Brought(p)'
           j == Cardinality(Kept)
           l == Cardinality(Kept')
           e == Lasting(p)
           f == Lasting(p)'
           D == Dialogues
           E == Dialogues'
<1>1. /\ D \in Nat /\ E \in Nat /\ E = (D - (A + V)) + (B + W)
  <2>1. \A q \in Clients : q # p => Asking(proc'[q]) = Asking(proc[q])
    OBVIOUS
  <2> QED  BY <2>1, SumChanges
<1>2. A \in Nat /\ B \in Nat /\ V \in Nat /\ W \in Nat
  <2>1. Asking(proc[p]) \in Nat /\ Asking(proc'[p]) \in Nat
    BY SumNumbers, NumbersNext DEF Numbers
  <2>2. OnTheWay(c) \in Nat /\ OnTheWay(c)' \in Nat
    BY SumNumbers, NumbersNext DEF Numbers
  <2> QED  BY <2>1, <2>2
<1>3. /\ n \in Nat /\ k \in Nat /\ x \in Nat /\ y \in Nat /\ k + x = n + y
  <2>1. Opened \in SUBSET Clients /\ Opened' \in SUBSET Clients
    BY DEF Opened
  <2>2. \A q \in Clients : q # p => (q \in Opened <=> q \in Opened')
    BY DEF Opened
  <2> HIDE DEF Opened
  <2> QED  BY <2>1, <2>2, SetChange DEF Brought
<1>4. /\ j \in Nat /\ l \in Nat /\ e \in Nat /\ f \in Nat /\ l + e = j + f
  <2>1. Kept \in SUBSET Clients /\ Kept' \in SUBSET Clients
    BY DEF Kept, Opened
  <2>2. \A q \in Clients : q # p => (q \in Kept <=> q \in Kept')
    <3>1. \A q \in Clients : q # p => (q \in Opened <=> q \in Opened')
      BY DEF Opened
    <3>2. \A q \in Clients : q # p => (q \in Ended <=> q \in Ended')
      BY DEF Ended, Prompting
    <3> QED  BY <3>1, <3>2 DEF Kept
  <2> HIDE DEF Kept
  <2> QED  BY <2>1, <2>2, SetChange DEF Lasting
<1>5. D <= n /\ (~Refused => D = j /\ Tidy(p))
  BY DEF DCore
<1>6. /\ (B + W) + x <= (A + V) + y
      /\ Tidy(p) => A + V = e /\ B + W = f
  <2>1. Weight(p) = A + V /\ Weight(p)' = B + W
    BY DEF Weight
  <2>2. Tidy(p) => Weight(p) = Lasting(p)
    BY SumWeights DEF WeightsFit, DCore
  <2>3. Tidy(p)' => Weight(p)' = Lasting(p)'
    <3>1. conn'[p] \in Conns
      OBVIOUS
    <3> QED  BY <3>1, SumWeightsNext DEF WeightsFit
  <2> QED  BY <2>1, <2>2, <2>3
<1> HIDE DEF A, B, V, W, n, k, x, y, D, E, j, l, e, f
<1>7. E <= k /\ (D = j /\ A + V = e /\ B + W = f => E = l)
  BY <1>1, <1>2, <1>3, <1>4, <1>5, <1>6
<1>8. Refused' = Refused /\ OnlyAnswers'
  BY SameSent DEF DCore
<1>9. ASSUME NEW q \in Clients
      PROVE  Stage(q)' /\ (Tidy(q) => Tidy(q)')
  <2>1. CASE q = p
    BY <2>1
  <2>2. CASE q # p
    <3>1. conn'[q] = conn[q] /\ proc'[q] = proc[q] /\ Stage(q)
      BY <2>2 DEF DCore
    <3>2. conn[q] \in Conns => conn[q] # conn[p]
      BY <2>2 DEF Owns
    <3> QED  BY <3>1, <3>2 DEF Stage, Tidy, Settled
  <2> QED  BY <2>1, <2>2
<1>10. Dialogues' <= Cardinality(Opened')
  BY <1>7 DEF E, k
<1>11. ~Refused' => Dialogues' = Cardinality(Kept')
  BY <1>5, <1>6, <1>7, <1>8 DEF E, l
<1> QED  BY <1>8, <1>9, <1>10, <1>11 DEF DCore

(* A client that talks goes on talking, and dispatches what it fetched.    *)
LEMMA TalkingStep ==
  ASSUME NEW s \in ProcessStates, s.ready # <<>>, Talking(s),
         ~Lone(s.ready, {"write"}, Failed("write")),
         NEW t \in ProcessStates, Updated(Handled(s), t)
  PROVE  /\ Onward(s, Handled(s)) /\ isOpen(Handled(s))
         /\ Handled(s).socket = "connected"
         /\ Talking(t) /\ Without(t.ready, {"connect"})
         /\ Head(s.ready).op = "write" => Head(s.ready).ok
         /\ Head(s.ready).op = "connect" <=> s = Made
<1> DEFINE h == Head(s.ready)
           u == Handled(s)
<1>1. /\ s.failure = "none" /\ Online(s) /\ Up(s) /\ ReceivesOk(s.ready)
      /\ s = Made \/ Without(s.ready, {"connect"})
      /\ h \in Handlers /\ u \in ProcessStates
  BY NextFields DEF Talking, Online
<1>2. h.op = "write" => h.ok
  <2> SUFFICES ASSUME h.op = "write" PROVE h.ok
    OBVIOUS
  <2>1. ~s.writing /\ s.outbound_messages_.msgs # <<>>
    BY <1>1, OnlineTaken
  <2>2. Lone(s.ready, {"write"}, Done("write"))
    BY <1>1, <2>1 DEF Up, Calling
  <2>3. Done("write").op \in {"write"} /\ Done("write").ok
    BY DEF Done, Failed
  <2>4. h = Done("write")
    BY <2>2, <2>3, ReadyType, Taken
  <2> QED  BY <2>3, <2>4
<1>3. h.op = "receive" => h.ok
  BY <1>1, NextAsks
<1>4. h.op \in {"connect", "receive", "write"} \cup Prompts
  <2>1. h.op \in AttemptOps => h.op \in {"connect", "receive"}
    BY <1>1, OnlineTaken, HandlerTypes
  <2> QED  BY <1>1, <2>1 DEF Handlers, Ops, AttemptOps
<1>5. Onward(s, u)
  BY <1>1, <1>2, <1>3, <1>4, OnlinePrompt, OnlineConnect, OnlineReceive, OnlineWrite
<1>6. u.socket = "connected" /\ isOpen(u)
  BY <1>5 DEF Onward, Place, isOpen
<1>7. Online(t) /\ t.failure = "none"
  BY <1>1, <1>6, OnlineStep
<1>8. h.op = "connect" <=> s = Made
  <2>1. s = Made => h.op = "connect"
    BY MadeFields, HandlerTypes
  <2>2. Without(s.ready, {"connect"}) => h.op # "connect"
    BY ReadyType, Taken
  <2> QED  BY <1>1, <2>1, <2>2
<1>9. ReceivesOk(u.ready)
  BY <1>1, <1>2, HandledAsks
<1>10. Without(u.ready, {"connect"})
  <2>1. CASE s = Made
    <3>1. u.receiving = s.receiving + 1 /\ s.receiving = 0
      BY <1>1, <1>8, <2>1, HandledConnect, MadeFields
    <3>2. Hearing(u)
      BY <1>5 DEF Onward
    <3>3. Without(u.ready, AttemptOps)
      BY <3>1, <3>2 DEF Hearing
    <3> QED  BY <3>3 DEF Without, AttemptOps
  <2>2. CASE Without(s.ready, {"connect"})
    BY <1>1, <1>2, <2>2, ConnectsOnce
  <2> QED  BY <1>1, <2>1, <2>2
<1>11. Followed(u.ready, t.ready)
  <2>1. Aside([u EXCEPT !.incomming_bytes_ = <<>>], t)
    BY <1>6 DEF Updated
  <2>2. [u EXCEPT !.incomming_bytes_ = <<>>].ready = u.ready
    BY <1>1 DEF ProcessStates
  <2> QED  BY <2>1, <2>2 DEF Aside
<1>12. ReceivesOk(t.ready) /\ Without(t.ready, {"connect"})
  <2>1. u.ready \in Seq(Handlers) /\ t.ready \in Seq(Handlers)
    BY <1>1, ReadyType
  <2>2. {"connect"} \cap Prompts = {}
    BY DEF Prompts
  <2>3. ReceivesOk(t.ready)
    BY <1>9, <1>11, <2>1, FollowedOk
  <2>4. Without(t.ready, {"connect"})
    BY <1>10, <1>11, <2>1, <2>2, FollowedKeeps
  <2> QED  BY <2>3, <2>4
<1> QED  BY <1>2, <1>5, <1>6, <1>7, <1>8, <1>12 DEF Talking

-----------------------------------------------------------------------------
Sound == IInv /\ StreamIntegrity /\ SInv

LEMMA SoundSum == Sound /\ ~stray => SumSound
BY DEF Sound, SumSound, SInv

LEMMA SoundSumNext == Sound' /\ ~stray' => SumSound'
BY SoundSum, PTL

WaySound ==
  \A c \in Conns :
    /\ OnTheWay(c) \in Nat
    /\ \A i \in 1 .. Len(heard[c]) :
         i \in 1 .. Len(sent[c]) /\ heard[c][i] = sent[c][i].reply

LEMMA SumWays == SumSound => WaySound
<1> SUFFICES ASSUME SumSound, NEW c \in Conns
             PROVE  /\ OnTheWay(c) \in Nat
                    /\ \A i \in 1 .. Len(heard[c]) :
                         /\ i \in 1 .. Len(sent[c])
                         /\ heard[c][i] = sent[c][i].reply
  BY DEF WaySound
<1>1. /\ OnTheWay(c) \in Nat
      /\ Len(sent[c]) \in Nat /\ Len(heard[c]) \in Nat
      /\ Len(heard[c]) <= Len(sent[c])
      /\ \A i \in 1 .. Len(heard[c]) : heard[c][i] = sent[c][i].reply
  BY WayType DEF SumSound
<1>2. \A i \in 1 .. Len(heard[c]) : i \in 1 .. Len(sent[c])
  BY <1>1
<1> QED  BY <1>1, <1>2

LEMMA SumWaysNext == SumSound' => WaySound'
BY SumWays, PTL

(* A handler of a client that talks: what it calls is on its way to the    *)
(* server then, and what it dispatches no longer on the way back.          *)
RunsTalking(p, t) ==
  LET s == proc[p]
      c == conn[p]
      a == Arrived(Handled(s))
  IN  /\ s \in ProcessStates /\ s.ready # <<>>
      /\ t \in ProcessStates /\ Updated(Handled(s), t)
      /\ t = update(Handled(s)) /\ proc' = [proc EXCEPT ![p] = t]
      /\ isOpen(Handled(s)) /\ Talking(t) /\ Without(t.ready, {"connect"})
      /\ Head(s.ready).op = "write" => Head(s.ready).ok
      /\ Head(s.ready).op = "connect" <=> s = Made
      /\ conn' = conn /\ resets' = resets /\ stray' = stray /\ UNCHANGED vars
      /\ Len(asked'[c]) = Len(asked[c]) + AskedMore(s)
      /\ Len(heard'[c]) = Len(heard[c]) + Len(a)
      /\ Len(a) > 0 => heard'[c][Len(heard[c]) + 1] = a[1]
      /\ \A d \in Conns : d # c => asked'[d] = asked[d] /\ heard'[d] = heard[d]

LEMMA RunTalks ==
  ASSUME Sound, DCore, NEW p \in Clients, conn[p] \in Conns, RunHandler(p)
  PROVE  \E t : RunsTalking(p, t)
<1> DEFINE s == proc[p]
           u == Handled(s)
           t == update(u)
           a == Arrived(u)
           m == Last(u.outbound_messages_.msgs)
           c == conn[p]
<1>1. Held /\ Fresh /\ ClientTypes /\ TypeOK
  BY HeldTypes DEF Sound, SInv, DCore
<1>2. /\ s \in ProcessStates /\ u \in ProcessStates
      /\ s.ready # <<>> /\ t \in ProcessStates /\ Updated(u, t)
      /\ proc' = [proc EXCEPT ![p] = t]
      /\ asked' = IF Called(s) /\ Connected(p)
                    THEN [asked EXCEPT ![c] = Append(@, m)] ELSE asked
      /\ Called(s) => m \in Requests
      /\ stray' = (stray \/ (Called(s) /\ ~Connected(p)))
      /\ heard' = IF isOpen(u) /\ a # <<>>
                    THEN [heard EXCEPT ![c] = @ \o a] ELSE heard
      /\ conn' = conn /\ resets' = resets
      /\ u.socket # "connected" \/ UNCHANGED vars
  BY <1>1, RunEffect
<1>3. conn[p] # NoClient
  BY ConnsAssumption
<1>4. Talking(s)
  BY <1>3 DEF DCore, Stage
<1>5. link[c]
  BY <1>1 DEF Held, Owns, DCore, ServerUp
<1>6. ~Lone(s.ready, {"write"}, Failed("write"))
  BY <1>1, <1>4, <1>5 DEF Fresh, CallsFit, Talking, Online, Up, Place
<1>7. /\ isOpen(u) /\ u.socket = "connected"
      /\ Talking(t) /\ Without(t.ready, {"connect"})
      /\ Head(s.ready).op = "write" => Head(s.ready).ok
      /\ Head(s.ready).op = "connect" <=> s = Made
  BY <1>2, <1>4, <1>6, TalkingStep
<1>8. Connected(p)
  BY <1>4 DEF Connected, Talking, Online, Up, Place
<1>9. stray' = stray /\ UNCHANGED vars
  BY <1>1, <1>2, <1>7, <1>8 DEF ClientTypes
<1>10. asked[c] \in Seq(Requests) /\ heard[c] \in Seq(ServerCalls)
       /\ asked \in [Conns -> Seq(Requests)]
       /\ heard \in [Conns -> Seq(ServerCalls)]
  BY <1>1 DEF ClientTypes
<1>11. a \in Seq(ServerCalls)
  BY <1>2, ArrivedType
<1> HIDE DEF u, t, a, m
<1>12. asked'[c] = IF Called(s) THEN Append(asked[c], m) ELSE asked[c]
  BY <1>2, <1>8, <1>10
<1>13. heard'[c] = heard[c] \o a
  <2>1. CASE a # <<>>
    BY <1>2, <1>7, <1>10, <2>1
  <2>2. CASE a = <<>>
    BY <1>2, <1>10, <2>2, ConcatEmptySeq
  <2> QED  BY <2>1, <2>2
<1>14. Len(asked'[c]) = Len(asked[c]) + AskedMore(s)
  <2>1. Len(asked[c]) \in Nat
    BY <1>10, LenProperties
  <2>2. CASE Called(s)
    <3>1. Len(Append(asked[c], m)) = Len(asked[c]) + 1
      BY <1>2, <1>10, <2>2, AppendProperties
    <3> QED  BY <1>12, <2>2, <3>1 DEF AskedMore
  <2>3. CASE ~Called(s)
    BY <1>12, <2>1, <2>3 DEF AskedMore
  <2> QED  BY <2>2, <2>3
<1>15. /\ Len(heard'[c]) = Len(heard[c]) + Len(a)
       /\ Len(a) > 0 => heard'[c][Len(heard[c]) + 1] = a[1]
  <2>1. /\ Len(heard[c]) \in Nat /\ Len(a) \in Nat
        /\ Len(heard[c] \o a) = Len(heard[c]) + Len(a)
        /\ \A i \in 1 .. Len(a) : (heard[c] \o a)[Len(heard[c]) + i] = a[i]
    BY <1>10, <1>11, Joined
  <2>2. Len(a) > 0 => (heard[c] \o a)[Len(heard[c]) + 1] = a[1]
    <3>1. Len(a) > 0 => 1 \in 1 .. Len(a)
      BY <2>1
    <3> QED  BY <2>1, <3>1
  <2> QED  BY <1>13, <2>1, <2>2
<1>16. \A d \in Conns : d # c => asked'[d] = asked[d] /\ heard'[d] = heard[d]
  BY <1>2, <1>10
<1>17. RunsTalking(p, t)
  BY <1>2, <1>7, <1>9, <1>14, <1>15, <1>16 DEF RunsTalking, u, t, a
<1> QED  BY <1>17

(* So its dialogue is in one place after it, if it was before.             *)
LEMMA RunMoves ==
  ASSUME Sound, SumSound', DCore, NEW p \in Clients, conn[p] \in Conns,
         RunHandler(p)
  PROVE  LET c == conn[p]
             a == Arrived(Handled(proc[p]))
             more == IF proc[p] = Made THEN 1 ELSE 0
         IN  /\ OnTheWay(c)' = (OnTheWay(c) + AskedMore(proc[p])) - Len(a)
             /\ Weight(p)' <= Weight(p) + more
             /\ Tidy(p) => Tidy(p)'
<1> DEFINE s == proc[p]
           u == Handled(s)
           a == Arrived(u)
           c == conn[p]
           more == IF s = Made THEN 1 ELSE 0
<1>1. PICK t : RunsTalking(p, t)
  BY RunTalks
<1>2. /\ s \in ProcessStates /\ s.ready # <<>>
      /\ t \in ProcessStates /\ t = update(u) /\ proc' = [proc EXCEPT ![p] = t]
      /\ isOpen(u) /\ Talking(t) /\ Without(t.ready, {"connect"})
      /\ Head(s.ready).op = "write" => Head(s.ready).ok
      /\ Head(s.ready).op = "connect" <=> s = Made
      /\ conn' = conn /\ UNCHANGED vars
      /\ Len(asked'[c]) = Len(asked[c]) + AskedMore(s)
      /\ Len(heard'[c]) = Len(heard[c]) + Len(a)
      /\ Len(a) > 0 => heard'[c][Len(heard[c]) + 1] = a[1]
  BY <1>1 DEF RunsTalking
<1>3. Held /\ Fresh /\ ClientTypes /\ SumSound
  BY HeldTypes, SoundSum DEF Sound, SInv, DCore
<1>4. proc'[p] = t
  BY <1>2, <1>3 DEF ClientTypes
<1>5. Up(s) /\ ReceivesOk(s.ready)
  BY ConnsAssumption DEF DCore, Stage, Talking, Online
<1>6. u \in ProcessStates /\ a \in Seq(ServerCalls) /\ Len(a) \in Nat
  <2>1. u \in ProcessStates
    BY <1>2, NextFields
  <2>2. a \in Seq(ServerCalls)
    BY <2>1, ArrivedType
  <2> QED  BY <2>1, <2>2, LenProperties
<1> HIDE DEF u, a
<1>7. AskedMore(s) \in {0, 1} /\ (Called(s) <=> AskedMore(s) = 1)
  BY DEF AskedMore
<1>8. /\ s = Made =>
           /\ Asking(u) = Asking(s) + 1 /\ ~Called(s)
           /\ Silent(s) => Asked(u)
      /\ s # Made =>
           /\ Asking(u) + AskedMore(s) <= Asking(s)
           /\ Silent(s) => Silent(u) /\ ~Called(s)
           /\ Asked(s) => Asked(u) /\ ~Called(s)
           /\ Typed(s) => \/ (Asked(u) \/ Typed(u)) /\ ~Called(s)
                          \/ Silent(u) /\ Called(s)
           /\ Blanked(s) => (Blanked(u) \/ Finished(u)) /\ ~Called(s)
           /\ Finished(s) => Finished(u) /\ ~Called(s)
  BY <1>2, <1>5, HandledAsks DEF u
<1>9. /\ Asking(t) <= Asking(u) + Len(a)
      /\ Len(a) = 0 => AtTerminal(u, t)
      /\ Len(a) = 1 /\ Silent(u) /\ a[1] # "on_subscribeShip" => Asked(t)
  BY <1>2, <1>6, UpdateAsks DEF a
<1>10. Asking(s) \in Nat /\ Asking(u) \in Nat /\ Asking(t) \in Nat
  BY <1>2, <1>6, AskingType
<1>11. OnTheWay(c) \in Nat /\ OnTheWay(c)' \in Nat
  BY <1>2, <1>3, SumWays, SumWaysNext DEF WaySound
<1>12. OnTheWay(c)' = (OnTheWay(c) + AskedMore(s)) - Len(a)
  <2> DEFINE k == Len(asked[c])
             r == Len(requests[c])
             n == Len(sent[c])
             h == Len(heard[c])
             x == AskedMore(s)
             l == Len(a)
  <2>1. k \in Nat /\ r \in Nat /\ n \in Nat /\ h \in Nat
    BY <1>3, WayType DEF SumSound
  <2>2. x \in Nat /\ l \in Nat
    BY <1>6, <1>7
  <2>3. OnTheWay(c) = (k - r) + (n - h)
    BY DEF OnTheWay
  <2>4. requests' = requests /\ sent' = sent
    BY <1>2 DEF vars, logVars
  <2>5. OnTheWay(c)' = ((k + x) - r) + (n - (h + l))
    BY <1>2, <2>4 DEF OnTheWay
  <2> HIDE DEF k, r, n, h, x, l
  <2>6. OnTheWay(c)' = (OnTheWay(c) + x) - l
    BY <2>1, <2>2, <2>3, <2>5
  <2> QED  BY <2>6 DEF x, l
<1>13. Weight(p) = Asking(s) + OnTheWay(c) /\ Weight(p)' = Asking(t) + OnTheWay(c)'
  BY <1>2, <1>4 DEF Weight
<1>14. Weight(p)' <= Weight(p) + more
  <2> DEFINE x == AskedMore(s)
             l == Len(a)
             v == OnTheWay(c)
             w == OnTheWay(c)'
  <2>1. x \in Nat /\ l \in Nat /\ v \in Nat /\ w \in Nat /\ w = (v + x) - l
    BY <1>6, <1>7, <1>11, <1>12
  <2>2. CASE s = Made
    <3>1. x = 0 /\ Asking(u) = Asking(s) + 1 /\ more = 1
      BY <1>7, <1>8, <2>2
    <3>2. Asking(t) <= Asking(u) + l
      BY <1>9
    <3> HIDE DEF x, l, v, w, more
    <3>3. Asking(t) + w <= (Asking(s) + v) + more
      BY <1>10, <2>1, <3>1, <3>2
    <3> QED  BY <1>13, <3>3 DEF v, w, more
  <2>3. CASE s # Made
    <3>1. Asking(u) + x <= Asking(s) /\ more = 0
      BY <1>8, <2>3
    <3>2. Asking(t) <= Asking(u) + l
      BY <1>9
    <3> HIDE DEF x, l, v, w, more
    <3>3. Asking(t) + w <= (Asking(s) + v) + more
      BY <1>10, <2>1, <3>1, <3>2
    <3> QED  BY <1>13, <3>3 DEF v, w, more
  <2> QED  BY <2>2, <2>3
<1>15. Len(a) = 1 => a[1] # "on_subscribeShip"
  <2> SUFFICES ASSUME Len(a) = 1 PROVE a[1] \in Answered
    BY DEF Answered
  <2>1. Len(heard[c]) \in Nat
    BY <1>3, WayType DEF SumSound
  <2>2. Len(heard[c]) + 1 \in 1 .. Len(heard'[c]) /\ Len(a) > 0
    BY <1>2, <2>1
  <2>3. /\ Len(heard[c]) + 1 \in 1 .. Len(sent'[c])
        /\ heard'[c][Len(heard[c]) + 1] = sent'[c][Len(heard[c]) + 1].reply
    BY <2>2, SumWaysNext DEF WaySound
  <2>4. sent' = sent
    BY <1>2 DEF vars, logVars
  <2> QED  BY <1>2, <2>2, <2>3, <2>4 DEF DCore, OnlyAnswers
<1>16. t # Made
  BY <1>2, MadeFields
<1>17. blank' = blank
  BY DEF RunHandler
<1>18. ASSUME Tidy(p), p \in blank PROVE Tidy(p)'
  <2>1. s # Made /\ (Blanked(s) \/ Finished(s)) /\ OnTheWay(c) = 0
    BY <1>18 DEF Tidy, Settled
  <2>2. (Blanked(u) \/ Finished(u)) /\ AskedMore(s) = 0
    BY <1>7, <1>8, <2>1
  <2>3. Len(a) = 0 /\ OnTheWay(c)' = 0
    BY <1>6, <1>11, <1>12, <2>1, <2>2
  <2>4. Blanked(t) \/ Finished(t)
    BY <1>9, <2>2, <2>3, SameTerminal
  <2>5. Settled(t, OnTheWay(c)', p, blank)
    BY <1>16, <1>18, <2>3, <2>4 DEF Settled
  <2> QED  BY <1>2, <1>4, <1>17, <2>5 DEF Tidy
<1>19. ASSUME Tidy(p), p \notin blank PROVE Tidy(p)'
  <2>1. /\ s = Made => OnTheWay(c) = 0
        /\ s # Made => \/ Silent(s) /\ OnTheWay(c) = 1
                       \/ (Asked(s) \/ Typed(s)) /\ OnTheWay(c) = 0
    BY <1>19 DEF Tidy, Settled
  <2>2. \/ (Asked(u) \/ Typed(u)) /\ OnTheWay(c) + AskedMore(s) = 0
        \/ Silent(u) /\ OnTheWay(c) + AskedMore(s) = 1
    BY <1>7, <1>8, <1>11, <2>1, MadeFields
  <2>3. CASE (Asked(u) \/ Typed(u)) /\ OnTheWay(c) + AskedMore(s) = 0
    <3>1. Len(a) = 0 /\ OnTheWay(c)' = 0
      BY <1>6, <1>11, <1>12, <2>3
    <3>2. Asked(t) \/ Typed(t)
      BY <1>9, <2>3, <3>1, SameTerminal
    <3>3. Settled(t, OnTheWay(c)', p, blank)
      BY <1>16, <1>19, <3>1, <3>2 DEF Settled
    <3> QED  BY <1>2, <1>4, <1>17, <3>3 DEF Tidy
  <2>4. CASE Silent(u) /\ OnTheWay(c) + AskedMore(s) = 1
    <3>1. \/ Len(a) = 0 /\ OnTheWay(c)' = 1
          \/ Len(a) = 1 /\ OnTheWay(c)' = 0
      <4> DEFINE l == Len(a)
                 n == OnTheWay(c) + AskedMore(s)
                 w == OnTheWay(c)'
      <4>1. l \in Nat /\ w \in Nat /\ n = 1 /\ w = n - l
        BY <1>6, <1>11, <1>12, <2>4
      <4> HIDE DEF l, n, w
      <4>2. (l = 0 /\ w = 1) \/ (l = 1 /\ w = 0)
        BY <4>1
      <4> QED  BY <4>2 DEF l, w
    <3>2. \/ Silent(t) /\ OnTheWay(c)' = 1
          \/ Asked(t) /\ OnTheWay(c)' = 0
      BY <1>9, <1>15, <2>4, <3>1, SameTerminal
    <3>3. Settled(t, OnTheWay(c)', p, blank)
      BY <1>16, <1>19, <3>2 DEF Settled
    <3> QED  BY <1>2, <1>4, <1>17, <3>3 DEF Tidy
  <2> QED  BY <2>2, <2>3, <2>4
<1> QED  BY <1>12, <1>14, <1>18, <1>19 DEF u, a

LEMMA RunStep ==
  ASSUME Sound, Sound', DCore, NEW p \in Clients, conn[p] \in Conns,
         RunHandler(p)
  PROVE  DCore'
<1> DEFINE s == proc[p]
           c == conn[p]
<1>1. PICK t : RunsTalking(p, t)
  BY RunTalks
<1>2. /\ proc' = [proc EXCEPT ![p] = t] /\ Talking(t)
      /\ t \in ProcessStates /\ Without(t.ready, {"connect"})
      /\ conn' = conn /\ stray' = stray /\ UNCHANGED vars
      /\ \A d \in Conns : d # c => asked'[d] = asked[d] /\ heard'[d] = heard[d]
      /\ s \in ProcessStates
  BY <1>1 DEF RunsTalking
<1>3. Held /\ Owns /\ ClientTypes /\ SumSound
  BY HeldTypes, SoundSum DEF Sound, SInv, DCore, Held
<1>4. SumSound'
  BY <1>2, SoundSumNext DEF DCore
<1>5. proc'[p] = t /\ \A q \in Clients : q # p => proc'[q] = proc[q]
  BY <1>2, <1>3 DEF ClientTypes
<1>6. sent' = sent /\ requests' = requests
  BY <1>2 DEF vars, logVars
<1>7. \A d \in Conns : d # c => OnTheWay(d)' = OnTheWay(d)
  BY <1>2, <1>6 DEF OnTheWay
<1>8. \A d \in Conns : ServerUp(d)'
  BY <1>2, <1>3, ServerUpStep DEF Sound, DCore
<1>9. Stage(p)'
  BY <1>2, <1>5 DEF Stage
<1>10. c # NoClient
  BY ConnsAssumption
<1>11. \A e \in ProcessStates : DOMAIN e.ready = 1 .. Len(e.ready)
  BY ReadyType, PromptsFinite
<1>12. p \in Opened'
  <2>1. \A i \in DOMAIN t.ready : t.ready[i].op # "connect"
    BY <1>2, <1>11 DEF Without
  <2> QED  BY <1>2, <1>5, <1>10, <2>1 DEF Opened
<1>13. s = Made <=> p \notin Opened
  <2>1. p \in Opened <=> \A i \in DOMAIN s.ready : s.ready[i].op # "connect"
    BY <1>10 DEF Opened
  <2>2. p \in Opened <=> Without(s.ready, {"connect"})
    BY <1>2, <1>11, <2>1 DEF Without
  <2>3. s = Made \/ Without(s.ready, {"connect"})
    BY <1>10 DEF DCore, Stage, Talking
  <2> QED  BY <2>2, <2>3, MadeFields
<1> DEFINE more == IF s = Made THEN 1 ELSE 0
<1>14. /\ Weight(p)' <= Weight(p) + more
       /\ Tidy(p) => Tidy(p)'
  BY <1>4, RunMoves
<1>15. Weight(p) \in Nat /\ Weight(p)' \in Nat
  <2>1. Asking(s) \in Nat /\ Asking(t) \in Nat
    BY <1>2, AskingType
  <2>2. OnTheWay(c) \in Nat /\ OnTheWay(c)' \in Nat
    BY <1>2, <1>3, <1>4, SumWays, SumWaysNext DEF WaySound
  <2> QED  BY <1>2, <1>5, <2>1, <2>2 DEF Weight
<1>16. Brought(p)' = 1 /\ Brought(p) = 1 - more
  BY <1>12, <1>13 DEF Brought, In
<1>17. more \in {0, 1}
  OBVIOUS
<1> HIDE DEF more
<1>18. Weight(p)' + Brought(p) <= Weight(p) + Brought(p)'
  BY <1>14, <1>15, <1>16, <1>17
<1>19. blank' = blank
  BY DEF RunHandler
<1> QED  BY <1>2, <1>3, <1>4, <1>5, <1>6, <1>7, <1>8, <1>9, <1>14, <1>18, <1>19,
            MoveStep

LEMMA NoServerStep ==
  ASSUME \A c \in Conns : ServerUp(c), UNCHANGED vars
  PROVE  \A c \in Conns : ServerUp(c)'
BY DEF vars, readVars, writeVars, mixinVars, logVars, ServerUp

(* On its way to a connection, it has no dialogue.                         *)
LEMMA StartingFields ==
  /\ {Constructed, Resolved, Connecting} \subseteq ProcessStates
  /\ \A s \in {Constructed, Resolved, Connecting, Made} : Asking(s) = 0
  /\ \A s \in {Constructed, Resolved, Connecting} :
       /\ s.receiving = 0 /\ ~s.writing /\ s.timer = "off" /\ s.stdin = <<>>
       /\ s.failure = "none" /\ s.socket # "connected"
       /\ s.ready # <<>> => s = Resolved
       /\ s.resolving => s = Constructed
       /\ s.connecting => s = Connecting
<1>1. Done("resolve") \in Handlers /\ Done("resolve").op = "resolve"
  BY HandlerTypes DEF Ops
<1>2. Constructed \in ProcessStates
  BY EmptySeq DEF Constructed, ProcessStates, EmptyQueue, Queues
<1>3. <<Done("resolve")>> \in Seq(Handlers)
  BY <1>1
<1>4. Resolved \in ProcessStates /\ Connecting \in ProcessStates
  BY <1>2, <1>3 DEF Resolved, Connecting, Constructed, ProcessStates, Handlers
<1>5. Without(<<>>, Prompts)
  BY DEF Without
<1>6. Without(<<Done("resolve")>>, Prompts)
  <2>1. Len(<<Done("resolve")>>) = 1 /\ <<Done("resolve")>>[1] = Done("resolve")
    OBVIOUS
  <2> QED  BY <1>1, <2>1 DEF Without, Prompts
<1>7. Silent(Constructed) /\ Silent(Resolved) /\ Silent(Connecting)
  BY <1>5, <1>6 DEF Silent, Constructed, Resolved, Connecting
<1>8. \A s \in {Constructed, Resolved, Connecting, Made} : Asking(s) = 0
  BY <1>2, <1>4, <1>7, TidyAsks, MadeFields
<1>9. \A s \in {Constructed, Resolved, Connecting} :
        /\ s.receiving = 0 /\ ~s.writing /\ s.timer = "off" /\ s.stdin = <<>>
        /\ s.failure = "none" /\ s.socket # "connected"
        /\ s.ready # <<>> => s = Resolved
        /\ s.resolving => s = Constructed
        /\ s.connecting => s = Connecting
  <2>1. /\ Constructed.receiving = 0 /\ ~Constructed.writing
        /\ Constructed.timer = "off" /\ Constructed.stdin = <<>>
        /\ Constructed.failure = "none" /\ Constructed.socket = "closed"
        /\ Constructed.ready = <<>> /\ ~Constructed.connecting
    BY DEF Constructed
  <2>2. /\ Resolved.receiving = 0 /\ ~Resolved.writing
        /\ Resolved.timer = "off" /\ Resolved.stdin = <<>>
        /\ Resolved.failure = "none" /\ Resolved.socket = "closed"
        /\ ~Resolved.connecting /\ ~Resolved.resolving
    BY DEF Resolved, Constructed
  <2>3. /\ Connecting.receiving = 0 /\ ~Connecting.writing
        /\ Connecting.timer = "off" /\ Connecting.stdin = <<>>
        /\ Connecting.failure = "none" /\ Connecting.socket = "open"
        /\ Connecting.ready = <<>> /\ ~Connecting.resolving
    BY DEF Connecting, Constructed
  <2> QED  BY <2>1, <2>2, <2>3
<1> QED  BY <1>2, <1>4, <1>8, <1>9

LEMMA TakenOut ==
  ASSUME NEW s \in ProcessStates, s.ready = <<>>, NEW q
  PROVE  [[s EXCEPT !.resolving = FALSE, !.ready = q] EXCEPT !.ready = <<>>]
           = [s EXCEPT !.resolving = FALSE]
BY DEF ProcessStates

LEMMA ClosedSocket ==
  ASSUME NEW s \in ProcessStates, ~s.connecting, s.receiving = 0, ~s.writing,
         s.ready = <<>>, s.socket = "closed"
  PROVE  [s EXCEPT !.ready = <<>>, !.receiving = 0, !.connecting = FALSE,
                   !.writing = FALSE, !.socket = "closed"] = s
BY DEF ProcessStates

(* A resolve that has completed starts the connect.                        *)
LEMMA ResolvedRuns ==
  Handled(Resolved) = Connecting /\ ~Called(Resolved)
<1> DEFINE n == [Constructed EXCEPT !.resolving = FALSE]
<1>1. Head(<<Done("resolve")>>) = Done("resolve") /\ Tail(<<Done("resolve")>>) = <<>>
  OBVIOUS
<1>2. Next1(Resolved) = n
  <2>1. Resolved.ready = <<Done("resolve")>>
    BY DEF Resolved, Constructed
  <2>2. Next1(Resolved) = [Resolved EXCEPT !.ready = <<>>]
    BY <1>1, <2>1 DEF Next1
  <2>3. Constructed \in ProcessStates /\ Constructed.ready = <<>>
    BY StartingFields DEF Constructed
  <2> QED  BY <2>2, <2>3, TakenOut DEF Resolved
<1>3. Head(Resolved.ready) = Done("resolve")
  BY <1>1 DEF Resolved, Constructed
<1>4. Done("resolve").op = "resolve" /\ Done("resolve").ok
  BY DEF Done, Failed
<1>5. Handled(Resolved) = async_connect(n)
  BY <1>2, <1>3, <1>4 DEF Handled, Handle, onResolve
<1>6. /\ n \in ProcessStates /\ ~n.connecting /\ n.receiving = 0 /\ ~n.writing
      /\ n.ready = <<>> /\ n.socket = "closed" /\ ~n.resolving
  <2>1. Constructed \in ProcessStates
    BY StartingFields
  <2>2. n \in ProcessStates
    BY <2>1 DEF ProcessStates
  <2> QED  BY <2>2 DEF Constructed
<1>7. CloseSocket(n).ready = <<>>
  BY <1>6, CloseIdle
<1>8. CloseSocket(n) = n
  <2>1. CloseSocket(n) = [n EXCEPT !.ready = CloseSocket(n).ready, !.receiving = 0,
                             !.connecting = FALSE, !.writing = FALSE,
                             !.socket = "closed"]
    BY DEF CloseSocket, Constructed
  <2>2. CloseSocket(n) = [n EXCEPT !.ready = <<>>, !.receiving = 0,
                             !.connecting = FALSE, !.writing = FALSE,
                             !.socket = "closed"]
    BY <1>7, <2>1
  <2> HIDE DEF n
  <2> QED  BY <1>6, <2>2, ClosedSocket
<1>9. async_connect(n) = Connecting
  BY <1>8 DEF async_connect, Connecting, Constructed
<1>10. ~Called(Resolved)
  <2>1. Handled(Resolved).outbound_messages_ = Resolved.outbound_messages_
    <3>1. Connecting.outbound_messages_ = EmptyQueue
      BY DEF Connecting, Constructed
    <3>2. Resolved.outbound_messages_ = EmptyQueue
      BY DEF Resolved, Constructed
    <3> QED  BY <1>5, <1>9, <3>1, <3>2
  <2>2. Resolved.outbound_messages_.msgs = <<>>
    BY DEF Resolved, Constructed, EmptyQueue
  <2> QED  BY <2>1, <2>2 DEF Called
<1> QED  BY <1>5, <1>9, <1>10

LEMMA ConnectingUpdates ==
  update(Connecting) = Connecting /\ Arrived(Connecting) = <<>>
<1>1. Connecting \in ProcessStates
  BY StartingFields
<1>2. Connecting.incomming_bytes_ = <<>> /\ isOpen(Connecting)
  BY DEF Connecting, Constructed, isOpen
<1>3. /\ Arrived(Connecting) \in Seq(ServerCalls)
      /\ Len(Arrived(Connecting)) = Len(Connecting.incomming_bytes_) \div 2
  BY <1>1, ArrivedType
<1>4. Len(Arrived(Connecting)) = 0 /\ Arrived(Connecting) = <<>>
  <2>1. Len(Connecting.incomming_bytes_) = 0
    BY <1>2
  <2>2. Len(Arrived(Connecting)) = 0
    BY <1>3, <2>1
  <2> QED  BY <1>3, <2>2, EmptySeq
<1>5. PICK f : Dispatches(Connecting, f)
  BY <1>1, <1>2, UpdateDispatches
<1>6. update(Connecting) = [Connecting EXCEPT !.incomming_bytes_ = <<>>]
  BY <1>4, <1>5 DEF Dispatches
<1>7. [Connecting EXCEPT !.incomming_bytes_ = <<>>] = Connecting
  BY <1>2 DEF Connecting, Constructed
<1> QED  BY <1>4, <1>6, <1>7

LEMMA RunStart ==
  ASSUME Sound, DCore, NEW p \in Clients, conn[p] = NoClient, RunHandler(p)
  PROVE  DCore'
<1> DEFINE s == proc[p]
           u == Handled(s)
           a == Arrived(u)
<1>1. Held /\ ClientTypes
  BY HeldTypes DEF Sound, SInv, DCore
<1>2. /\ s.ready # <<>>
      /\ proc' = [proc EXCEPT ![p] = update(u)]
      /\ asked' = IF Called(s) /\ Connected(p)
                    THEN [asked EXCEPT ![conn[p]] =
                            Append(@, Last(u.outbound_messages_.msgs))]
                    ELSE asked
      /\ stray' = (stray \/ (Called(s) /\ ~Connected(p)))
      /\ heard' = IF isOpen(u) /\ a # <<>>
                    THEN [heard EXCEPT ![conn[p]] = @ \o a] ELSE heard
      /\ conn' = conn
      /\ conn[p] \in Conns \/ UNCHANGED vars
  BY <1>1, RunEffect
<1>3. conn[p] \notin Conns
  BY ConnsAssumption
<1>4. s = Resolved
  BY <1>2, <1>3, StartingFields DEF DCore, Stage
<1>5. /\ u = Connecting /\ ~Called(s) /\ a = <<>> /\ update(u) = Connecting
  BY <1>4, ResolvedRuns, ConnectingUpdates
<1> HIDE DEF u, a
<1>6. /\ asked' = asked /\ heard' = heard /\ stray' = stray
      /\ UNCHANGED vars /\ proc' = [proc EXCEPT ![p] = Connecting]
  BY <1>1, <1>2, <1>3, <1>5 DEF ClientTypes
<1>7. proc'[p] = Connecting /\ \A q \in Clients : q # p => proc'[q] = proc[q]
  BY <1>1, <1>6 DEF ClientTypes
<1>8. sent' = sent /\ requests' = requests
  BY <1>6 DEF vars, logVars
<1>9. \A d \in Conns : OnTheWay(d)' = OnTheWay(d)
  BY <1>6, <1>8 DEF OnTheWay
<1>10. \A d \in Conns : ServerUp(d)'
  BY <1>6, NoServerStep DEF DCore
<1>11. Opened' = Opened
  <2>1. \A q \in Clients : q \in Opened' <=> q \in Opened
    BY <1>2, <1>7 DEF Opened
  <2> QED  BY <2>1 DEF Opened
<1>12. Asking(proc'[p]) = Asking(proc[p])
  BY <1>4, <1>7, StartingFields
<1>13. blank' = blank /\ p \notin blank
  BY <1>3 DEF RunHandler, DCore, Stage
<1>14. Stage(p)' /\ Tidy(p)'
  BY <1>2, <1>3, <1>7, <1>13 DEF Stage, Tidy
<1> QED  BY <1>2, <1>6, <1>7, <1>8, <1>9, <1>10, <1>11, <1>12, <1>13, <1>14,
            QuietStep

(* The resolve completes.                                                  *)
LEMMA Twice ==
  ASSUME NEW s \in ProcessStates, NEW q
  PROVE  /\ [[s EXCEPT !.ready = q] EXCEPT !.resolving = FALSE]
              = [s EXCEPT !.resolving = FALSE, !.ready = q]
         /\ [[[s EXCEPT !.resolving = FALSE, !.connecting = TRUE,
                        !.socket = "open"] EXCEPT !.ready = q]
               EXCEPT !.connecting = FALSE, !.socket = "connected"]
              = [s EXCEPT !.resolving = FALSE, !.connecting = FALSE,
                          !.socket = "connected", !.ready = q]
BY DEF ProcessStates

LEMMA NotConnecting ==
  ASSUME NEW s \in ProcessStates, ~s.connecting, NEW q
  PROVE  [s EXCEPT !.resolving = FALSE, !.connecting = FALSE,
                   !.socket = "connected", !.ready = q]
           = [s EXCEPT !.resolving = FALSE, !.socket = "connected", !.ready = q]
BY DEF ProcessStates

LEMMA FirstReady ==
  ASSUME NEW s, s.ready = <<>>, NEW h
  PROVE  Post(s, h) = [s EXCEPT !.ready = <<h>>]
<1>1. Append(<<>>, h) = <<h>>
  OBVIOUS
<1> QED  BY <1>1 DEF Post

LEMMA ResolveStep ==
  ASSUME Sound, DCore, NEW p \in Clients, ResolveCompletes(p)
  PROVE  DCore'
<1> DEFINE s == proc[p]
<1>1. ClientTypes
  BY HeldTypes DEF Sound, SInv, DCore
<1>2. /\ s.resolving /\ stray' = stray /\ conn' = conn /\ asked' = asked
      /\ heard' = heard /\ blank' = blank /\ UNCHANGED vars
      /\ proc' = [proc EXCEPT ![p] = [Post(s, Done("resolve")) EXCEPT !.resolving = FALSE]]
  BY DEF ResolveCompletes, Becomes
<1>3. conn[p] = NoClient /\ s = Constructed /\ p \notin blank
  <2>1. ~Talking(s)
    BY <1>2 DEF Talking, Online, Up, Place
  <2> QED  BY <1>2, <2>1, StartingFields DEF DCore, Stage
<1>4. [Post(s, Done("resolve")) EXCEPT !.resolving = FALSE] = Resolved
  <2>1. Constructed \in ProcessStates /\ Constructed.ready = <<>>
    BY StartingFields DEF Constructed
  <2>2. Post(s, Done("resolve")) = [Constructed EXCEPT !.ready = <<Done("resolve")>>]
    BY <1>3, <2>1, FirstReady
  <2> QED  BY <2>1, <2>2, Twice DEF Resolved
<1>5. conn[p] \notin Conns
  BY <1>3, ConnsAssumption
<1>6. proc'[p] = Resolved /\ \A q \in Clients : q # p => proc'[q] = proc[q]
  BY <1>1, <1>2, <1>4 DEF ClientTypes
<1>7. sent' = sent /\ requests' = requests
  BY <1>2 DEF vars, logVars
<1>8. \A d \in Conns : OnTheWay(d)' = OnTheWay(d)
  BY <1>2, <1>7 DEF OnTheWay
<1>9. \A d \in Conns : ServerUp(d)'
  BY <1>2, NoServerStep DEF DCore
<1>10. Opened' = Opened
  <2>1. \A q \in Clients : q \in Opened' <=> q \in Opened
    BY <1>2, <1>3, <1>6 DEF Opened
  <2> QED  BY <2>1 DEF Opened
<1>11. Asking(proc'[p]) = Asking(proc[p])
  BY <1>3, <1>6, StartingFields
<1>12. Stage(p)' /\ Tidy(p)'
  BY <1>2, <1>3, <1>5, <1>6 DEF Stage, Tidy
<1> QED  BY <1>2, <1>6, <1>7, <1>8, <1>9, <1>10, <1>11, <1>12, QuietStep

(* The connection is made: nothing is on it yet.                           *)
LEMMA ConnectStep ==
  ASSUME Sound, DCore, NEW p \in Clients, ConnectSucceeds(p)
  PROVE  DCore'
<1> DEFINE s == proc[p]
           t == [Post(s, Done("connect"))
                   EXCEPT !.connecting = FALSE, !.socket = "connected"]
<1>1. Held /\ Fresh /\ ClientTypes /\ s \in ProcessStates
  BY HeldTypes DEF Sound, SInv, DCore, ClientTypes
<1>2. s.connecting /\ s.failure = "none" /\ stray' = stray /\ heard' = heard
      /\ blank' = blank /\ proc' = [proc EXCEPT ![p] = t]
  BY DEF ConnectSucceeds, Becomes, Running
<1>3. conn[p] = NoClient /\ s = Connecting /\ p \notin blank
  <2>1. ~Talking(s)
    BY <1>2 DEF Talking, Online, Up, Place
  <2> QED  BY <1>2, <2>1, StartingFields DEF DCore, Stage
<1>4. t = Made
  <2>1. Constructed \in ProcessStates /\ ~Constructed.connecting
    BY StartingFields DEF Constructed
  <2>2. Connecting.ready = <<>>
    BY DEF Connecting, Constructed
  <2>3. Post(s, Done("connect")) = [Connecting EXCEPT !.ready = <<Done("connect")>>]
    BY <1>3, <2>2, FirstReady
  <2> DEFINE q == <<Done("connect")>>
  <2>4. t = [[Connecting EXCEPT !.ready = q]
               EXCEPT !.connecting = FALSE, !.socket = "connected"]
    BY <2>3
  <2> HIDE DEF t, q
  <2>5. t = [Constructed EXCEPT !.resolving = FALSE, !.connecting = FALSE,
                                !.socket = "connected", !.ready = q]
    BY <2>1, <2>4, Twice DEF Connecting
  <2>6. t = [Constructed EXCEPT !.resolving = FALSE, !.socket = "connected",
                                !.ready = q]
    BY <2>1, <2>5, NotConnecting
  <2> QED  BY <2>6 DEF Made, q
<1>5. Online(Made) /\ ~s.writing
  <2>1. Placed(s)
    BY <1>1, <1>2 DEF Fresh
  <2> QED  BY <1>1, <1>2, <1>4, <2>1, ConnectCompletes
<1> HIDE DEF t
<1>6. PICK c \in Conns : /\ Connect(c) /\ conn' = [conn EXCEPT ![p] = c]
                         /\ asked' = asked
  BY <1>5 DEF ConnectSucceeds
<1>7. /\ proc'[p] = Made /\ conn'[p] = c /\ conn[p] \notin Conns
      /\ \A q \in Clients : q # p => proc'[q] = proc[q] /\ conn'[q] = conn[q]
  BY <1>1, <1>2, <1>3, <1>4, <1>6, ConnsAssumption DEF ClientTypes
<1>8. phase[c] = "idle" /\ sent' = sent /\ requests' = requests
  BY <1>6 DEF Connect, logVars
<1>9. \A d \in Conns : OnTheWay(d)' = OnTheWay(d)
  BY <1>2, <1>6, <1>8 DEF OnTheWay
<1>10. OnTheWay(c) = 0
  <2>1. asked[c] = <<>> /\ heard[c] = <<>> /\ written[c] = <<>>
    BY <1>1, <1>8 DEF Held, Owns
  <2>2. sent[c] = <<>>
    BY <1>8 DEF Sound, IInv, NothingBeforeAccept
  <2>3. Len(requests[c]) = 0
    <3>1. Len(requests[c]) <= Len(written[c])
      BY <1>1 DEF Held, OnWire, IsPrefix
    <3>2. Len(requests[c]) \in Nat
      BY <1>1, WayType DEF Sound
    <3> QED  BY <2>1, <3>1, <3>2
  <2>4. Len(asked[c]) = 0 /\ Len(heard[c]) = 0 /\ Len(sent[c]) = 0
    BY <2>1, <2>2
  <2> QED  BY <2>3, <2>4 DEF OnTheWay
<1>11. \A d \in Conns : ServerUp(d)'
  BY <1>1, <1>6, ServerUpStep DEF Sound, DCore
<1>12. p \notin Opened /\ p \notin Opened'
  <2>1. p \notin Opened
    BY <1>3 DEF Opened
  <2>2. /\ 1 \in DOMAIN Made.ready /\ Made.ready[1].op = "connect"
    <3>1. /\ 1 \in DOMAIN <<Done("connect")>>
          /\ <<Done("connect")>>[1] = Done("connect")
      OBVIOUS
    <3> QED  BY <3>1, MadeFields, HandlerTypes
  <2>3. p \notin Opened'
    BY <1>7, <2>2 DEF Opened
  <2> QED  BY <2>1, <2>3
<1>13. Opened' = Opened
  <2>1. \A q \in Clients : q # p => (q \in Opened' <=> q \in Opened)
    BY <1>7 DEF Opened
  <2>2. Opened' \subseteq Clients /\ Opened \subseteq Clients
    BY DEF Opened
  <2> QED  BY <1>12, <2>1, <2>2
<1>14. Asking(proc'[p]) = Asking(proc[p])
  BY <1>3, <1>7, StartingFields
<1>15. ReceivesOk(Made.ready) /\ Made.failure = "none"
  <2>1. Made.failure = "none"
    BY DEF Made, Constructed
  <2>2. Len(Made.ready) = 1 /\ Made.ready[1].op = "connect"
    BY MadeFields, HandlerTypes
  <2> QED  BY <2>1, <2>2 DEF ReceivesOk
<1>16. Stage(p)'
  BY <1>5, <1>7, <1>15 DEF Stage, Talking
<1>17. Tidy(p)'
  BY <1>2, <1>3, <1>7, <1>9, <1>10 DEF Tidy, Settled
<1> QED  BY <1>2, <1>7, <1>8, <1>9, <1>11, <1>13, <1>14, <1>16, <1>17, QuietStep

(* A client for which an operation is outstanding, other than its first    *)
(* resolve and connect, has a connection, which is up.                     *)
LEMMA Outstanding ==
  ASSUME Sound, DCore, NEW p \in Clients,
         LET s == proc[p]
         IN  s.receiving > 0 \/ s.writing \/ s.timer # "off" \/ s.stdin # <<>>
  PROVE  /\ conn[p] \in Conns /\ Talking(proc[p]) /\ proc[p] # Made
         /\ proc[p] \in ProcessStates /\ proc[p].timer = "off"
         /\ Without(proc[p].ready, {"connect"})
         /\ ~Failing(p)
<1> DEFINE s == proc[p]
<1>1. Held /\ ClientTypes /\ s \in ProcessStates
  BY HeldTypes DEF Sound, SInv, DCore, ClientTypes
<1>2. s \notin {Constructed, Resolved, Connecting}
  BY StartingFields
<1>3. conn[p] \in Conns /\ Talking(s)
  BY <1>2 DEF DCore, Stage
<1>4. s.timer = "off" /\ s.socket = "connected"
  BY <1>3 DEF Talking, Online, Up, Place
<1>5. s # Made
  <2>1. Made.receiving = 0 /\ ~Made.writing /\ Made.stdin = <<>>
    BY MadeFields
  <2> QED  BY <1>4, <2>1
<1>6. link[conn[p]]
  BY <1>1, <1>3 DEF Held, Owns, DCore, ServerUp
<1>7. ~Failing(p)
  BY <1>4, <1>6 DEF Failing
<1> QED  BY <1>1, <1>3, <1>4, <1>5, <1>7 DEF Talking

LEMMA PostStep ==
  ASSUME Sound, DCore, NEW p \in Clients, conn[p] \in Conns,
         Talking(proc[p]), Without(proc[p].ready, {"connect"}),
         UNCHANGED <<vars, conn, asked, heard, stray>>,
         NEW t \in ProcessStates, proc' = [proc EXCEPT ![p] = t],
         Online(t), t.failure = "none",
         NEW h \in Handlers, t.ready = Append(proc[p].ready, h),
         h.op # "connect", h.op = "receive" => h.ok,
         Asking(t) = Asking(proc[p]),
         \A q \in Clients :
           q # p \/ Asking(proc[q]) = 0 => (q \in blank' <=> q \in blank),
         \A w : proc[p] # Made /\ t # Made /\ Settled(proc[p], w, p, blank)
                 => Settled(t, w, p, blank')
  PROVE  DCore'
<1> DEFINE s == proc[p]
<1>1. ClientTypes /\ s \in ProcessStates
  BY HeldTypes DEF Sound, SInv, DCore, ClientTypes
<1>2. proc'[p] = t /\ \A q \in Clients : q # p => proc'[q] = proc[q]
  BY <1>1 DEF ClientTypes
<1>3. Without(t.ready, {"connect"})
  BY <1>1, ReadyType, Appended
<1>4. ReceivesOk(t.ready)
  <2> DEFINE q == s.ready
  <2>1. /\ q \in Seq(Handlers) /\ Len(q) \in Nat /\ ReceivesOk(q)
    BY <1>1, ReadyType DEF Talking
  <2>2. /\ Len(Append(q, h)) = Len(q) + 1 /\ Append(q, h)[Len(q) + 1] = h
        /\ \A i \in 1 .. Len(q) : Append(q, h)[i] = q[i]
    BY <2>1, AppendProperties
  <2> DEFINE r == Append(q, h)
  <2>3. t.ready = r
    OBVIOUS
  <2> HIDE DEF q, r
  <2>4. \A i \in 1 .. Len(r) : i \in 1 .. Len(q) \/ i = Len(q) + 1
    BY <2>1, <2>2 DEF r
  <2> QED  BY <2>1, <2>2, <2>3, <2>4 DEF ReceivesOk, r
<1>5. Talking(t)
  BY <1>3, <1>4 DEF Talking
<1>6. conn[p] # NoClient
  BY ConnsAssumption
<1>7. p \in Opened /\ p \in Opened'
  <2>1. /\ DOMAIN s.ready = 1 .. Len(s.ready)
        /\ DOMAIN t.ready = 1 .. Len(t.ready)
    BY <1>1, ReadyType, PromptsFinite
  <2>2. p \in Opened
    BY <1>6, <2>1 DEF Opened, Without
  <2>3. p \in Opened'
    BY <1>2, <1>3, <1>6, <2>1 DEF Opened, Without
  <2> QED  BY <2>2, <2>3
<1>8. Opened' = Opened
  <2>1. \A q \in Clients : q # p => (q \in Opened' <=> q \in Opened)
    BY <1>2 DEF Opened
  <2>2. Opened' \subseteq Clients /\ Opened \subseteq Clients
    BY DEF Opened
  <2>3. \A q : q \in Opened' <=> q \in Opened
    BY <1>7, <2>1, <2>2
  <2> QED  BY <2>3
<1>9. sent' = sent /\ requests' = requests
  BY DEF vars, logVars
<1>10. \A d \in Conns : OnTheWay(d)' = OnTheWay(d)
  BY <1>9 DEF OnTheWay
<1>11. \A d \in Conns : ServerUp(d)'
  BY NoServerStep DEF DCore
<1>12. Stage(p)'
  BY <1>2, <1>5 DEF Stage
<1>13. s # Made /\ t # Made
  BY <1>3, MadeFields
<1>14. Tidy(p) => Tidy(p)'
  <2>1. OnTheWay(conn[p])' = OnTheWay(conn[p])
    BY <1>10
  <2> QED  BY <1>2, <1>13, <2>1 DEF Tidy
<1> QED  BY <1>2, <1>8, <1>9, <1>10, <1>11, <1>12, <1>14, QuietStep

LEMMA ReceiveStep ==
  ASSUME Sound, DCore, NEW p \in Clients, ReceiveSucceeds(p)
  PROVE  DCore'
<1> DEFINE s == proc[p]
<1>1. s.receiving > 0 /\ s.failure = "none"
  BY DEF ReceiveSucceeds, Running
<1>2. /\ conn[p] \in Conns /\ Talking(s) /\ s \in ProcessStates
      /\ Without(s.ready, {"connect"})
  BY <1>1, Outstanding
<1>3. PICK pieces \in Seq(Pieces) :
        proc' = [proc EXCEPT ![p] = [Post(s, Received(pieces))
                                       EXCEPT !.receiving = @ - 1]]
  BY FetchEffect DEF Sound, SInv, DCore, Becomes
<1> DEFINE h == Received(pieces)
           v == Post(s, h)
           t == [v EXCEPT !.receiving = @ - 1]
<1>4. h \in Handlers /\ h.op = "receive" /\ h.ok
  BY HandlerTypes DEF Received, Done, Failed
<1>5. Placed(s)
  BY <1>1 DEF Sound, SInv, DCore, Fresh
<1> HIDE DEF h
<1>6. t \in ProcessStates /\ Online(t) /\ t.failure = "none"
  BY <1>1, <1>2, <1>4, <1>5, ReceiveCompletes
<1>7. /\ v \in ProcessStates /\ v.ready = Append(s.ready, h)
      /\ v.stdin = s.stdin /\ v.input_buffer_ = s.input_buffer_
  BY <1>2, <1>4, PostFields, PostKeepsTerminal
<1>8. /\ t.ready = Append(s.ready, h)
      /\ t.stdin = s.stdin /\ t.input_buffer_ = s.input_buffer_
  <2> HIDE DEF v
  <2> QED  BY <1>7 DEF ProcessStates
<1>9. proc' = [proc EXCEPT ![p] = t] /\ UNCHANGED <<vars, conn, asked, heard, stray, blank>>
  BY <1>3 DEF ReceiveSucceeds, h
<1> HIDE DEF t
<1>10. /\ Asking(t) = Asking(s) /\ (Silent(s) => Silent(t))
       /\ (Asked(s) => Asked(t)) /\ (Typed(s) => Typed(t))
       /\ (Blanked(s) => Blanked(t)) /\ (Finished(s) => Finished(t))
  <2>1. h.op \notin Prompts
    BY <1>4 DEF Prompts
  <2> QED  BY <1>2, <1>4, <1>6, <1>8, <2>1, PostedAsks
<1>11. \A w : s # Made /\ t # Made /\ Settled(s, w, p, blank)
                => Settled(t, w, p, blank')
  BY <1>9, <1>10 DEF Settled
<1> QED  BY <1>2, <1>4, <1>6, <1>8, <1>9, <1>10, <1>11, PostStep

LEMMA CallGoes ==
  ASSUME Sound, DCore, NEW p \in Clients, CallSucceeds(p)
  PROVE  DCore'
<1> DEFINE s == proc[p]
           h == Done("write")
           v == Post(s, h)
           t == [v EXCEPT !.writing = FALSE]
<1>1. s.writing /\ s.failure = "none"
  BY DEF CallSucceeds, Running
<1>2. /\ conn[p] \in Conns /\ Talking(s) /\ s \in ProcessStates
      /\ Without(s.ready, {"connect"})
  BY <1>1, Outstanding
<1>4. h \in Handlers /\ h.op = "write"
  BY HandlerTypes DEF Ops
<1>5. Placed(s)
  BY <1>1 DEF Sound, SInv, DCore, Fresh
<1>6. t \in ProcessStates /\ Online(t) /\ t.failure = "none"
  BY <1>1, <1>2, <1>5, CallCompletes
<1> HIDE DEF h
<1>7. /\ v \in ProcessStates /\ v.ready = Append(s.ready, h)
      /\ v.stdin = s.stdin /\ v.input_buffer_ = s.input_buffer_
  BY <1>2, <1>4, PostFields, PostKeepsTerminal
<1>8. /\ t.ready = Append(s.ready, h)
      /\ t.stdin = s.stdin /\ t.input_buffer_ = s.input_buffer_
  <2> HIDE DEF v
  <2> QED  BY <1>7 DEF ProcessStates
<1>9. proc' = [proc EXCEPT ![p] = t] /\ UNCHANGED <<vars, conn, asked, heard, stray, blank>>
  BY DEF CallSucceeds, Becomes, h
<1> HIDE DEF t
<1>10. /\ Asking(t) = Asking(s) /\ (Silent(s) => Silent(t))
       /\ (Asked(s) => Asked(t)) /\ (Typed(s) => Typed(t))
       /\ (Blanked(s) => Blanked(t)) /\ (Finished(s) => Finished(t))
  <2>1. h.op \notin Prompts
    BY <1>4 DEF Prompts
  <2> QED  BY <1>2, <1>4, <1>6, <1>8, <2>1, PostedAsks
<1>11. \A w : s # Made /\ t # Made /\ Settled(s, w, p, blank)
                => Settled(t, w, p, blank')
  BY <1>9, <1>10 DEF Settled
<1> QED  BY <1>2, <1>4, <1>6, <1>8, <1>9, <1>10, <1>11, PostStep

LEMMA LineStep ==
  ASSUME Sound, DCore, NEW p \in Clients, LineArrives(p)
  PROVE  DCore'
<1> DEFINE s == proc[p]
<1>1. s.stdin # <<>> /\ s.failure = "none"
  BY DEF LineArrives, Running
<1>2. /\ conn[p] \in Conns /\ Talking(s) /\ s \in ProcessStates
      /\ Without(s.ready, {"connect"})
  BY <1>1, Outstanding
<1>3. PICK line \in Lines :
        /\ Becomes(p, [Post(s, LineRead(Head(s.stdin).prompt, line))
                         EXCEPT !.stdin = Tail(@),
                                !.input_buffer_ = Append(@, line)])
        /\ blank' = IF line = NoText THEN blank \cup {p} ELSE blank
  BY DEF LineArrives
<1> DEFINE h == LineRead(Head(s.stdin).prompt, line)
           t == [Post(s, h) EXCEPT !.stdin = Tail(@),
                                   !.input_buffer_ = Append(@, line)]
<1>4. line \in Lines
  BY <1>3
<1>5. /\ h \in Handlers /\ h.op \in Prompts /\ t.ready = Append(s.ready, h)
      /\ Asking(t) = Asking(s)
      /\ ~Silent(s) /\ ~Typed(s) /\ ~Blanked(s) /\ ~Finished(s)
      /\ Asked(s) => IF line = NoText THEN Blanked(t) ELSE Typed(t)
  BY <1>1, <1>2, <1>4, LineAsks
<1>6. t \in ProcessStates /\ Aside(s, t)
  BY <1>1, <1>2, <1>4, LineAside
<1>7. proc' = [proc EXCEPT ![p] = t] /\ UNCHANGED <<vars, conn, asked, heard, stray>>
  BY <1>3 DEF LineArrives, Becomes
<1> HIDE DEF t, h
<1>8. Online(t) /\ t.failure = "none"
  <2>1. Online(s)
    BY <1>2 DEF Talking
  <2>2. t.failure = s.failure
    BY <1>6 DEF Aside
  <2> QED  BY <1>1, <1>2, <1>6, <2>1, <2>2, AsidePlaced
<1>9. h.op # "connect" /\ h.op # "receive"
  BY <1>5 DEF Prompts
<1>10. Asking(s) # 0
  <2>1. s.stdin \in Seq([prompt : Prompts, alone : BOOLEAN])
    BY <1>2 DEF ProcessStates
  <2>2. Len(s.stdin) \in Nat /\ Len(s.stdin) # 0
    BY <1>1, <2>1, LenProperties, EmptySeq
  <2>3. Cardinality(PromptsIn(s.ready)) \in Nat
    BY <1>2, ReadyType, PromptsFinite
  <2> QED  BY <2>2, <2>3 DEF Asking
<1>11. \A q \in Clients :
         q # p \/ Asking(proc[q]) = 0 => (q \in blank' <=> q \in blank)
  BY <1>3, <1>10
<1>12. \A w : s # Made /\ t # Made /\ Settled(s, w, p, blank)
                => Settled(t, w, p, blank')
  BY <1>3, <1>5 DEF Settled
<1> QED  BY <1>2, <1>5, <1>6, <1>7, <1>8, <1>9, <1>11, <1>12, PostStep

(* Nothing fails, and no timer is set.                                     *)
LEMMA NothingFails ==
  ASSUME Sound, DCore, NEW p \in Clients
  PROVE  /\ ~ReceiveFails(p) /\ ~CallFails(p)
         /\ ~TimeElapses(p) /\ ~TimerExpires(p)
<1>1. ~ReceiveFails(p) /\ ~CallFails(p)
  BY Outstanding DEF ReceiveFails, CallFails
<1>2. ~TimeElapses(p) /\ ~TimerExpires(p)
  BY Outstanding DEF TimeElapses, TimerExpires
<1> QED  BY <1>1, <1>2

-----------------------------------------------------------------------------
(* A step of the network or of the server.                                 *)
LEMMA ServerSteps ==
  ASSUME Sound, Sound', DCore, NEW c \in Conns,
         \/ FrameArrives(c) \/ ProcessFrame(c)
         \/ ServerReads(c) \/ ServerWrites(c) \/ ServerHandles(c)
  PROVE  DCore'
<1>1. Held /\ SumSound
  BY SoundSum DEF Sound, SInv, DCore
<1>2. proc' = proc /\ conn' = conn /\ asked' = asked /\ heard' = heard
      /\ stray' = stray /\ blank' = blank
  BY DEF FrameArrives, ProcessFrame, ServerReads, ServerWrites, ServerHandles,
         clientVars
<1>3. \A d \in Conns : ServerUp(d)'
  BY <1>1, ServerUpStep DEF Sound, DCore
<1>4. SumSound'
  BY <1>2, SoundSumNext DEF DCore
<1>5. Opened' = Opened /\ Kept' = Kept
  BY <1>2 DEF Opened, Kept, Ended, Prompting
<1>6. \A p \in Clients : Stage(p)'
  BY <1>2 DEF DCore, Stage
<1>7. ASSUME \A d \in Conns : OnTheWay(d)' = OnTheWay(d), NEW p \in Clients
      PROVE  Tidy(p) => Tidy(p)'
  BY <1>2, <1>7 DEF Tidy
<1>8. CASE ProcessFrame(c)
  <2>1. Dialogues' = Dialogues
    BY <1>1, <1>4, <1>8, FrameSum
  <2>2. PICK d \in Conns :
          /\ \A e \in Conns :
               OnTheWay(e)' = (OnTheWay(e) - Plus(c, e)) + Plus(d, e)
          /\ d = c \/ Refused'
          /\ Refused => Refused'
          /\ OnlyAnswers => OnlyAnswers'
    BY <1>1, <1>8, FrameWays
  <2>3. ASSUME ~Refused', NEW e \in Conns PROVE OnTheWay(e)' = OnTheWay(e)
    <3>1. OnTheWay(e)' = (OnTheWay(e) - Plus(c, e)) + Plus(c, e)
      BY <2>2, <2>3
    <3>2. OnTheWay(e) \in Nat /\ Plus(c, e) \in Nat
      BY <1>1, SumWays DEF WaySound, Plus
    <3> QED  BY <3>1, <3>2
  <2>4. ~Refused' => \A p \in Clients : Tidy(p)'
    BY <1>7, <2>2, <2>3 DEF DCore
  <2> QED  BY <1>2, <1>3, <1>5, <1>6, <2>1, <2>2, <2>4 DEF DCore
<1>9. CASE \/ FrameArrives(c) \/ ServerReads(c) \/ ServerWrites(c)
           \/ ServerHandles(c)
  <2>1. sent' = sent /\ requests' = requests
    BY <1>9
       DEF FrameArrives, FrameSizeArrives, ServerReads, FrameDataArrives,
           ReadFails, ServerWrites, WriteSucceeds, WriteFails, OnWriteOk,
           OnWriteError, ServerHandles, Accept, OnFrameSize, OnReadError,
           logVars, writeVars, readVars, mixinVars
  <2>2. \A d \in Conns : OnTheWay(d)' = OnTheWay(d)
    BY <1>2, <2>1 DEF OnTheWay
  <2>3. Dialogues' = Dialogues
    BY <1>2, <2>2, SameDialogues
  <2>4. Refused' = Refused /\ OnlyAnswers'
    BY <2>1, SameSent DEF DCore
  <2> QED  BY <1>2, <1>3, <1>5, <1>6, <1>7, <2>2, <2>3, <2>4 DEF DCore
<1> QED  BY <1>8, <1>9

(* Nothing happens.                                                        *)
LEMMA NothingMoves ==
  ASSUME DCore, UNCHANGED sysVars
  PROVE  DCore'
<1>1. proc' = proc /\ conn' = conn /\ asked' = asked /\ heard' = heard
      /\ stray' = stray /\ blank' = blank /\ UNCHANGED vars
  BY DEF sysVars, clientVars
<1>2. sent' = sent /\ requests' = requests
  BY <1>1 DEF vars, logVars
<1>3. \A d \in Conns : ServerUp(d)'
  BY <1>1, NoServerStep DEF DCore
<1>4. \A d \in Conns : OnTheWay(d)' = OnTheWay(d)
  BY <1>1, <1>2 DEF OnTheWay
<1>5. Dialogues' = Dialogues
  BY <1>1, <1>4, SameDialogues
<1>6. Refused' = Refused /\ OnlyAnswers' /\ Opened' = Opened /\ Kept' = Kept
  BY <1>1, <1>2, SameSent DEF DCore, Opened, Kept, Ended, Prompting
<1>7. \A p \in Clients : Stage(p)' /\ (Tidy(p) => Tidy(p)')
  BY <1>1, <1>4 DEF DCore, Stage, Tidy
<1> QED  BY <1>1, <1>3, <1>5, <1>6, <1>7 DEF DCore

LEMMA DStep ==
  ASSUME Sound, Sound', DInv, [SysNext]_sysVars
  PROVE  DInv'
<1> SUFFICES ASSUME resets' = 0 PROVE DCore'
  BY DEF DInv
<1>1. resets \in Nat
  <2>1. Held
    BY DEF Sound, SInv
  <2> QED  BY <2>1, HeldTypes, SystemBoundsAssumption DEF ClientTypes
<1>2. CASE UNCHANGED sysVars
  <2>1. resets = 0
    BY <1>2 DEF sysVars, clientVars
  <2> QED  BY <1>2, <2>1, NothingMoves DEF DInv
<1>3. ASSUME NEW c \in Conns,
             \/ FrameArrives(c) \/ ProcessFrame(c)
             \/ ServerReads(c) \/ ServerWrites(c) \/ ServerHandles(c)
      PROVE  DCore'
  <2>1. resets = 0
    BY <1>3 DEF FrameArrives, ProcessFrame, ServerReads, ServerWrites,
                ServerHandles, clientVars
  <2> QED  BY <1>3, <2>1, ServerSteps DEF DInv
<1>4. ASSUME NEW p \in Clients,
             \/ RunHandler(p) \/ ResolveCompletes(p) \/ ConnectSucceeds(p)
             \/ ReceiveSucceeds(p) \/ ReceiveFails(p)
             \/ CallSucceeds(p) \/ CallFails(p)
             \/ TimeElapses(p) \/ TimerExpires(p)
             \/ LineArrives(p)
      PROVE  DCore'
  <2>1. resets = 0
    BY <1>4 DEF RunHandler, ResolveCompletes, ConnectSucceeds,
                ReceiveSucceeds, ReceiveFails, CallSucceeds, CallFails,
                TimeElapses, TimerExpires, LineArrives
  <2>2. DCore
    BY <2>1 DEF DInv
  <2>3. CASE RunHandler(p)
    <3>1. conn[p] \in Conns \/ conn[p] = NoClient
      BY <2>2 DEF DCore, Stage
    <3> QED  BY <2>2, <2>3, <3>1, RunStep, RunStart
  <2> QED  BY <1>4, <2>2, <2>3, ResolveStep, ConnectStep, ReceiveStep, CallGoes,
              LineStep, NothingFails
<1>5. ASSUME NEW p \in Clients, Reset(p) PROVE FALSE
  BY <1>1, <1>5 DEF Reset
<1> QED  BY <1>2, <1>3, <1>4, <1>5 DEF SysNext

LEMMA TotalOfNone ==
  ASSUME NEW D, NEW f, f = [x \in D |-> 0]
  PROVE  Total(f) = 0
<1>1. 1 .. 0 = {}
  OBVIOUS
<1>2. \A x \in DOMAIN f : {x} \X (1 .. f[x]) = {}
  BY <1>1
<1>3. UNION {{x} \X (1 .. f[x]) : x \in DOMAIN f} = {}
  BY <1>2
<1> QED  BY <1>3, FS_EmptySet DEF Total

LEMMA SysInitDInv == SysInit => DInv
<1> SUFFICES ASSUME SysInit PROVE DCore
  BY DEF DInv
<1>1. /\ proc = [p \in Clients |-> Constructed]
      /\ conn = [p \in Clients |-> NoClient]
      /\ asked = [c \in Conns |-> <<>>] /\ heard = [c \in Conns |-> <<>>]
      /\ stray = FALSE /\ blank = {} /\ Init
  BY DEF SysInit
<1>2. /\ requests = [c \in Conns |-> <<>>] /\ sent = [c \in Conns |-> <<>>]
      /\ phase = [c \in Conns |-> "idle"] /\ clients_ = {}
      /\ reading = [c \in Conns |-> "pending"]
      /\ writing = [c \in Conns |-> "idle"]
  BY <1>1 DEF Init
<1>3. Len(<<>>) = 0
  OBVIOUS
<1>4. \A c \in Conns : OnTheWay(c) = 0
  BY <1>1, <1>2, <1>3 DEF OnTheWay
<1>5. \A p \in Clients : Asking(proc[p]) = 0
  BY <1>1, StartingFields
<1>6. Dialogues = 0
  <2>1. Total([p \in Clients |-> Asking(proc[p])]) = 0
    BY <1>5, TotalOfNone
  <2>2. Total([c \in Conns |-> OnTheWay(c)]) = 0
    BY <1>4, TotalOfNone
  <2> QED  BY <2>1, <2>2 DEF Dialogues
<1>7. Opened = {} /\ Kept = {}
  BY <1>1 DEF Opened, Kept
<1>8. Cardinality(Opened) = 0 /\ Cardinality(Kept) = 0
  BY <1>7, FS_EmptySet
<1>9. \A c \in Conns : ServerUp(c)
  BY <1>2 DEF ServerUp
<1>10. \A p \in Clients : Stage(p) /\ Tidy(p)
  BY <1>1, ConnsAssumption DEF Stage, Tidy
<1>11. OnlyAnswers
  BY <1>2, <1>3 DEF OnlyAnswers
<1> QED  BY <1>1, <1>6, <1>8, <1>9, <1>10, <1>11 DEF DCore

(* While no connection is lost, prompts, calls on their way and answers on *)
(* their way back are together never more than the clients that have begun *)
(* a dialogue; and as long as no name is refused they are just as many as  *)
(* the clients that have begun one which no empty line has ended: across   *)
(* the lists, the writes, the reads and the terminals of both programs.    *)
THEOREM DialoguesConservedCorrect == SysSpec => []DialoguesConserved
<1>1. IInv /\ RInv /\ StreamIntegrity /\ SInv => Sound
  BY DEF Sound
<1>2. Sound /\ Sound' /\ DInv /\ [SysNext]_sysVars => DInv'
  BY DStep
<1>3. DInv => DialoguesConserved
  BY DEF DInv, DCore, DialoguesConserved, Dialogues, Kept, Prompting, Asking, PromptsIn
<1> QED  BY <1>1, <1>2, <1>3, SysInitDInv, SystemInvariant, PTL DEF SysSpec
=============================================================================
