--------------------------- MODULE ChatRoomProofs ---------------------------
(***************************************************************************)
(* Proof that TalkServer implements ChatRoom, for any connections, names,  *)
(* calls and bounds.                                                       *)
(***************************************************************************)
EXTENDS TalkServerProofs

(* 1 while a frame of c is being read, from its size on.                   *)
InProgress(c) ==
  IF phase[c] = "data" \/ (phase[c] = "size" /\ reading[c] = "ok")
    THEN 1 ELSE 0

(* Every call that was processed came in a frame that was counted, so the  *)
(* number of a post is within the bound of the model.                      *)
FramesCounted ==
  \A c \in Conns : Len(requests[c]) + InProgress(c) <= frames

(* What Accept starts from, for the chain of reads.                        *)
NothingReadBeforeAccept ==
  \A c \in Conns : phase[c] \in {"idle", "backlog"} => reading[c] # "ok"

(* A ship bears the number of a call that its author has made.             *)
ShipsNumbered ==
  \A d \in Conns : \A i \in 1 .. Len(sent[d]) :
    IsShip(sent[d][i]) =>
      sent[d][i].ship.no <= Len(requests[sent[d][i].ship.from])

RInv == FramesCounted /\ NothingReadBeforeAccept /\ ShipsNumbered

LEMMA InitRInv == Init => RInv
<1> SUFFICES ASSUME Init PROVE RInv
  OBVIOUS
<1>1. \A c \in Conns : Len(requests[c]) = 0 /\ Len(sent[c]) = 0
  BY EmptySeq DEF Init
<1>2. FramesCounted /\ NothingReadBeforeAccept
  BY <1>1 DEF Init, FramesCounted, NothingReadBeforeAccept, InProgress
<1>3. ShipsNumbered
  BY <1>1 DEF ShipsNumbered
<1> QED  BY <1>2, <1>3 DEF RInv

(* What one call does to names and messages.                               *)
LEMMA CallEffect ==
  ASSUME TypeOK, NEW c \in clients_, NEW r \in Calls, NEW ship \in Ships,
         Process(c, r, ship)
  PROVE  /\ \E R \in SUBSET clients_, m \in Messages :
              /\ Send(R, m)
              /\ IsShip(m) => /\ m.ship = ship /\ m.name = user_name[c]
                              /\ r.call = "postShip" /\ R = clients_ \ {c}
         /\ \/ user_name' = user_name
            \/ /\ r.call = "setUserName"
               /\ user_name' = [user_name EXCEPT ![c] = r.name]
<1>1. r \in TalkServerCalls
  BY CallsAssumption
<1>2. user_name[c] \in Names \cup {NoName}
  BY DEF TypeOK
<1>3. \A a \in Replies : [reply |-> a] \in Messages /\ a # "on_subscribeShip"
  BY DEF Messages, Replies
<1>4. CASE r.call = "postShip"
  <2> DEFINE m == [reply |-> "on_subscribeShip", name |-> user_name[c],
                   ship |-> ship]
  <2>1. m \in Messages
    BY <1>2 DEF Messages
  <2>2. /\ Send(clients_ \ {c}, m) /\ m.ship = ship /\ m.name = user_name[c]
        /\ user_name' = user_name
    BY <1>4 DEF Process, postShip
  <2> HIDE DEF m
  <2> QED  BY <1>4, <2>1, <2>2
<1>5. CASE r.call = "setUserName"
  <2>1. setUserName(c, r.name)
    BY <1>5 DEF Process
  <2> QED  BY <1>3, <1>5, <2>1 DEF setUserName, Replies, IsShip
<1>6. CASE r.call \in {"getVersion", "subscribe", "unsubscribe"}
  BY <1>3, <1>6 DEF Process, getVersion, subscribe, unsubscribe, Replies, IsShip
<1> QED  BY <1>1, <1>4, <1>5, <1>6 DEF TalkServerCalls

(* One call: the numbers of the ships stay below the number of calls.      *)
LEMMA CallRInv ==
  ASSUME IInv, RInv, NEW c \in Conns, OnFrameData(c)
  PROVE  RInv'
<1> USE DEF IInv
<1>1. PICK r \in Calls :
        /\ Process(c, r, [from |-> c, no |-> Len(requests[c]) + 1])
        /\ requests' = [requests EXCEPT ![c] = Append(@, r)]
  BY DEF OnFrameData, BeforeProcess
<1> DEFINE ship == [from |-> c, no |-> Len(requests[c]) + 1]
<1>2. /\ c \in clients_ /\ clients_ \subseteq Conns
      /\ requests[c] \in Seq(Calls) /\ Len(requests[c]) \in Nat
  BY LenProperties DEF OnFrameData, ChainIffRegistered, TypeOK
<1>3. \A d \in Conns : Len(requests[d]) \in Nat
  BY LenProperties DEF TypeOK
<1>4. /\ Len(requests'[c]) = Len(requests[c]) + 1
      /\ \A d \in Conns : d # c => requests'[d] = requests[d]
  <2>1. requests'[c] = Append(requests[c], r)
    BY <1>1 DEF TypeOK
  <2>2. Len(Append(requests[c], r)) = Len(requests[c]) + 1
    BY <1>2, AppendProperties
  <2> QED  BY <1>1, <2>1, <2>2 DEF TypeOK
<1>5. FramesCounted' /\ NothingReadBeforeAccept'
  <2>1. /\ phase[c] = "data" /\ phase'[c] = "size"
        /\ reading'[c] \in {"pending", "err"} /\ frames' = frames
        /\ \A d \in Conns : d # c => /\ phase'[d] = phase[d]
                                     /\ reading'[d] = reading[d]
    BY DEF OnFrameData, Started, TypeOK
  <2>2. InProgress(c) = 1 /\ InProgress(c)' = 0
    BY <2>1 DEF InProgress
  <2>3. \A d \in Conns : d # c => InProgress(d)' = InProgress(d)
    BY <2>1 DEF InProgress
  <2>4. FramesCounted'
    BY <1>2, <1>4, <2>1, <2>2, <2>3 DEF RInv, FramesCounted
  <2> QED  BY <2>1, <2>4 DEF RInv, NothingReadBeforeAccept
<1>6. PICK R \in SUBSET clients_, m \in Messages :
        Send(R, m) /\ (IsShip(m) => m.ship = ship)
  <2>1. ship \in Ships
    BY <1>2 DEF Ships
  <2> HIDE DEF ship
  <2> QED  BY <1>1, <1>2, <2>1, CallEffect DEF ship
<1>7. ShipsNumbered'
  <2> SUFFICES ASSUME NEW d \in Conns, NEW i \in 1 .. Len(sent'[d]),
                      IsShip(sent'[d][i])
               PROVE  sent'[d][i].ship.no
                        <= Len(requests'[sent'[d][i].ship.from])
    BY DEF ShipsNumbered, IsShip
  <2>1. sent[d] \in Seq(Messages) /\ Len(sent[d]) \in Nat
    BY LenProperties DEF TypeOK
  <2>2. CASE i \in 1 .. Len(sent[d]) /\ sent'[d][i] = sent[d][i]
    <3>1. /\ sent[d][i] \in Messages /\ IsShip(sent[d][i])
          /\ sent[d][i].ship.no <= Len(requests[sent[d][i].ship.from])
      BY <2>1, <2>2, ElementOfSeq DEF RInv, ShipsNumbered, IsShip
    <3>2. sent[d][i].ship.from \in Conns /\ sent[d][i].ship.no \in Nat
      BY <3>1 DEF Messages, Replies, IsShip, Ships
    <3>3. ASSUME NEW e \in Conns, NEW n \in Nat, n <= Len(requests[e])
          PROVE  n <= Len(requests'[e])
      <4>1. CASE e = c
        BY <1>2, <1>4, <3>3, <4>1
      <4>2. CASE e # c
        BY <1>4, <3>3, <4>2
      <4> QED  BY <4>1, <4>2
    <3>4. sent'[d][i].ship = sent[d][i].ship
      BY <2>2
    <3> QED  BY <3>1, <3>2, <3>3, <3>4
  <2>3. CASE sent'[d][i] = m
    <3>1. m.ship = ship
      BY <1>6, <2>3
    <3> QED  BY <1>2, <1>4, <2>3, <3>1
  <2>4. CASE d \in R
    <3>1. sent'[d] = Append(sent[d], m)
      BY <1>6, <2>4 DEF Send
    <3>2. /\ Len(Append(sent[d], m)) = Len(sent[d]) + 1
          /\ \A j \in 1 .. Len(sent[d]) : Append(sent[d], m)[j] = sent[d][j]
          /\ Append(sent[d], m)[Len(sent[d]) + 1] = m
      BY <2>1, AppendProperties
    <3> QED  BY <2>1, <2>2, <2>3, <3>1, <3>2
  <2>5. CASE d \notin R
    <3>1. sent'[d] = sent[d]
      BY <1>6, <2>5 DEF Send
    <3> QED  BY <2>2, <3>1
  <2> QED  BY <2>4, <2>5
<1> QED  BY <1>5, <1>7 DEF RInv

(* The other steps process no call and send nothing.                       *)
LEMMA NextRInv == IInv /\ RInv /\ [Next]_vars => RInv'
<1> SUFFICES ASSUME IInv, RInv, [Next]_vars PROVE RInv'
  OBVIOUS
<1> USE DEF readVars, writeVars, mixinVars, logVars
<1>1. ASSUME NEW c \in Conns, OnFrameData(c) PROVE RInv'
  BY <1>1, CallRInv
<1>2. ASSUME UNCHANGED <<requests, sent>>,
             \A c \in Conns : /\ InProgress(c)' + frames <= InProgress(c) + frames'
                              /\ phase'[c] \in {"idle", "backlog"} =>
                                   reading'[c] # "ok"
      PROVE  RInv'
  <2>1. \A c \in Conns : Len(requests[c]) \in Nat
    BY LenProperties DEF IInv, TypeOK
  <2>2. frames \in Nat /\ frames' \in Nat
    BY BoundsAssumption, NextIInv DEF IInv, TypeOK
  <2>3. \A c \in Conns : InProgress(c) \in Nat /\ InProgress(c)' \in Nat
    BY DEF InProgress
  <2>4. FramesCounted'
    BY <1>2, <2>1, <2>2, <2>3 DEF RInv, FramesCounted
  <2>5. NothingReadBeforeAccept'
    BY <1>2 DEF NothingReadBeforeAccept
  <2>6. ShipsNumbered'
    BY <1>2 DEF RInv, ShipsNumbered
  <2> QED  BY <2>4, <2>5, <2>6 DEF RInv
<1>3. frames \in Nat
  BY BoundsAssumption DEF IInv, TypeOK
<1>4. \A c \in Conns : InProgress(c) \in {0, 1} /\ InProgress(c)' \in {0, 1}
  BY DEF InProgress
<1>5. ASSUME NEW d \in Conns, FrameSizeArrives(d) PROVE RInv'
  <2>1. UNCHANGED <<requests, sent, phase>> /\ frames' = frames + 1
    BY <1>5 DEF FrameSizeArrives
  <2>2. \A c \in Conns : c # d => reading'[c] = reading[c]
    BY <1>5 DEF FrameSizeArrives, IInv, TypeOK
  <2>3. phase[d] = "size"
    BY <1>5 DEF FrameSizeArrives
  <2>4. \A c \in Conns : phase'[c] \in {"idle", "backlog"} => reading'[c] # "ok"
    BY <2>1, <2>2, <2>3 DEF RInv, NothingReadBeforeAccept
  <2> QED  BY <1>2, <1>3, <1>4, <2>1, <2>4
<1>6. ASSUME UNCHANGED <<requests, sent, frames>>,
             \A c \in Conns : /\ InProgress(c)' <= InProgress(c)
                              /\ phase'[c] \in {"idle", "backlog"} =>
                                   reading'[c] # "ok"
      PROVE  RInv'
  BY <1>2, <1>3, <1>4, <1>6
<1>7. ASSUME NEW d \in Conns,
             \/ Connect(d) \/ PeerLost(d) \/ FrameDataArrives(d)
             \/ ReadFails(d) \/ WriteSucceeds(d) \/ WriteFails(d)
             \/ TimesOut(d) \/ Accept(d) \/ OnFrameSize(d)
             \/ OnReadError(d) \/ OnWriteOk(d) \/ OnWriteError(d)
      PROVE  RInv'
  <2>1. UNCHANGED <<requests, sent, frames>>
    BY <1>7 DEF Connect, PeerLost, FrameDataArrives, ReadFails,
         WriteSucceeds, WriteFails, TimesOut, Accept, OnFrameSize,
         OnReadError, OnWriteOk, OnWriteError
  <2>2. \A c \in Conns :
          /\ InProgress(c)' <= InProgress(c)
          /\ phase'[c] \in {"idle", "backlog"} => reading'[c] # "ok"
    BY <1>7 DEF Connect, PeerLost, FrameDataArrives, ReadFails,
         WriteSucceeds, WriteFails, TimesOut, Accept, OnFrameSize, Started,
         OnReadError, OnWriteOk, OnWriteError, InProgress, RInv,
         NothingReadBeforeAccept, IInv, TypeOK, Phases, Outcomes
  <2> QED  BY <1>6, <2>1, <2>2
<1>8. ASSUME AcceptError PROVE RInv'
  <2>1. UNCHANGED <<requests, sent, frames, reading>>
    BY <1>8 DEF AcceptError
  <2>2. \A c \in Conns : phase'[c] = IF phase[c] = "backlog" THEN "gone"
                                                             ELSE phase[c]
    BY <1>8 DEF AcceptError
  <2> QED  BY <1>6, <2>1, <2>2 DEF InProgress, RInv, NothingReadBeforeAccept
<1>9. ASSUME UNCHANGED vars PROVE RInv'
  BY <1>6, <1>9 DEF vars, InProgress, RInv, NothingReadBeforeAccept
<1> QED  BY <1>1, <1>5, <1>7, <1>8, <1>9
         DEF Next, Reactor, Handler, PeerDown, PeerVanishes

-----------------------------------------------------------------------------
(* Steps of the server, seen in the room.                                  *)

(* Received messages are what was said, up to some point.                  *)
LEMMA HearStep ==
  ASSUME IInv, NEW c \in Conns, NEW t \in Seq(Messages), StreamIntegrity',
         delivered' = [delivered EXCEPT ![c] = @ \o t],
         UNCHANGED <<phase, clients_, user_name, sent>>
  PROVE  Room!Hear(c)
<1> DEFINE d == delivered[c] \o t
<1>1. /\ delivered[c] \in Seq(Messages) /\ sent[c] \in Seq(Messages)
      /\ Len(delivered[c]) \in Nat /\ Len(sent[c]) \in Nat
      /\ Len(t) \in Nat
  BY LenProperties DEF IInv, TypeOK
<1>2. d \in Seq(Messages) /\ Len(d) = Len(delivered[c]) + Len(t)
  BY <1>1, ConcatProperties
<1>3. delivered'[c] = d /\ IsPrefix(delivered'[c], sent[c])
  BY DEF StreamIntegrity, IInv, TypeOK
<1> HIDE DEF d
<1>4. Len(d) <= Len(sent[c]) /\ d = SubSeq(sent[c], 1, Len(d))
  BY <1>2, <1>3, SubSeqFull DEF IsPrefix
<1>5. Len(d) \in Len(delivered[c]) .. Len(sent[c])
  BY <1>1, <1>2, <1>4
<1>6. delivered' = [delivered EXCEPT ![c] = SubSeq(sent[c], 1, Len(d))]
  BY <1>4 DEF d
<1>7. UNCHANGED <<RoomStatus, user_name, sent>>
  BY DEF RoomStatus
<1> QED  BY <1>5, <1>6, <1>7 DEF Room!Hear

(* A call is answered, names somebody, is refused or is a post.            *)
LEMMA CallStep ==
  ASSUME IInv, RInv, NEW c \in Conns, OnFrameData(c)
  PROVE  Room!Next
<1> USE DEF IInv
<1>1. PICK r \in Calls :
        Process(c, r, [from |-> c, no |-> Len(requests[c]) + 1])
  BY DEF OnFrameData, BeforeProcess
<1>2. /\ c \in clients_ /\ clients_ \subseteq Conns
      /\ Len(requests[c]) \in Nat
  BY LenProperties DEF OnFrameData, ChainIffRegistered, TypeOK
<1>3. r \in TalkServerCalls
  BY CallsAssumption
<1>4. Room!Members = clients_
  BY <1>2 DEF Room!Members, RoomStatus
<1>5. UNCHANGED <<RoomStatus, delivered>>
  BY <1>2 DEF OnFrameData, RoomStatus, TypeOK, ChainIffRegistered
<1>6. \A R, m : Send(R, m) => Room!Say(R, m)
  BY DEF Send, Room!Say
<1>7. CASE r.call \in {"getVersion", "subscribe", "unsubscribe"}
  <2>1. /\ \E a \in {"on_getVersion", "on_subscribe_succeeded",
                      "on_unsubscribe_succeeded"} :
              Send({c}, [reply |-> a])
        /\ UNCHANGED user_name
    BY <1>1, <1>7 DEF Process, getVersion, subscribe, unsubscribe
  <2>2. Room!Answer(c)
    BY <1>2, <1>4, <1>5, <1>6, <2>1 DEF Room!Answer, Answers
  <2> QED  BY <2>2 DEF Room!Next
<1>8. CASE r.call = "setUserName"
  <2>1. setUserName(c, r.name) /\ r.name \in Names \cup {NoName}
    BY <1>1, <1>3, <1>8 DEF Process, TalkServerCalls
  <2>2. CASE \E p \in clients_ : /\ Send({p}, [reply |-> "on_setUserName_failed"])
                                 /\ UNCHANGED user_name
    <3>1. PICK p \in clients_ : /\ Send({p}, [reply |-> "on_setUserName_failed"])
                                /\ UNCHANGED user_name
      BY <2>2
    <3>2. Room!Refuse(p)
      BY <1>4, <1>5, <1>6, <3>1 DEF Room!Refuse
    <3> QED  BY <1>2, <3>2 DEF Room!Next
  <2>3. CASE /\ \A p \in clients_ : user_name[p] # r.name
             /\ user_name' = [user_name EXCEPT ![c] = r.name]
             /\ Send({c}, [reply |-> "on_setUserName_succeeded"])
    <3>1. Room!Rename(c, r.name)
      BY <1>2, <1>4, <1>5, <1>6, <2>3 DEF Room!Rename
    <3> QED  BY <2>1, <3>1 DEF Room!Next
  <2> QED  BY <2>1, <2>2, <2>3 DEF setUserName
<1>9. CASE r.call = "postShip"
  <2> DEFINE no == Len(requests[c]) + 1
  <2>1. /\ Send(clients_ \ {c}, [reply |-> "on_subscribeShip",
                                  name |-> user_name[c],
                                  ship |-> [from |-> c, no |-> no]])
        /\ UNCHANGED user_name
    BY <1>1, <1>9 DEF Process, postShip
  <2>2. no \in 1 .. MaxFrames
    <3>1. InProgress(c) = 1
      BY DEF InProgress, OnFrameData
    <3>2. no <= frames
      BY <3>1 DEF RInv, FramesCounted
    <3> QED  BY <1>2, <3>2, BoundsAssumption DEF TypeOK
  <2>3. Room!Fresh(c, no)
    <3> SUFFICES ASSUME NEW d \in Conns, NEW i \in 1 .. Len(sent[d]),
                        sent[d][i].reply = "on_subscribeShip",
                        sent[d][i].ship.from = c
                 PROVE  sent[d][i].ship.no < no
      BY DEF Room!Fresh
    <3>1. sent[d][i].ship.no <= Len(requests[c])
      BY DEF RInv, ShipsNumbered, IsShip
    <3>2. sent[d][i] \in Messages
      BY ElementOfSeq DEF TypeOK
    <3>3. sent[d][i].ship.no \in Nat
      BY <3>2 DEF Messages, Replies, Ships
    <3> QED  BY <1>2, <3>1, <3>3
  <2> HIDE DEF no
  <2>4. Room!Post(c, no)
    BY <1>2, <1>4, <1>5, <1>6, <2>1, <2>3 DEF Room!Post
  <2> QED  BY <2>2, <2>4 DEF Room!Next
<1> QED  BY <1>3, <1>7, <1>8, <1>9 DEF TalkServerCalls

(* Entering, leaving, and the door.                                        *)
LEMMA DoorStep ==
  ASSUME IInv, (\E c \in Conns : Accept(c) \/ OnReadError(c)) \/ AcceptError
  PROVE  [Room!Next]_(Room!vars)
<1> USE DEF IInv, readVars, writeVars, mixinVars, logVars
<1>1. ASSUME NEW c \in Conns, Accept(c) PROVE Room!Enter(c)
  <2>1. c \notin clients_ /\ phase[c] = "backlog"
    BY <1>1 DEF Accept, ChainIffRegistered
  <2>2. RoomStatus[c] = "out"
    BY <2>1 DEF RoomStatus
  <2>3. RoomStatus' = [RoomStatus EXCEPT ![c] = "in"]
    BY <1>1, <2>1 DEF Accept, RoomStatus, TypeOK
  <2> QED  BY <1>1, <2>2, <2>3 DEF Accept, Room!Enter
<1>2. ASSUME NEW c \in Conns, OnReadError(c) PROVE Room!Leave(c)
  <2>1. c \in clients_
    BY <1>2 DEF OnReadError, ChainIffRegistered
  <2>2. RoomStatus[c] = "in"
    BY <2>1 DEF RoomStatus
  <2>3. RoomStatus' = [RoomStatus EXCEPT ![c] = "left"]
    BY <1>2, <2>1 DEF OnReadError, RoomStatus, TypeOK
  <2> QED  BY <1>2, <2>2, <2>3 DEF OnReadError, Room!Leave
<1>3. ASSUME AcceptError PROVE [Room!Next]_(Room!vars)
  <2> DEFINE R == {c \in Conns : phase[c] = "backlog"}
  <2>1. \A c \in R : c \notin clients_
    BY DEF ChainIffRegistered
  <2>2. UNCHANGED <<clients_, user_name, sent, delivered>>
    BY <1>3 DEF AcceptError
  <2>3. RoomStatus' = [c \in Conns |-> IF c \in R THEN "left" ELSE RoomStatus[c]]
    BY <1>3, <2>1, <2>2 DEF AcceptError, RoomStatus
  <2>4. CASE R = {}
    <3>1. RoomStatus' = RoomStatus
      BY <2>3, <2>4 DEF RoomStatus
    <3> QED  BY <2>2, <3>1 DEF Room!vars
  <2>5. CASE R # {}
    <3>1. \A c \in R : RoomStatus[c] = "out"
      BY <2>1 DEF RoomStatus
    <3>2. Room!TurnAway(R)
      BY <2>2, <2>3, <2>5, <3>1 DEF Room!TurnAway
    <3> QED  BY <3>2 DEF Room!Next
  <2> QED  BY <2>4, <2>5
<1> QED  BY <1>1, <1>2, <1>3 DEF Room!Next

(* Every step is a step of the room or leaves it as it is.                 *)
LEMMA RoomStep ==
  IInv /\ RInv /\ StreamIntegrity' /\ [Next]_vars => [Room!Next]_(Room!vars)
<1> SUFFICES ASSUME IInv, RInv, StreamIntegrity', [Next]_vars
             PROVE  [Room!Next]_(Room!vars)
  OBVIOUS
<1> USE DEF readVars, writeVars, mixinVars, logVars
<1>1. ASSUME NEW c \in Conns, OnFrameData(c) PROVE [Room!Next]_(Room!vars)
  BY <1>1, CallStep
<1>2. ASSUME NEW c \in Conns, PeerLost(c) PROVE [Room!Next]_(Room!vars)
  <2> DEFINE F == FrontString(outbound_messages_[c])
  <2>1. PICK k \in 0 .. Len(F) :
          delivered' = [delivered EXCEPT ![c] = @ \o SubSeq(F, 1, k)]
    BY <1>2 DEF PeerLost
  <2>2. F \in Seq(Messages)
    BY FrontAndRest DEF IInv, TypeOK
  <2>3. SubSeq(F, 1, k) \in Seq(Messages)
    BY <2>2, SplitAt
  <2>4. UNCHANGED <<phase, clients_, user_name, sent>>
    BY <1>2 DEF PeerLost
  <2> HIDE DEF F
  <2>5. Room!Hear(c)
    BY <2>1, <2>3, <2>4, HearStep
  <2> QED  BY <2>5 DEF Room!Next
<1>3. ASSUME NEW c \in Conns, WriteSucceeds(c) PROVE [Room!Next]_(Room!vars)
  <2> DEFINE F == FrontString(outbound_messages_[c])
  <2>1. UNCHANGED <<phase, clients_, user_name, sent>>
    BY <1>3 DEF WriteSucceeds
  <2>2. CASE link[c]
    <3>1. delivered' = [delivered EXCEPT ![c] = @ \o F]
      BY <1>3, <2>2 DEF WriteSucceeds
    <3>2. F \in Seq(Messages)
      BY FrontAndRest DEF IInv, TypeOK
    <3> HIDE DEF F
    <3>3. Room!Hear(c)
      BY <2>1, <3>1, <3>2, HearStep
    <3> QED  BY <3>3 DEF Room!Next
  <2>3. CASE ~link[c]
    BY <1>3, <2>1, <2>3 DEF WriteSucceeds, Room!vars, RoomStatus
  <2> QED  BY <2>2, <2>3
<1>4. ASSUME NEW c \in Conns, Accept(c) \/ OnReadError(c)
      PROVE  [Room!Next]_(Room!vars)
  BY <1>4, DoorStep
<1>5. ASSUME AcceptError PROVE [Room!Next]_(Room!vars)
  BY <1>5, DoorStep
<1>6. ASSUME UNCHANGED <<clients_, user_name, sent, delivered>>,
             \A c \in Conns : phase'[c] = "gone" <=> phase[c] = "gone"
      PROVE  [Room!Next]_(Room!vars)
  BY <1>6 DEF Room!vars, RoomStatus
<1>7. ASSUME NEW d \in Conns,
             \/ Connect(d) \/ FrameSizeArrives(d) \/ FrameDataArrives(d)
             \/ ReadFails(d) \/ WriteFails(d) \/ TimesOut(d)
             \/ OnFrameSize(d) \/ OnWriteOk(d) \/ OnWriteError(d)
      PROVE  [Room!Next]_(Room!vars)
  <2>1. UNCHANGED <<clients_, user_name, sent, delivered>>
    BY <1>7 DEF Connect, FrameSizeArrives, FrameDataArrives, ReadFails,
         WriteFails, TimesOut, OnFrameSize, OnWriteOk, OnWriteError
  <2>2. \A c \in Conns : phase'[c] = "gone" <=> phase[c] = "gone"
    BY <1>7 DEF Connect, FrameSizeArrives, FrameDataArrives, ReadFails,
         WriteFails, TimesOut, OnFrameSize, OnWriteOk, OnWriteError,
         IInv, TypeOK
  <2> QED  BY <1>6, <2>1, <2>2
<1>8. ASSUME UNCHANGED vars PROVE [Room!Next]_(Room!vars)
  BY <1>6, <1>8 DEF vars
<1> QED  BY <1>1, <1>2, <1>3, <1>4, <1>5, <1>7, <1>8
         DEF Next, Reactor, Handler, PeerDown, PeerVanishes

(* The server implements the room: whatever the reads, the handlers, the   *)
(* lists and the writes do in between, clients enter and leave once, names *)
(* are granted to one member at a time, posts are said to everybody else   *)
(* at once, and each client hears a prefix of what was said to it.         *)
THEOREM RoomImplemented == Spec => ImplementsRoom
<1>1. Init => Room!Init
  BY DEF Init, Room!Init, RoomStatus
<1> QED  BY InitIInv, NextIInv, InitRInv, NextRInv, StreamInit, StreamNext,
            RoomStep, <1>1, PTL
         DEF Spec, ImplementsRoom, Room!Spec
=============================================================================
