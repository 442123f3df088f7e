-------------------------- MODULE TalkServerProofs --------------------------
(***************************************************************************)
(* Proofs about TalkServer, for any connections, names, calls and bounds.  *)
(***************************************************************************)
EXTENDS TalkServerProps, WriteQueueProofs

-----------------------------------------------------------------------------
(* What a write() and what a call of a peer do.                            *)

(* write() appends the message, leaves a write under way, and does not     *)
(* touch one that was.                                                     *)
LEMMA WriteEffect ==
  ASSUME TypeOK, NEW c \in Conns, NEW m \in Messages,
         writing[c] = "idle" <=> ListSize(outbound_messages_[c]) = 0
  PROVE  /\ Write(c, m).queue \in Queues(Messages)
         /\ Write(c, m).queue.msgs = Append(outbound_messages_[c].msgs, m)
         /\ Write(c, m).queue.msgs # <<>>
         /\ Write(c, m).writing \in Outcomes
         /\ writing[c] = "idle" => Write(c, m).writing = Started(c)
         /\ writing[c] # "idle" =>
              Write(c, m) = [queue   |-> PushBack(outbound_messages_[c], m),
                             writing |-> writing[c]]
<1> DEFINE p == PushBack(outbound_messages_[c], m)
<1>1. outbound_messages_[c] \in Queues(Messages)
  BY DEF TypeOK
<1>2. writing[c] \in {"idle"} \cup Outcomes /\ Started(c) \in Outcomes
  BY DEF TypeOK, Started, Outcomes
<1>3. /\ p \in Queues(Messages)
      /\ p.msgs = Append(outbound_messages_[c].msgs, m)
      /\ p.msgs # <<>>
      /\ ListSize(p) = 1 <=> outbound_messages_[c].msgs = <<>>
  BY <1>1, PushBackProperties
<1>4. Consolidate(p) \in Queues(Messages) /\ Consolidate(p).msgs = p.msgs
  BY <1>3, ConsolidateProperties
<1>5. writing[c] = "idle" <=> outbound_messages_[c].msgs = <<>>
  BY <1>1, ListSizeProperties
<1> HIDE DEF p
<1>6. Write(c, m) = IF ListSize(p) = 1
                      THEN [queue |-> Consolidate(p), writing |-> Started(c)]
                      ELSE [queue |-> p, writing |-> writing[c]]
  BY DEF Write, AsyncWriteOne, p
<1>7. CASE writing[c] = "idle"
  BY <1>2, <1>3, <1>4, <1>5, <1>6, <1>7
<1>8. CASE writing[c] # "idle"
  BY <1>2, <1>3, <1>5, <1>6, <1>8 DEF p
<1> QED  BY <1>7, <1>8

(* Whatever a peer calls, the handler sends one message to some of the     *)
(* registered clients, and gives no name that a registered client has.     *)
LEMMA ProcessEffect ==
  ASSUME TypeOK, NEW c \in clients_, NEW r \in Calls, NEW ship \in Ships,
         Process(c, r, ship)
  PROVE  /\ \E R \in SUBSET clients_, m \in Messages : Send(R, m)
         /\ \/ user_name' = user_name
            \/ \E n \in Names \cup {NoName} :
                 /\ user_name' = [user_name EXCEPT ![c] = n]
                 /\ \A p \in clients_ : user_name[p] # n
<1>1. r \in TalkServerCalls
  BY CallsAssumption
<1>2. user_name[c] \in Names \cup {NoName} /\ clients_ \subseteq Conns
  BY DEF TypeOK
<1>3. \A a \in Replies : [reply |-> a] \in Messages
  BY DEF Messages
<1>4. CASE r.call = "getVersion"
  <2>1. getVersion(c)
    BY <1>4 DEF Process
  <2> QED  BY <1>3, <2>1 DEF getVersion, Replies
<1>5. CASE r.call = "subscribe"
  <2>1. subscribe(c)
    BY <1>5 DEF Process
  <2> QED  BY <1>3, <2>1 DEF subscribe, Replies
<1>6. CASE r.call = "unsubscribe"
  <2>1. unsubscribe(c)
    BY <1>6 DEF Process
  <2> QED  BY <1>3, <2>1 DEF unsubscribe, Replies
<1>7. CASE r.call = "postShip"
  <2>1. postShip(c, ship)
    BY <1>7 DEF Process
  <2> DEFINE m == [reply |-> "on_subscribeShip", name |-> user_name[c],
                   ship |-> ship]
  <2>2. m \in Messages
    BY <1>2 DEF Messages
  <2>3. Send(clients_ \ {c}, m) /\ user_name' = user_name
    BY <2>1 DEF postShip
  <2> HIDE DEF m
  <2> QED  BY <2>2, <2>3
<1>8. CASE r.call = "setUserName"
  <2>1. setUserName(c, r.name)
    BY <1>8 DEF Process
  <2>2. r.name \in Names \cup {NoName}
    BY <1>1, <1>8 DEF TalkServerCalls
  <2>3. CASE \E p \in clients_ : user_name[p] = r.name
    <3>1. \E p \in clients_ : Send({p}, [reply |-> "on_setUserName_failed"])
      BY <2>1, <2>3 DEF setUserName
    <3>2. user_name' = user_name
      BY <2>1, <2>3 DEF setUserName
    <3> QED  BY <1>3, <3>1, <3>2 DEF Replies
  <2>4. CASE \A p \in clients_ : user_name[p] # r.name
    <3>1. /\ user_name' = [user_name EXCEPT ![c] = r.name]
          /\ Send({c}, [reply |-> "on_setUserName_succeeded"])
      BY <2>1, <2>4 DEF setUserName
    <3> QED  BY <1>3, <2>2, <2>4, <3>1 DEF Replies
  <2> QED  BY <2>3, <2>4
<1> QED  BY <1>1, <1>4, <1>5, <1>6, <1>7, <1>8 DEF TalkServerCalls

-----------------------------------------------------------------------------
(* The inductive invariant.                                                *)

(* A connection that has not been accepted has no transport and no session *)
(* yet: what Accept starts from.                                           *)
NothingBeforeAccept ==
  \A c \in Conns : phase[c] \in {"idle", "backlog"} =>
    /\ ~socket_open[c] /\ writing[c] = "idle"
    /\ user_name[c] = NoName
    /\ sent[c] = <<>> /\ delivered[c] = <<>>

IInv == /\ TypeOK
        /\ ChainIffRegistered
        /\ UniqueNames
        /\ WriteMatchesQueue
        /\ NothingBeforeAccept

LEMMA InitIInv == Init => IInv
<1> SUFFICES ASSUME Init PROVE IInv
  OBVIOUS
<1> USE DEF Init
<1>1. EmptyQueue \in Queues(Messages) /\ ListSize(EmptyQueue) = 0
  BY EmptyQueueProperties
<1>2. TypeOK
  BY <1>1, BoundsAssumption, EmptySeq DEF TypeOK, Phases, Outcomes
<1>3. ChainIffRegistered /\ UniqueNames /\ NothingBeforeAccept
  BY DEF ChainIffRegistered, UniqueNames, NothingBeforeAccept
<1>4. WriteMatchesQueue
  BY <1>1 DEF WriteMatchesQueue
<1> QED  BY <1>2, <1>3, <1>4 DEF IInv

(* A call on some clients keeps the lists and the writes as they must be.  *)
LEMMA SendStep ==
  ASSUME TypeOK, WriteMatchesQueue, NEW R \in SUBSET Conns,
         NEW m \in Messages, Send(R, m), UNCHANGED socket_open
  PROVE  /\ outbound_messages_' \in [Conns -> Queues(Messages)]
         /\ writing' \in [Conns -> {"idle"} \cup Outcomes]
         /\ sent' \in [Conns -> Seq(Messages)]
         /\ WriteMatchesQueue'
         /\ \A c \in Conns \ R : writing'[c] = writing[c] /\ sent'[c] = sent[c]
<1>1. ASSUME NEW c \in Conns, c \in R
      PROVE  /\ outbound_messages_'[c] \in Queues(Messages)
             /\ outbound_messages_'[c].msgs # <<>>
             /\ writing'[c] \in Outcomes
             /\ ~socket_open[c] => writing'[c] = "err"
  <2>1. writing[c] = "idle" <=> ListSize(outbound_messages_[c]) = 0
    BY DEF WriteMatchesQueue
  <2>2. /\ outbound_messages_'[c] = Write(c, m).queue
        /\ writing'[c] = Write(c, m).writing
    BY <1>1 DEF Send
  <2>3. /\ Write(c, m).queue \in Queues(Messages)
        /\ Write(c, m).queue.msgs # <<>>
        /\ Write(c, m).writing \in Outcomes
        /\ writing[c] = "idle" => Write(c, m).writing = Started(c)
        /\ writing[c] # "idle" => Write(c, m).writing = writing[c]
    BY <2>1, WriteEffect
  <2>4. ~socket_open[c] => writing[c] \in {"idle", "err"} /\ Started(c) = "err"
    BY DEF WriteMatchesQueue, Started
  <2> QED  BY <2>2, <2>3, <2>4
<1>2. ASSUME NEW c \in Conns, c \notin R
      PROVE  /\ outbound_messages_'[c] = outbound_messages_[c]
             /\ writing'[c] = writing[c] /\ sent'[c] = sent[c]
  BY <1>2 DEF Send
<1>3. /\ outbound_messages_' \in [Conns -> Queues(Messages)]
      /\ writing' \in [Conns -> {"idle"} \cup Outcomes]
  <2>1. /\ outbound_messages_' = [c \in Conns |-> outbound_messages_'[c]]
        /\ writing' = [c \in Conns |-> writing'[c]]
    BY DEF Send
  <2>2. \A c \in Conns : /\ outbound_messages_'[c] \in Queues(Messages)
                         /\ writing'[c] \in {"idle"} \cup Outcomes
    BY <1>1, <1>2 DEF TypeOK
  <2> QED  BY <2>1, <2>2
<1>4. sent' \in [Conns -> Seq(Messages)]
  <2>1. \A c \in Conns : Append(sent[c], m) \in Seq(Messages)
    BY AppendProperties DEF TypeOK
  <2> QED  BY <2>1 DEF Send, TypeOK
<1>5. WriteMatchesQueue'
  <2>1. ASSUME NEW c \in Conns, c \in R
        PROVE  /\ writing'[c] # "idle"
               /\ ListSize(outbound_messages_'[c]) # 0
               /\ ~socket_open'[c] => writing'[c] \in {"idle", "err"}
    BY <1>1, <2>1, ListSizeProperties DEF Outcomes
  <2> QED  BY <1>2, <2>1 DEF WriteMatchesQueue
<1> QED  BY <1>2, <1>3, <1>4, <1>5

(* The steps that leave the lists and the writes alone.                    *)
LEMMA ReadStep ==
  ASSUME IInv, NEW c \in Conns,
         \/ Connect(c) \/ FrameSizeArrives(c) \/ FrameDataArrives(c)
         \/ ReadFails(c) \/ OnFrameSize(c) \/ OnReadError(c) \/ TimesOut(c)
  PROVE  IInv'
<1> USE DEF IInv, readVars, writeVars, mixinVars, logVars
<1>1. UNCHANGED <<writeVars, socket_open, user_name, logVars>>
  BY DEF Connect, FrameSizeArrives, FrameDataArrives, ReadFails, OnFrameSize,
         OnReadError, TimesOut
<1>2. clients_' \subseteq clients_
  BY DEF Connect, FrameSizeArrives, FrameDataArrives, ReadFails, OnFrameSize,
         OnReadError, TimesOut
<1>3. \A d \in Conns : /\ phase'[d] \in Phases
                       /\ phase'[d] \in {"size", "data"} <=> d \in clients_'
                       /\ phase'[d] \in {"idle", "backlog"} =>
                            phase[d] \in {"idle", "backlog"}
  BY DEF TypeOK, Phases, ChainIffRegistered, Connect, FrameSizeArrives,
         FrameDataArrives, ReadFails, OnFrameSize, OnReadError, TimesOut
<1>4. TypeOK'
  <2>1. CASE Connect(c)
    BY <2>1 DEF TypeOK, Connect, Phases
  <2>2. CASE FrameSizeArrives(c)
    BY <2>2, BoundsAssumption DEF TypeOK, FrameSizeArrives, Outcomes
  <2>3. CASE FrameDataArrives(c)
    BY <2>3 DEF TypeOK, FrameDataArrives, Outcomes
  <2>4. CASE ReadFails(c)
    BY <2>4 DEF TypeOK, ReadFails, Outcomes
  <2>5. CASE OnFrameSize(c)
    BY <2>5 DEF TypeOK, OnFrameSize, Started, Phases, Outcomes
  <2>6. CASE OnReadError(c)
    BY <2>6 DEF TypeOK, OnReadError, Phases
  <2>7. CASE TimesOut(c)
    BY <2>7 DEF TypeOK, TimesOut
  <2> QED  BY <2>1, <2>2, <2>3, <2>4, <2>5, <2>6, <2>7
<1>5. ChainIffRegistered'
  BY <1>3 DEF ChainIffRegistered
<1>6. UniqueNames'
  BY <1>1, <1>2 DEF UniqueNames
<1>7. WriteMatchesQueue'
  BY <1>1 DEF WriteMatchesQueue
<1>8. NothingBeforeAccept'
  BY <1>1, <1>3 DEF NothingBeforeAccept
<1> QED  BY <1>4, <1>5, <1>6, <1>7, <1>8

(* The steps of a write.  A write under way belongs to a connection that   *)
(* has been accepted.                                                      *)
LEMMA WriteStep ==
  ASSUME IInv, NEW c \in Conns,
         \/ PeerDown(c) \/ PeerVanishes(c)
         \/ WriteSucceeds(c) \/ WriteFails(c)
         \/ OnWriteOk(c) \/ OnWriteError(c)
  PROVE  IInv'
<1> USE DEF IInv, readVars, writeVars, mixinVars, logVars
<1>1. UNCHANGED <<phase, clients_, user_name, sent>>
  BY DEF PeerLost, PeerDown, PeerVanishes, WriteSucceeds, WriteFails,
         OnWriteOk, OnWriteError
<1>2. ChainIffRegistered' /\ UniqueNames'
  BY <1>1 DEF ChainIffRegistered, UniqueNames
<1> DEFINE q == outbound_messages_[c]
<1>3. /\ q \in Queues(Messages)
      /\ FrontString(q) \in Seq(Messages)
      /\ PopFront(q) \in Queues(Messages)
  BY FrontAndRest, PopFrontProperties DEF TypeOK
<1>4. CASE PeerDown(c) \/ PeerVanishes(c)
  <2>0. PeerLost(c) /\ silent' \in SUBSET Conns
    BY <1>4 DEF PeerDown, PeerVanishes, TypeOK
  <2>1. PICK k \in 0 .. Len(FrontString(q)) :
          /\ k > 0 => writing[c] = "pending"
          /\ delivered' = [delivered EXCEPT ![c] =
                             @ \o SubSeq(FrontString(q), 1, k)]
    BY <2>0 DEF PeerLost
  <2>2. SubSeq(FrontString(q), 1, k) \in Seq(Messages)
    <3>1. \A i \in 1 .. k : FrontString(q)[i] \in Messages
      BY <1>3, ElementOfSeq, LenProperties
    <3> QED  BY <3>1, SubSeqProperties
  <2>3. delivered[c] \o SubSeq(FrontString(q), 1, k) \in Seq(Messages)
    BY <2>2, ConcatProperties DEF TypeOK
  <2>4. TypeOK'
    BY <2>0, <2>1, <2>3 DEF TypeOK, PeerLost
  <2>5. WriteMatchesQueue'
    BY <2>0 DEF WriteMatchesQueue, PeerLost
  <2>6. k = 0 => delivered[c] \o SubSeq(FrontString(q), 1, k) = delivered[c]
    BY SubSeqEmpty, ConcatEmptySeq DEF TypeOK
  <2>7. NothingBeforeAccept'
    BY <2>0, <2>1, <2>6 DEF NothingBeforeAccept, PeerLost, TypeOK
  <2> QED  BY <1>2, <2>4, <2>5, <2>7
<1>5. CASE WriteSucceeds(c)
  <2>1. delivered[c] \o FrontString(q) \in Seq(Messages)
    BY <1>3, ConcatProperties DEF TypeOK
  <2>2. TypeOK'
    BY <1>5, <2>1 DEF TypeOK, WriteSucceeds, Outcomes
  <2>3. WriteMatchesQueue'
    BY <1>5 DEF WriteMatchesQueue, WriteSucceeds, TypeOK
  <2>4. NothingBeforeAccept'
    BY <1>5 DEF NothingBeforeAccept, WriteSucceeds, TypeOK
  <2> QED  BY <1>2, <2>2, <2>3, <2>4
<1>6. CASE WriteFails(c)
  <2>1. TypeOK'
    BY <1>6 DEF TypeOK, WriteFails, Outcomes
  <2>2. WriteMatchesQueue'
    BY <1>6 DEF WriteMatchesQueue, WriteFails, TypeOK
  <2>3. NothingBeforeAccept'
    BY <1>6 DEF NothingBeforeAccept, WriteFails, TypeOK
  <2> QED  BY <1>2, <2>1, <2>2, <2>3
<1>7. CASE OnWriteOk(c)
  <2> DEFINE p == PopFront(q)
             w == IF ListSize(p) > 0
                    THEN [queue |-> Consolidate(p), writing |-> Started(c)]
                    ELSE [queue |-> p, writing |-> "idle"]
  <2>1. /\ outbound_messages_' = [outbound_messages_ EXCEPT ![c] = w.queue]
        /\ writing' = [writing EXCEPT ![c] = w.writing]
    BY <1>7 DEF OnWriteOk, AsyncWriteOne
  <2>2. /\ p \in Queues(Messages) /\ Consolidate(p) \in Queues(Messages)
        /\ ListSize(p) \in Nat
        /\ ListSize(Consolidate(p)) = 0 <=> ListSize(p) = 0
    BY <1>3, ConsolidateProperties, ListSizeProperties
  <2>3. socket_open[c] /\ phase[c] \notin {"idle", "backlog"}
    BY <1>7 DEF OnWriteOk, WriteMatchesQueue, NothingBeforeAccept
  <2>4. Started(c) \in Outcomes
    BY DEF Started, Outcomes
  <2> HIDE DEF p
  <2>5. TypeOK'
    BY <1>7, <2>1, <2>2, <2>4 DEF TypeOK, OnWriteOk
  <2>6. WriteMatchesQueue'
    BY <1>7, <2>1, <2>2, <2>3, <2>4
       DEF WriteMatchesQueue, OnWriteOk, TypeOK, Outcomes
  <2>7. NothingBeforeAccept'
    BY <1>7, <2>1, <2>3 DEF NothingBeforeAccept, OnWriteOk, TypeOK
  <2> QED  BY <1>2, <2>5, <2>6, <2>7
<1>8. CASE OnWriteError(c)
  <2>1. EmptyQueue \in Queues(Messages) /\ ListSize(EmptyQueue) = 0
    BY EmptyQueueProperties
  <2>2. TypeOK'
    BY <1>8, <2>1 DEF TypeOK, OnWriteError, Outcomes
  <2>3. WriteMatchesQueue'
    BY <1>8, <2>1 DEF WriteMatchesQueue, OnWriteError, TypeOK
  <2>4. NothingBeforeAccept'
    BY <1>8 DEF NothingBeforeAccept, OnWriteError, TypeOK
  <2> QED  BY <1>2, <2>2, <2>3, <2>4
<1> QED  BY <1>4, <1>5, <1>6, <1>7, <1>8

(* Accepting: the new session has the empty name.                          *)
LEMMA AcceptStep ==
  ASSUME IInv, (\E c \in Conns : Accept(c)) \/ AcceptError
  PROVE  IInv'
<1> USE DEF IInv, readVars, writeVars, mixinVars, logVars
<1>1. ASSUME NEW c \in Conns, Accept(c) PROVE IInv'
  <2> USE <1>1 DEF Accept
  <2>1. TypeOK'
    BY DEF TypeOK, Phases
  <2>2. ChainIffRegistered'
    BY DEF ChainIffRegistered, TypeOK
  <2>3. user_name[c] = NoName /\ writing[c] = "idle"
    BY DEF NothingBeforeAccept
  <2>4. UniqueNames'
    BY <2>3 DEF UniqueNames
  <2>5. WriteMatchesQueue'
    BY <2>3 DEF WriteMatchesQueue, TypeOK
  <2>6. NothingBeforeAccept'
    BY DEF NothingBeforeAccept, TypeOK
  <2> QED  BY <2>1, <2>2, <2>4, <2>5, <2>6
<1>2. ASSUME AcceptError PROVE IInv'
  <2> USE <1>2 DEF AcceptError
  <2>1. TypeOK'
    BY DEF TypeOK, Phases
  <2>2. ChainIffRegistered'
    BY DEF ChainIffRegistered, TypeOK
  <2>3. UniqueNames' /\ WriteMatchesQueue' /\ NothingBeforeAccept'
    BY DEF UniqueNames, WriteMatchesQueue, NothingBeforeAccept, TypeOK
  <2> QED  BY <2>1, <2>2, <2>3
<1> QED  BY <1>1, <1>2

(* Processing a frame: by ChainIffRegistered the client is in the map, so  *)
(* a name that no registered client has is one its caller may take.        *)
LEMMA ProcessStep ==
  ASSUME IInv, NEW c \in Conns, OnFrameData(c)
  PROVE  IInv'
<1> USE DEF IInv
<1>1. PICK r \in Calls :
        /\ Process(BeforeProcess(c), r,
                   [from |-> c, no |-> Len(requests[c]) + 1])
        /\ requests' = [requests EXCEPT ![c] = Append(@, r)]
  BY DEF OnFrameData
<1>2. c \in clients_ /\ clients_ \subseteq Conns
  BY DEF OnFrameData, ChainIffRegistered, TypeOK
<1>3. [from |-> c, no |-> Len(requests[c]) + 1] \in Ships
  BY LenProperties DEF Ships, TypeOK
<1>4. /\ \E R \in SUBSET clients_, m \in Messages : Send(R, m)
      /\ \/ user_name' = user_name
         \/ \E n \in Names \cup {NoName} :
              /\ user_name' = [user_name EXCEPT ![c] = n]
              /\ \A p \in clients_ : user_name[p] # n
  BY <1>1, <1>2, <1>3, ProcessEffect DEF BeforeProcess
<1>5. PICK R \in SUBSET clients_, m \in Messages : Send(R, m)
  BY <1>4
<1>6. UNCHANGED <<socket_open, acceptor, clients_, link, silent, frames,
                  delivered>>
  BY DEF OnFrameData
<1>7. /\ outbound_messages_' \in [Conns -> Queues(Messages)]
      /\ writing' \in [Conns -> {"idle"} \cup Outcomes]
      /\ sent' \in [Conns -> Seq(Messages)]
      /\ WriteMatchesQueue'
      /\ \A d \in Conns \ R : writing'[d] = writing[d] /\ sent'[d] = sent[d]
  BY <1>2, <1>5, <1>6, SendStep
<1>8. /\ phase' = [phase EXCEPT ![c] = "size"]
      /\ reading' = [reading EXCEPT ![c] = Started(c)]
      /\ current_client_' = NoClient
  BY DEF OnFrameData
<1>9. TypeOK'
  <2>1. Append(requests[c], r) \in Seq(Calls)
    BY AppendProperties DEF TypeOK
  <2>2. user_name' \in [Conns -> Names \cup {NoName}]
    BY <1>4 DEF TypeOK
  <2>3. phase' \in [Conns -> Phases] /\ reading' \in [Conns -> Outcomes]
    BY <1>8 DEF TypeOK, Phases, Outcomes, Started
  <2> QED  BY <1>1, <1>6, <1>7, <1>8, <2>1, <2>2, <2>3 DEF TypeOK
<1>10. ChainIffRegistered'
  BY <1>2, <1>6, <1>8 DEF ChainIffRegistered, TypeOK
<1>11. UniqueNames'
  <2>1. CASE user_name' = user_name
    BY <1>2, <1>6, <2>1 DEF UniqueNames
  <2>2. ASSUME NEW n \in Names \cup {NoName},
               user_name' = [user_name EXCEPT ![c] = n],
               \A p \in clients_ : user_name[p] # n
        PROVE  UniqueNames'
    <3>1. \A d \in Conns : user_name'[d] = IF d = c THEN n ELSE user_name[d]
      BY <2>2 DEF TypeOK
    <3> QED  BY <1>2, <1>6, <2>2, <3>1 DEF UniqueNames, TypeOK
  <2> QED  BY <1>4, <2>1, <2>2
<1>12. NothingBeforeAccept'
  <2>1. ASSUME NEW d \in Conns, phase'[d] \in {"idle", "backlog"}
        PROVE  /\ d # c /\ d \notin R
               /\ phase[d] \in {"idle", "backlog"}
               /\ user_name'[d] = user_name[d]
    <3>1. d # c /\ phase[d] = phase'[d]
      BY <1>8, <2>1 DEF TypeOK
    <3>2. d \notin clients_
      BY <2>1, <3>1 DEF ChainIffRegistered
    <3> QED  BY <1>2, <1>4, <1>5, <2>1, <3>1, <3>2 DEF TypeOK
  <2> QED  BY <1>6, <1>7, <2>1 DEF NothingBeforeAccept
<1> QED  BY <1>7, <1>9, <1>10, <1>11, <1>12

LEMMA NextIInv == IInv /\ [Next]_vars => IInv'
<1> SUFFICES ASSUME IInv, [Next]_vars PROVE IInv'
  OBVIOUS
<1>1. CASE \E c \in Conns : \/ Connect(c) \/ PeerDown(c) \/ PeerVanishes(c)
                            \/ FrameSizeArrives(c)
                            \/ Reactor(c) \/ Handler(c)
  BY <1>1, ReadStep, WriteStep, AcceptStep, ProcessStep DEF Reactor, Handler
<1>2. CASE AcceptError
  BY <1>2, AcceptStep
<1>3. CASE UNCHANGED vars
  BY <1>3 DEF vars, IInv, TypeOK, ChainIffRegistered, UniqueNames,
              WriteMatchesQueue, NothingBeforeAccept
<1> QED  BY <1>1, <1>2, <1>3 DEF Next

(* The state stays within its types; a list is always either empty or      *)
(* starts with a string of at least one message.                           *)
THEOREM TypeCorrect == Spec => []TypeOK
<1>1. IInv => TypeOK
  BY DEF IInv
<1> QED  BY InitIInv, NextIInv, <1>1, PTL DEF Spec

(* The mixin's assertions never fail: a connection is in the map exactly   *)
(* while its chain of reads runs.                                          *)
THEOREM ChainCorrect == Spec => []ChainIffRegistered
<1>1. IInv => ChainIffRegistered
  BY DEF IInv
<1> QED  BY InitIInv, NextIInv, <1>1, PTL DEF Spec

(* setUserName keeps the names of registered sessions apart, whoever       *)
(* connects, renames and disconnects in between.                           *)
THEOREM NamesCorrect == Spec => []UniqueNames
<1>1. IInv => UniqueNames
  BY DEF IInv
<1> QED  BY InitIInv, NextIInv, <1>1, PTL DEF Spec

(* At most one async_write is under way for a transport, and none is       *)
(* missing: the size of the list is the right test in write().             *)
THEOREM WritesCorrect == Spec => []WriteMatchesQueue
<1>1. IInv => WriteMatchesQueue
  BY DEF IInv
<1> QED  BY InitIInv, NextIInv, <1>1, PTL DEF Spec

-----------------------------------------------------------------------------
(* The stream of messages to one peer.                                     *)

(* A prefix, element by element.                                           *)
LEMMA PrefixElements ==
  ASSUME NEW S, NEW s \in Seq(S), NEW t \in Seq(S)
  PROVE  IsPrefix(s, t) <=> /\ Len(s) <= Len(t)
                            /\ \A i \in 1 .. Len(s) : s[i] = t[i]
<1>1. /\ Len(s) \in Nat /\ Len(t) \in Nat
      /\ \A i \in 1 .. Len(s) : s[i] \in S
      /\ \A i \in 1 .. Len(t) : t[i] \in S
  BY LenProperties, ElementOfSeq
<1>2. SubSeq(s, 1, Len(s)) = s
  BY SubSeqFull
<1>3. SUFFICES ASSUME Len(s) <= Len(t)
               PROVE  s = SubSeq(t, 1, Len(s)) <=>
                        \A i \in 1 .. Len(s) : s[i] = t[i]
  BY <1>2 DEF IsPrefix
<1> DEFINE u == SubSeq(t, 1, Len(s))
<1>4. u \in Seq(S) /\ Len(u) = Len(s)
  BY <1>1, <1>3, SubSeqProperties
<1>5. \A i \in 1 .. Len(s) : u[i] = t[i]
  BY <1>1, <1>3, SubSeqProperties
<1> HIDE DEF u
<1>6. (\A i \in 1 .. Len(s) : s[i] = u[i]) => s = u
  BY <1>4, SeqEqual
<1> QED  BY <1>5, <1>6 DEF u

(* A prefix stays one when more is sent, ...                               *)
LEMMA PrefixAppend ==
  ASSUME NEW S, NEW s \in Seq(S), NEW t \in Seq(S), NEW e \in S,
         IsPrefix(s, t)
  PROVE  IsPrefix(s, Append(t, e))
<1>1. Len(s) \in Nat /\ Len(t) \in Nat
  BY LenProperties
<1>2. /\ Append(t, e) \in Seq(S) /\ Len(Append(t, e)) = Len(t) + 1
      /\ \A i \in 1 .. Len(t) : Append(t, e)[i] = t[i]
  BY AppendProperties
<1>3. Len(s) <= Len(t) /\ \A i \in 1 .. Len(s) : s[i] = t[i]
  BY PrefixElements
<1> DEFINE u == Append(t, e)
<1>4. /\ u \in Seq(S) /\ Len(s) <= Len(u)
      /\ \A i \in 1 .. Len(s) : s[i] = u[i]
  BY <1>1, <1>2, <1>3
<1> HIDE DEF u
<1>5. IsPrefix(s, u)
  BY <1>4, PrefixElements
<1> QED  BY <1>5 DEF u

(* ... and any beginning of what is still to come extends it.              *)
LEMMA PrefixConcat ==
  ASSUME NEW S, NEW s \in Seq(S), NEW t \in Seq(S)
  PROVE  IsPrefix(s, s \o t)
<1>1. Len(s) \in Nat /\ Len(t) \in Nat
  BY LenProperties
<1>2. /\ s \o t \in Seq(S) /\ Len(s \o t) = Len(s) + Len(t)
      /\ \A i \in 1 .. Len(s) : (s \o t)[i] = s[i]
  BY <1>1, ConcatProperties
<1> DEFINE u == s \o t
<1>3. /\ u \in Seq(S) /\ Len(s) <= Len(u)
      /\ \A i \in 1 .. Len(s) : s[i] = u[i]
  BY <1>1, <1>2
<1> HIDE DEF u
<1>4. IsPrefix(s, u)
  BY <1>3, PrefixElements
<1> QED  BY <1>4 DEF u

(* A sequence is any beginning of it followed by what is left.             *)
LEMMA SplitAt ==
  ASSUME NEW S, NEW s \in Seq(S), NEW k \in 0 .. Len(s)
  PROVE  /\ SubSeq(s, 1, k) \in Seq(S)
         /\ \E t \in Seq(S) : SubSeq(s, 1, k) \o t = s
<1>1. Len(s) \in Nat /\ \A i \in 1 .. Len(s) : s[i] \in S
  BY LenProperties, ElementOfSeq
<1>2. SubSeq(s, 1, k) \in Seq(S) /\ SubSeq(s, k + 1, Len(s)) \in Seq(S)
  <2>1. \A i \in 1 .. k : s[i] \in S
    BY <1>1
  <2>2. \A i \in k + 1 .. Len(s) : s[i] \in S
    BY <1>1
  <2>3. SubSeq(s, 1, k) \in Seq(S)
    BY <2>1, SubSeqProperties
  <2>4. SubSeq(s, k + 1, Len(s)) \in Seq(S)
    BY <1>1, <2>2, SubSeqProperties
  <2> QED  BY <2>3, <2>4
<1>3. SubSeq(s, 1, k) \o SubSeq(s, k + 1, Len(s)) = SubSeq(s, 1, Len(s))
  <2>1. 1 \in 1 .. Len(s) + 1 /\ k \in 1 - 1 .. Len(s) /\ Len(s) \in k .. Len(s)
    BY <1>1
  <2> QED  BY <2>1, ConcatAdjacentSubSeq
<1> QED  BY <1>2, <1>3, SubSeqFull

(* Inductive for one connection, given the invariant.                      *)
Stream(c) ==
  /\ IsPrefix(delivered[c], sent[c])
  /\ link[c] => delivered[c] \o Unsent(c) = sent[c]

LEMMA UnsentType ==
  ASSUME TypeOK, NEW c \in Conns
  PROVE  Unsent(c) \in Seq(Messages)
<1>1. outbound_messages_[c] \in Queues(Messages)
  BY DEF TypeOK
<1>2. outbound_messages_[c].msgs \in Seq(Messages)
  BY <1>1 DEF Queues
<1> QED  BY <1>1, <1>2, FrontAndRest DEF Unsent

LEMMA StreamWriteStep ==
  ASSUME IInv, NEW c \in Conns, Stream(c),
         \/ PeerLost(c) \/ WriteSucceeds(c) \/ WriteFails(c)
         \/ OnWriteOk(c) \/ OnWriteError(c)
  PROVE  Stream(c)'
<1> DEFINE q == outbound_messages_[c]
           F == FrontString(q)
           d == delivered[c]
<1>1. /\ q \in Queues(Messages) /\ F \in Seq(Messages)
      /\ Rest(q) \in Seq(Messages) /\ F \o Rest(q) = q.msgs
  BY FrontAndRest DEF IInv, TypeOK
<1>2. /\ d \in Seq(Messages) /\ sent[c] \in Seq(Messages)
      /\ delivered \in [Conns -> Seq(Messages)]
      /\ writing \in [Conns -> {"idle"} \cup Outcomes]
      /\ outbound_messages_ \in [Conns -> Queues(Messages)]
      /\ link \in [Conns -> BOOLEAN]
  BY DEF IInv, TypeOK
<1> USE DEF readVars, writeVars, mixinVars, logVars
<1>3. CASE PeerLost(c)
  <2>1. PICK k \in 0 .. Len(F) :
          /\ k > 0 => writing[c] = "pending"
          /\ delivered' = [delivered EXCEPT ![c] = @ \o SubSeq(F, 1, k)]
    BY <1>3 DEF PeerLost
  <2>2. link[c] /\ ~link'[c] /\ sent' = sent
    BY <1>2, <1>3 DEF PeerLost
  <2>3. CASE k = 0
    <3>1. SubSeq(F, 1, k) = <<>>
      BY <2>3, SubSeqEmpty
    <3>2. delivered'[c] = d
      BY <1>2, <2>1, <3>1, ConcatEmptySeq
    <3> QED  BY <2>2, <3>2 DEF Stream
  <2>4. CASE k > 0
    <3>1. sent[c] = d \o (F \o Rest(q))
      BY <1>1, <2>1, <2>2, <2>4 DEF Stream, Unsent
    <3>2. SubSeq(F, 1, k) \in Seq(Messages)
      BY <1>1, SplitAt
    <3>3. PICK t \in Seq(Messages) : SubSeq(F, 1, k) \o t = F
      BY <1>1, SplitAt
    <3> DEFINE h == SubSeq(F, 1, k)
               r == Rest(q)
    <3>4. delivered'[c] = d \o h
      BY <1>2, <2>1
    <3> HIDE DEF h, d, F, q, r
    <3>5. /\ h \in Seq(Messages) /\ r \in Seq(Messages)
          /\ d \in Seq(Messages)
          /\ t \o r \in Seq(Messages) /\ d \o h \in Seq(Messages)
      BY <1>1, <1>2, <3>2, <3>3, ConcatProperties DEF h, r
    <3>6. (h \o t) \o r = h \o (t \o r)
      BY SMTT(30), <3>5, ConcatAssociative
    <3>7. (d \o h) \o (t \o r) = d \o (h \o (t \o r))
      <4> DEFINE u == t \o r
      <4>1. d \in Seq(Messages) /\ h \in Seq(Messages) /\ u \in Seq(Messages)
        BY <3>5
      <4> HIDE DEF u
      <4>2. (d \o h) \o u = d \o (h \o u)
        BY SMTT(30), <4>1, ConcatAssociative
      <4> QED  BY <4>2 DEF u
    <3>8. sent[c] = d \o ((h \o t) \o r)
      BY <3>1, <3>3 DEF h, r
    <3>9. sent[c] = (d \o h) \o (t \o r)
      BY <3>6, <3>7, <3>8
    <3>10. IsPrefix(d \o h, sent[c])
      BY <3>5, <3>9, PrefixConcat
    <3> QED  BY <2>2, <3>4, <3>10 DEF Stream
  <2> QED  BY <2>3, <2>4
<1>4. CASE WriteSucceeds(c)
  <2>1. /\ writing[c] = "pending" /\ writing'[c] = "ok"
        /\ UNCHANGED <<link, sent, outbound_messages_>>
    BY <1>2, <1>4 DEF WriteSucceeds
  <2>2. CASE ~link[c]
    BY <1>4, <2>1, <2>2 DEF WriteSucceeds, Stream
  <2>3. CASE link[c]
    <3>1. delivered'[c] = d \o F
      BY <1>2, <1>4, <2>3 DEF WriteSucceeds
    <3>2. sent[c] = d \o q.msgs
      BY <2>1, <2>3 DEF Stream, Unsent
    <3>3. Unsent(c)' = Rest(q)
      BY <2>1 DEF Unsent
    <3> DEFINE r == Rest(q)
    <3> HIDE DEF q, F, d, r
    <3>4. /\ d \in Seq(Messages) /\ F \in Seq(Messages)
          /\ r \in Seq(Messages) /\ d \o F \in Seq(Messages)
      BY <1>1, <1>2, ConcatProperties DEF r
    <3>5. (d \o F) \o r = d \o (F \o r)
      BY <3>4, ConcatAssociative, SMTT(30)
    <3>6. (d \o F) \o r = sent[c]
      BY <1>1, <3>2, <3>5 DEF r
    <3>7. IsPrefix(d \o F, sent[c])
      BY <3>4, <3>6, PrefixConcat
    <3> QED  BY <2>1, <3>1, <3>3, <3>6, <3>7 DEF Stream, r
  <2> QED  BY <2>2, <2>3
<1>5. CASE WriteFails(c)
  BY <1>5 DEF WriteFails, Stream
<1>6. CASE OnWriteOk(c)
  <2> DEFINE p == PopFront(q)
  <2>1. p \in Queues(Messages) /\ p.msgs = Rest(q) /\ Consolidate(p).msgs = p.msgs
    BY <1>1, PopFrontProperties, ConsolidateProperties
  <2>2. /\ writing[c] = "ok" /\ socket_open[c]
        /\ UNCHANGED <<link, sent, delivered>>
    BY <1>6 DEF OnWriteOk, IInv, WriteMatchesQueue
  <2>3. /\ outbound_messages_'[c].msgs = Rest(q)
        /\ writing'[c] # "ok"
    BY <1>2, <1>6, <2>1 DEF OnWriteOk, AsyncWriteOne, Started
  <2>4. Unsent(c)' = Unsent(c)
    BY <2>2, <2>3 DEF Unsent
  <2> QED  BY <2>2, <2>4 DEF Stream
<1>7. CASE OnWriteError(c)
  <2>1. ~link'[c] /\ UNCHANGED <<sent, delivered>>
    BY <1>2, <1>7 DEF OnWriteError
  <2> QED  BY <2>1 DEF Stream
<1> QED  BY <1>3, <1>4, <1>5, <1>6, <1>7

LEMMA StreamSendStep ==
  ASSUME IInv, NEW c \in Conns, Stream(c), NEW R \in SUBSET Conns,
         NEW m \in Messages, Send(R, m), UNCHANGED <<link, delivered>>
  PROVE  Stream(c)'
<1> DEFINE q == outbound_messages_[c]
<1>1. /\ q \in Queues(Messages) /\ q.msgs \in Seq(Messages)
      /\ delivered[c] \in Seq(Messages) /\ sent[c] \in Seq(Messages)
  BY DEF IInv, TypeOK, Queues
<1>2. CASE c \notin R
  BY <1>2 DEF Send, Stream, Unsent
<1>3. CASE c \in R
  <2>1. /\ outbound_messages_'[c] = Write(c, m).queue
        /\ writing'[c] = Write(c, m).writing
        /\ sent'[c] = Append(sent[c], m)
    BY <1>3 DEF Send
  <2>2. writing[c] = "idle" <=> ListSize(q) = 0
    BY DEF IInv, WriteMatchesQueue
  <2>3. /\ Write(c, m).queue.msgs = Append(q.msgs, m)
        /\ writing[c] = "idle" => Write(c, m).writing = Started(c)
        /\ writing[c] # "idle" => Write(c, m) = [queue   |-> PushBack(q, m),
                                                 writing |-> writing[c]]
    BY <2>2, WriteEffect DEF IInv
  <2>4. Unsent(c)' = Append(Unsent(c), m)
    <3>1. CASE writing[c] = "ok"
      <4>1. q.msgs # <<>>
        BY <1>1, <2>2, <3>1, ListSizeProperties
      <4>2. Rest(PushBack(q, m)) = Append(Rest(q), m)
        BY <1>1, <4>1, RestOfPushBack
      <4> QED  BY <2>1, <2>3, <3>1, <4>2 DEF Unsent
    <3>2. CASE writing[c] # "ok"
      BY <2>1, <2>3, <3>2 DEF Unsent, Started
    <3> QED  BY <3>1, <3>2
  <2>5. IsPrefix(delivered[c], Append(sent[c], m))
    BY <1>1, PrefixAppend DEF Stream
  <2>6. delivered[c] \o Append(Unsent(c), m) =
          Append(delivered[c] \o Unsent(c), m)
    <3> DEFINE d == delivered[c]
               u == Unsent(c)
    <3>1. d \in Seq(Messages) /\ u \in Seq(Messages) /\ <<m>> \in Seq(Messages)
      BY <1>1, UnsentType DEF IInv
    <3> HIDE DEF d, u
    <3>2. d \o u \in Seq(Messages)
      BY <3>1, ConcatProperties
    <3>3. /\ Append(u, m) = u \o <<m>>
          /\ Append(d \o u, m) = (d \o u) \o <<m>>
      BY <3>1, <3>2, AppendIsConcat
    <3>4. (d \o u) \o <<m>> = d \o (u \o <<m>>)
      BY <3>1, ConcatAssociative
    <3> QED  BY <3>3, <3>4 DEF d, u
  <2> QED  BY <2>1, <2>4, <2>5, <2>6 DEF Stream
<1> QED  BY <1>2, <1>3

LEMMA StreamInit == Init => StreamIntegrity
<1> SUFFICES ASSUME Init, NEW c \in Conns PROVE Stream(c)
  BY DEF StreamIntegrity, Stream
<1>1. /\ delivered[c] = <<>> /\ sent[c] = <<>> /\ ~link[c]
  BY DEF Init
<1>2. <<>> \in Seq(Messages) /\ <<>> \o <<>> = <<>>
  BY EmptySeq, ConcatEmptySeq
<1>3. IsPrefix(<<>>, <<>> \o <<>>)
  BY <1>2, PrefixConcat
<1> QED  BY <1>1, <1>2, <1>3 DEF Stream

(* The link of a new connection comes up with nothing sent.                *)
LEMMA StreamNext == IInv /\ StreamIntegrity /\ [Next]_vars => StreamIntegrity'
<1> SUFFICES ASSUME IInv, StreamIntegrity, [Next]_vars, NEW c \in Conns
             PROVE  Stream(c)'
  BY DEF StreamIntegrity, Stream
<1>1. Stream(c)
  BY DEF StreamIntegrity, Stream
<1> USE DEF readVars, writeVars, mixinVars, logVars
<1>2. CASE UNCHANGED <<writeVars, sent, delivered>> /\ (link'[c] => link[c])
  BY <1>1, <1>2 DEF Stream, Unsent
<1>3. ASSUME NEW d \in Conns,
             \/ PeerLost(d) \/ WriteSucceeds(d) \/ WriteFails(d)
             \/ OnWriteOk(d) \/ OnWriteError(d)
      PROVE  Stream(c)'
  <2>1. CASE d = c
    BY <1>1, <1>3, <2>1, StreamWriteStep
  <2>2. CASE d # c
    <3>1. /\ outbound_messages_'[c] = outbound_messages_[c]
          /\ writing'[c] = writing[c] /\ delivered'[c] = delivered[c]
          /\ sent' = sent /\ link'[c] = link[c]
      BY <1>3, <2>2 DEF PeerLost, WriteSucceeds, WriteFails, OnWriteOk,
                        OnWriteError, IInv, TypeOK
    <3> QED  BY <1>1, <3>1 DEF Stream, Unsent
  <2> QED  BY <2>1, <2>2
<1>4. ASSUME NEW d \in Conns, OnFrameData(d) PROVE Stream(c)'
  <2>1. PICK r \in Calls :
          Process(d, r, [from |-> d, no |-> Len(requests[d]) + 1])
    BY <1>4 DEF OnFrameData, BeforeProcess
  <2>2. d \in clients_ /\ clients_ \subseteq Conns
    BY <1>4 DEF OnFrameData, IInv, ChainIffRegistered, TypeOK
  <2>3. [from |-> d, no |-> Len(requests[d]) + 1] \in Ships
    BY LenProperties DEF Ships, IInv, TypeOK
  <2>4. PICK R \in SUBSET clients_, m \in Messages : Send(R, m)
    BY <2>1, <2>2, <2>3, ProcessEffect DEF IInv
  <2>5. UNCHANGED <<link, delivered>>
    BY <1>4 DEF OnFrameData
  <2> QED  BY <1>1, <2>2, <2>4, <2>5, StreamSendStep
<1>5. ASSUME NEW d \in Conns, Connect(d) PROVE Stream(c)'
  <2>1. UNCHANGED <<writeVars, sent, delivered>>
    BY <1>5 DEF Connect
  <2>2. CASE d # c
    BY <1>2, <1>5, <2>1, <2>2 DEF Connect, IInv, TypeOK
  <2>3. CASE d = c
    <3>1. /\ writing[c] = "idle" /\ sent[c] = <<>> /\ delivered[c] = <<>>
      BY <1>5, <2>3 DEF Connect, IInv, NothingBeforeAccept
    <3>2. outbound_messages_[c].msgs = <<>>
      BY <3>1, ListSizeProperties DEF IInv, TypeOK, WriteMatchesQueue
    <3>3. <<>> \in Seq(Messages) /\ <<>> \o <<>> = <<>>
      BY EmptySeq, ConcatEmptySeq
    <3> QED  BY <1>1, <2>1, <3>1, <3>2, <3>3 DEF Stream, Unsent
  <2> QED  BY <2>2, <2>3
<1>6. ASSUME NEW d \in Conns,
             \/ FrameSizeArrives(d) \/ FrameDataArrives(d) \/ ReadFails(d)
             \/ Accept(d) \/ OnFrameSize(d) \/ OnReadError(d) \/ TimesOut(d)
      PROVE  Stream(c)'
  <2>1. UNCHANGED <<writeVars, sent, delivered, link>>
    BY <1>6 DEF FrameSizeArrives, FrameDataArrives, ReadFails, Accept,
                OnFrameSize, OnReadError, TimesOut
  <2> QED  BY <1>2, <2>1
<1>7. ASSUME AcceptError PROVE Stream(c)'
  BY <1>2, <1>7 DEF AcceptError
<1>8. ASSUME UNCHANGED vars PROVE Stream(c)'
  BY <1>2, <1>8 DEF vars
<1> QED  BY <1>3, <1>4, <1>5, <1>6, <1>7, <1>8
         DEF Next, Reactor, Handler, PeerDown, PeerVanishes

(* No message to a peer is lost, repeated or reordered while the peer is   *)
(* there, and every peer has received a prefix of what it was sent.        *)
THEOREM StreamsCorrect == Spec => []StreamIntegrity
<1> QED  BY InitIInv, NextIInv, StreamInit, StreamNext, PTL DEF Spec

(* A chain of reads that has ended is not taken up again: the connection   *)
(* is not registered, its peer is not listened to and is sent nothing new. *)
THEOREM GoneCorrect == Spec => GoneIsFinal
<1> DEFINE Final == \A c \in Conns : phase[c] = "gone" =>
                      /\ phase'[c] = "gone" /\ c \notin clients_'
                      /\ requests'[c] = requests[c] /\ sent'[c] = sent[c]
<1> USE DEF readVars, writeVars, mixinVars, logVars
<1>1. IInv /\ [Next]_vars => [Final]_vars
  <2> SUFFICES ASSUME IInv, Next, NEW c \in Conns, phase[c] = "gone"
               PROVE  /\ phase'[c] = "gone" /\ c \notin clients_'
                      /\ requests'[c] = requests[c] /\ sent'[c] = sent[c]
    OBVIOUS
  <2>1. c \notin clients_ /\ clients_ \subseteq Conns
    BY DEF IInv, ChainIffRegistered, TypeOK
  <2>2. ASSUME NEW d \in Conns, OnFrameData(d)
        PROVE  /\ phase'[c] = "gone" /\ c \notin clients_'
               /\ requests'[c] = requests[c] /\ sent'[c] = sent[c]
    <3>1. PICK r \in Calls :
            /\ Process(d, r, [from |-> d, no |-> Len(requests[d]) + 1])
            /\ requests' = [requests EXCEPT ![d] = Append(@, r)]
      BY <2>2 DEF OnFrameData, BeforeProcess
    <3>2. d \in clients_ /\ d # c
      BY <2>1, <2>2 DEF OnFrameData, IInv, ChainIffRegistered
    <3>3. [from |-> d, no |-> Len(requests[d]) + 1] \in Ships
      BY LenProperties DEF Ships, IInv, TypeOK
    <3>4. PICK R \in SUBSET clients_, m \in Messages : Send(R, m)
      BY <3>1, <3>2, <3>3, ProcessEffect DEF IInv
    <3>5. sent'[c] = sent[c]
      BY <2>1, <3>4 DEF Send
    <3> QED  BY <2>1, <2>2, <3>1, <3>2, <3>5 DEF OnFrameData, IInv, TypeOK
  <2>3. ASSUME NEW d \in Conns,
               \/ Connect(d) \/ PeerLost(d) \/ FrameSizeArrives(d)
               \/ Reactor(d) \/ Accept(d) \/ OnFrameSize(d)
               \/ OnReadError(d) \/ OnWriteOk(d) \/ OnWriteError(d)
        PROVE  /\ phase'[c] = "gone" /\ c \notin clients_'
               /\ requests'[c] = requests[c] /\ sent'[c] = sent[c]
    BY <2>1, <2>3 DEF Connect, PeerLost, FrameSizeArrives, FrameDataArrives,
         TimesOut, ReadFails, WriteSucceeds, WriteFails, Reactor, Accept, OnFrameSize,
         OnReadError, OnWriteOk, OnWriteError, IInv, TypeOK
  <2>4. ASSUME AcceptError
        PROVE  /\ phase'[c] = "gone" /\ c \notin clients_'
               /\ requests'[c] = requests[c] /\ sent'[c] = sent[c]
    BY <2>1, <2>4 DEF AcceptError, IInv, TypeOK
  <2> QED  BY <2>2, <2>3, <2>4 DEF Next, Handler, PeerDown, PeerVanishes
<1> QED  BY InitIInv, NextIInv, <1>1, PTL DEF Spec, GoneIsFinal
=============================================================================
