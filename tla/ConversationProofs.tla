------------------------- MODULE ConversationProofs -------------------------
(***************************************************************************)
(* Proofs about the ships that clients of TalkServer receive: whose they   *)
(* are, and that nobody hears one twice.                                   *)
(***************************************************************************)
EXTENDS ChatRoomProofs, FiniteSetTheorems

(* What a client is named it has asked for.                                *)
NamedAsAsked ==
  \A c \in Conns : user_name[c] \in AskedFor(requests[c], Len(requests[c]))

Attributed(m) ==
  /\ m.ship.no \in 1 .. Len(requests[m.ship.from])
  /\ requests[m.ship.from][m.ship.no].call = "postShip"
  /\ m.name \in AskedFor(requests[m.ship.from], m.ship.no)

(* Attribution, of what is sent.                                           *)
ShipsAttributed ==
  \A d \in Conns : \A i \in 1 .. Len(sent[d]) :
    IsShip(sent[d][i]) => Attributed(sent[d][i])

(* Nobody is sent a ship of its own, and the ships of one author in the    *)
(* order of their numbers.                                                 *)
ShipsInOrder ==
  \A d \in Conns : \A i \in 1 .. Len(sent[d]) :
    IsShip(sent[d][i]) =>
      /\ sent[d][i].ship.from # d
      /\ \A j \in 1 .. Len(sent[d]) :
           (j < i /\ IsShip(sent[d][j])
              /\ sent[d][j].ship.from = sent[d][i].ship.from)
             => sent[d][j].ship.no < sent[d][i].ship.no

CInv == NamedAsAsked /\ ShipsAttributed /\ ShipsInOrder

LEMMA InitCInv == Init => CInv
<1> SUFFICES ASSUME Init PROVE CInv
  OBVIOUS
<1>1. \A c \in Conns : Len(sent[c]) = 0
  BY EmptySeq DEF Init
<1>2. NamedAsAsked
  BY DEF Init, NamedAsAsked, AskedFor
<1> QED  BY <1>1, <1>2 DEF CInv, ShipsAttributed, ShipsInOrder

(* What is said of earlier calls stays true when one more is made.         *)
LEMMA EarlierCalls ==
  ASSUME TypeOK, NEW c \in Conns, NEW r \in Calls,
         requests' = [requests EXCEPT ![c] = Append(@, r)]
  PROVE  /\ Len(requests'[c]) = Len(requests[c]) + 1
         /\ requests'[c][Len(requests[c]) + 1] = r
         /\ \A d \in Conns :
              /\ Len(requests[d]) \in Nat
              /\ d # c => requests'[d] = requests[d]
              /\ Len(requests[d]) <= Len(requests'[d])
              /\ \A n \in 1 .. Len(requests[d]) :
                   requests'[d][n] = requests[d][n]
              /\ \A n \in 0 .. Len(requests[d]) :
                   AskedFor(requests'[d], n) =
                     AskedFor(requests[d], n)
<1>1. \A d \in Conns : requests[d] \in Seq(Calls) /\ Len(requests[d]) \in Nat
  BY LenProperties DEF TypeOK
<1>2. requests'[c] = Append(requests[c], r)
  BY DEF TypeOK
<1>3. /\ Len(requests'[c]) = Len(requests[c]) + 1
      /\ requests'[c][Len(requests[c]) + 1] = r
      /\ \A n \in 1 .. Len(requests[c]) : requests'[c][n] = requests[c][n]
  BY <1>1, <1>2, AppendProperties
<1>4. \A d \in Conns : d # c => requests'[d] = requests[d]
  BY DEF TypeOK
<1>5. ASSUME NEW d \in Conns, NEW n \in 0 .. Len(requests[d])
      PROVE  AskedFor(requests'[d], n) =
                     AskedFor(requests[d], n)
  <2>1. \A i \in 1 .. n : requests'[d][i] = requests[d][i]
    BY <1>1, <1>3, <1>4
  <2> QED  BY <2>1 DEF AskedFor
<1>6. \A d \in Conns : /\ Len(requests[d]) <= Len(requests'[d])
                       /\ \A n \in 1 .. Len(requests[d]) :
                            requests'[d][n] = requests[d][n]
  BY <1>1, <1>3, <1>4
<1> QED  BY <1>1, <1>3, <1>4, <1>5, <1>6

LEMMA CallCInv ==
  ASSUME IInv, RInv, CInv, NEW c \in Conns, OnFrameData(c)
  PROVE  CInv'
<1> USE DEF IInv
<1> DEFINE n == Len(requests[c])
           ship == [from |-> c, no |-> n + 1]
<1>1. PICK r \in Calls : /\ Process(c, r, ship)
                         /\ requests' = [requests EXCEPT ![c] = Append(@, r)]
  BY DEF OnFrameData, BeforeProcess
<1>2. /\ Len(requests'[c]) = n + 1 /\ requests'[c][n + 1] = r
      /\ \A d \in Conns :
           /\ Len(requests[d]) \in Nat
           /\ d # c => requests'[d] = requests[d]
           /\ Len(requests[d]) <= Len(requests'[d])
           /\ \A k \in 1 .. Len(requests[d]) :
                requests'[d][k] = requests[d][k]
           /\ \A k \in 0 .. Len(requests[d]) :
                AskedFor(requests'[d], k) = AskedFor(requests[d], k)
  BY <1>1, EarlierCalls
<1>3. c \in clients_ /\ clients_ \subseteq Conns /\ ship \in Ships
  BY <1>2 DEF OnFrameData, ChainIffRegistered, TypeOK, Ships
<1> HIDE DEF ship
<1>4. /\ \E R \in SUBSET clients_, m \in Messages :
           /\ Send(R, m)
           /\ IsShip(m) => /\ m.ship = ship /\ m.name = user_name[c]
                           /\ r.call = "postShip" /\ R = clients_ \ {c}
      /\ \/ user_name' = user_name
         \/ /\ r.call = "setUserName"
            /\ user_name' = [user_name EXCEPT ![c] = r.name]
  BY <1>1, <1>3, CallEffect
<1>5. PICK R \in SUBSET clients_, m \in Messages :
           /\ Send(R, m)
           /\ IsShip(m) => /\ m.ship = ship /\ m.name = user_name[c]
                           /\ r.call = "postShip" /\ R = clients_ \ {c}
  BY <1>4
<1>6. ship.from = c /\ ship.no = n + 1
  BY DEF ship
<1>7. AskedFor(requests[c], n) \subseteq AskedFor(requests'[c], n + 1)
  <2>1. AskedFor(requests'[c], n) \subseteq AskedFor(requests'[c], n + 1)
    BY <1>2 DEF AskedFor
  <2>2. n \in 0 .. Len(requests[c])
    BY <1>2
  <2> QED  BY <1>2, <2>1, <2>2
<1>8. NamedAsAsked'
  <2> SUFFICES ASSUME NEW d \in Conns
               PROVE  user_name'[d] \in AskedFor(requests'[d], Len(requests'[d]))
    BY DEF NamedAsAsked
  <2>1. user_name[d] \in AskedFor(requests[d], Len(requests[d]))
    BY DEF CInv, NamedAsAsked
  <2>2. CASE d # c
    <3>1. user_name'[d] = user_name[d]
      BY <1>4, <2>2 DEF TypeOK
    <3>2. Len(requests[d]) \in 0 .. Len(requests[d])
      BY <1>2
    <3>3. requests'[d] = requests[d]
      BY <1>2, <2>2
    <3> QED  BY <2>1, <3>1, <3>3
  <2>3. CASE d = c
    <3>1. Len(requests'[c]) = n + 1
      BY <1>2
    <3>2. CASE user_name' = user_name
      BY <1>7, <2>1, <2>3, <3>1, <3>2
    <3>3. CASE r.call = "setUserName" /\ user_name' = [user_name EXCEPT ![c] = r.name]
      <4>1. r.name \in AskedFor(requests'[c], n + 1)
        BY <1>2, <3>3 DEF AskedFor
      <4>2. user_name'[c] = r.name
        BY <3>3 DEF TypeOK
      <4> QED  BY <2>3, <3>1, <4>1, <4>2
    <3> QED  BY <1>4, <3>2, <3>3
  <2> QED  BY <2>2, <2>3
<1>9. ASSUME NEW d \in Conns, NEW i \in 1 .. Len(sent'[d]), IsShip(sent'[d][i])
      PROVE  \/ /\ i \in 1 .. Len(sent[d]) /\ sent'[d][i] = sent[d][i]
                /\ sent[d][i] \in Messages
                /\ sent[d][i].ship.from \in Conns
                /\ sent[d][i].ship.no \in 1 .. Len(requests[sent[d][i].ship.from])
             \/ /\ i = Len(sent[d]) + 1 /\ d \in R
                /\ sent'[d][i] = m /\ IsShip(m)
  <2>1. sent[d] \in Seq(Messages) /\ Len(sent[d]) \in Nat
    BY LenProperties DEF TypeOK
  <2>2. CASE i \in 1 .. Len(sent[d]) /\ sent'[d][i] = sent[d][i]
    <3>1. sent[d][i] \in Messages /\ IsShip(sent[d][i])
      BY <1>9, <2>1, <2>2, ElementOfSeq DEF IsShip
    <3>2. sent[d][i].ship.from \in Conns
      BY <3>1 DEF Messages, Replies, Ships, IsShip
    <3>3. Attributed(sent[d][i])
      BY <2>2, <3>1 DEF CInv, ShipsAttributed
    <3> QED  BY <2>2, <3>1, <3>2, <3>3 DEF Attributed
  <2>3. CASE d \in R
    <3>1. sent'[d] = Append(sent[d], m)
      BY <1>5, <2>3 DEF Send
    <3>2. /\ Len(Append(sent[d], m)) = Len(sent[d]) + 1
          /\ \A j \in 1 .. Len(sent[d]) : Append(sent[d], m)[j] = sent[d][j]
          /\ Append(sent[d], m)[Len(sent[d]) + 1] = m
      BY <2>1, AppendProperties
    <3>3. CASE i = Len(sent[d]) + 1
      BY <1>9, <2>3, <3>1, <3>2, <3>3 DEF IsShip
    <3> QED  BY <2>1, <2>2, <3>1, <3>2, <3>3
  <2>4. CASE d \notin R
    <3>1. sent'[d] = sent[d]
      BY <1>5, <2>4 DEF Send
    <3> QED  BY <2>2, <3>1
  <2> QED  BY <2>3, <2>4
<1>10. ShipsAttributed'
  <2> SUFFICES ASSUME NEW d \in Conns, NEW i \in 1 .. Len(sent'[d]),
                      IsShip(sent'[d][i])
               PROVE  Attributed(sent[d][i])'
    BY DEF ShipsAttributed, IsShip
  <2>1. CASE /\ i \in 1 .. Len(sent[d]) /\ sent'[d][i] = sent[d][i]
             /\ sent[d][i] \in Messages
             /\ sent[d][i].ship.from \in Conns
             /\ sent[d][i].ship.no \in 1 .. Len(requests[sent[d][i].ship.from])
    <3> DEFINE f == sent[d][i].ship.from
               k == sent[d][i].ship.no
    <3>1. Attributed(sent[d][i])
      BY <2>1 DEF CInv, ShipsAttributed, IsShip
    <3>2. f \in Conns /\ k \in 1 .. Len(requests[f]) /\ Len(requests[f]) \in Nat
      BY <1>2, <2>1
    <3>3. /\ k \in 1 .. Len(requests'[f]) /\ requests'[f][k] = requests[f][k]
      BY SMTT(30), <1>2, <3>2
    <3>4. AskedFor(requests'[f], k) = AskedFor(requests[f], k)
      <4> HIDE DEF f, k
      <4>1. k \in 0 .. Len(requests[f])
        BY <3>2
      <4> QED  BY <1>2, <3>2, <4>1
    <3> QED  BY <2>1, <3>1, <3>3, <3>4 DEF Attributed
  <2>2. CASE sent'[d][i] = m /\ IsShip(m)
    <3>1. m.ship.from = c /\ m.ship.no = n + 1 /\ m.name = user_name[c]
      BY <1>5, <1>6, <2>2
    <3>2. n + 1 \in 1 .. Len(requests'[c]) /\ requests'[c][n + 1].call = "postShip"
      BY <1>2, <1>5, <2>2
    <3>3. user_name[c] \in AskedFor(requests'[c], n + 1)
      BY <1>7 DEF CInv, NamedAsAsked
    <3> QED  BY <2>2, <3>1, <3>2, <3>3 DEF Attributed
  <2> QED  BY <1>9, <2>1, <2>2
<1>11. ShipsInOrder'
  <2> SUFFICES ASSUME NEW d \in Conns, NEW i \in 1 .. Len(sent'[d]),
                      IsShip(sent'[d][i])
               PROVE  /\ sent'[d][i].ship.from # d
                      /\ \A j \in 1 .. Len(sent'[d]) :
                           (j < i /\ IsShip(sent'[d][j])
                              /\ sent'[d][j].ship.from = sent'[d][i].ship.from)
                             => sent'[d][j].ship.no < sent'[d][i].ship.no
    BY DEF ShipsInOrder, IsShip
  <2>0. Len(sent[d]) \in Nat
    BY LenProperties DEF TypeOK
  <2>1. CASE i \in 1 .. Len(sent[d]) /\ sent'[d][i] = sent[d][i]
    <3>1. sent'[d][i].ship.from # d
      BY <2>1 DEF CInv, ShipsInOrder, IsShip
    <3>2. ASSUME NEW j \in 1 .. Len(sent'[d]), j < i, IsShip(sent'[d][j])
          PROVE  j \in 1 .. Len(sent[d]) /\ sent'[d][j] = sent[d][j]
      BY <1>9, <2>0, <2>1, <3>2
    <3> QED  BY <2>1, <3>1, <3>2 DEF CInv, ShipsInOrder, IsShip
  <2>2. CASE i = Len(sent[d]) + 1 /\ d \in R /\ sent'[d][i] = m /\ IsShip(m)
    <3>1. m.ship.from = c /\ m.ship.no = n + 1 /\ d # c
      BY <1>5, <1>6, <2>2
    <3>2. ASSUME NEW j \in 1 .. Len(sent'[d]), j < i, IsShip(sent'[d][j]),
                 sent'[d][j].ship.from = c
          PROVE  sent'[d][j].ship.no < n + 1
      <4>1. /\ j \in 1 .. Len(sent[d]) /\ sent'[d][j] = sent[d][j]
            /\ sent[d][j].ship.no \in 1 .. Len(requests[sent[d][j].ship.from])
        BY <1>9, <2>0, <2>2, <3>2
      <4>2. sent[d][j].ship.no \in 1 .. n
        BY <3>2, <4>1
      <4> QED  BY <1>2, <4>1, <4>2
    <3> QED  BY <2>2, <3>1, <3>2
  <2> QED  BY <1>9, <2>1, <2>2
<1> QED  BY <1>8, <1>10, <1>11 DEF CInv

LEMMA NextCInv == IInv /\ RInv /\ CInv /\ [Next]_vars => CInv'
<1> SUFFICES ASSUME IInv, RInv, CInv, [Next]_vars PROVE CInv'
  OBVIOUS
<1> USE DEF readVars, writeVars, mixinVars, logVars
<1>1. ASSUME NEW c \in Conns, OnFrameData(c) PROVE CInv'
  BY <1>1, CallCInv
<1>2. ASSUME UNCHANGED <<requests, sent, user_name>> PROVE CInv'
  <2>1. requests' = requests /\ sent' = sent /\ user_name' = user_name
    BY <1>2
  <2>2. NamedAsAsked'
    BY <2>1 DEF CInv, NamedAsAsked, AskedFor
  <2>3. ShipsAttributed'
    <3>1. \A c, i : AskedFor(requests[c], i)' = AskedFor(requests[c], i)
      BY <2>1 DEF AskedFor
    <3>2. SUFFICES ASSUME NEW d \in Conns, NEW i \in 1 .. Len(sent[d]),
                          IsShip(sent[d][i])
                   PROVE  Attributed(sent[d][i])'
      BY <2>1 DEF ShipsAttributed, IsShip
    <3>3. Attributed(sent[d][i])
      BY <3>2 DEF CInv, ShipsAttributed
    <3> QED  BY <2>1, <3>1, <3>3 DEF Attributed
  <2>4. ShipsInOrder'
    BY <2>1 DEF CInv, ShipsInOrder
  <2> QED  BY <2>2, <2>3, <2>4 DEF CInv
<1>3. ASSUME NEW d \in Conns,
             \/ Connect(d) \/ PeerLost(d) \/ FrameSizeArrives(d)
             \/ FrameDataArrives(d) \/ ReadFails(d)
             \/ WriteSucceeds(d) \/ WriteFails(d) \/ TimesOut(d)
             \/ Accept(d) \/ OnFrameSize(d)
             \/ OnReadError(d) \/ OnWriteOk(d) \/ OnWriteError(d)
      PROVE  UNCHANGED <<requests, sent, user_name>>
  BY <1>3 DEF Connect, PeerLost, FrameSizeArrives, FrameDataArrives,
       ReadFails, WriteSucceeds, WriteFails, TimesOut, Accept, OnFrameSize,
       OnReadError, OnWriteOk, OnWriteError
<1>4. AcceptError \/ UNCHANGED vars => UNCHANGED <<requests, sent, user_name>>
  BY DEF AcceptError, vars
<1> QED  BY <1>1, <1>2, <1>3, <1>4
         DEF Next, Reactor, Handler, PeerDown, PeerVanishes

(* What a peer has received is what it was sent.                           *)
LEMMA Received ==
  ASSUME IInv, StreamIntegrity, NEW c \in Conns,
         NEW i \in 1 .. Len(delivered[c])
  PROVE  i \in 1 .. Len(sent[c]) /\ delivered[c][i] = sent[c][i]
<1>1. /\ delivered[c] \in Seq(Messages) /\ sent[c] \in Seq(Messages)
      /\ Len(delivered[c]) \in Nat /\ Len(sent[c]) \in Nat
  BY LenProperties DEF IInv, TypeOK
<1>2. /\ Len(delivered[c]) <= Len(sent[c])
      /\ \A j \in 1 .. Len(delivered[c]) : delivered[c][j] = sent[c][j]
  BY <1>1, PrefixElements DEF StreamIntegrity
<1> QED  BY <1>1, <1>2

LEMMA Conversation ==
  IInv /\ StreamIntegrity /\ CInv => Attribution /\ NoEcho
<1> SUFFICES ASSUME IInv, StreamIntegrity, CInv PROVE Attribution /\ NoEcho
  OBVIOUS
<1>1. Attribution
  <2> SUFFICES ASSUME NEW c \in Conns, NEW i \in 1 .. Len(delivered[c]),
                      IsShip(delivered[c][i])
               PROVE  Attributed(delivered[c][i])
    BY DEF Attribution, Attributed
  <2> QED  BY Received DEF CInv, ShipsAttributed
<1>2. NoEcho
  <2> SUFFICES ASSUME NEW c \in Conns, NEW i \in 1 .. Len(delivered[c]),
                      NEW j \in 1 .. Len(delivered[c]),
                      IsShip(delivered[c][i])
               PROVE  /\ delivered[c][i].ship.from # c
                      /\ delivered[c][i] = delivered[c][j] => i = j
    BY DEF NoEcho
  <2>1. /\ i \in 1 .. Len(sent[c]) /\ delivered[c][i] = sent[c][i]
        /\ j \in 1 .. Len(sent[c]) /\ delivered[c][j] = sent[c][j]
    BY Received
  <2>2. sent[c][i].ship.from # c
    BY <2>1 DEF CInv, ShipsInOrder
  <2>3. ASSUME sent[c][i] = sent[c][j] PROVE i = j
    <3>1. sent[c][i] \in Messages
      BY <2>1, ElementOfSeq DEF IInv, TypeOK
    <3>2. sent[c][i].ship.no \in Nat
      BY <2>1, <3>1 DEF Messages, Replies, Ships, IsShip
    <3>3. ~(i < j) /\ ~(j < i)
      BY <2>1, <2>3, <3>2 DEF CInv, ShipsInOrder
    <3>4. Len(sent[c]) \in Nat
      BY LenProperties DEF IInv, TypeOK
    <3> QED  BY <2>1, <3>3, <3>4
  <2> QED  BY <2>1, <2>2, <2>3
<1> QED  BY <1>1, <1>2

(* Every ship is attributed to its author under a name it had asked for    *)
(* before it posted: current_client_ is right during each call.            *)
THEOREM AttributionCorrect == Spec => []Attribution
BY InitIInv, NextIInv, InitRInv, NextRInv, StreamInit, StreamNext,
   InitCInv, NextCInv, Conversation, PTL DEF Spec

(* Nobody hears a ship of its own, or one ship twice: postShip leaves the  *)
(* author out, and the lists repeat nothing.                               *)
THEOREM NoEchoCorrect == Spec => []NoEcho
BY InitIInv, NextIInv, InitRInv, NextRInv, StreamInit, StreamNext,
   InitCInv, NextCInv, Conversation, PTL DEF Spec

-----------------------------------------------------------------------------
(* Positions and their ranks.                                              *)

LEMMA RankType ==
  ASSUME NEW n \in Nat, NEW S \in SUBSET (1 .. n), NEW i \in Nat
  PROVE  /\ Rank(S, i) \in Nat /\ Rank(S, n) \in Nat
         /\ Rank(S, i) <= Rank(S, n)
<1> DEFINE T == {k \in S : k <= i}
<1>1. {k \in S : k <= n} = S
  <2>1. \A k \in S : k <= n
    OBVIOUS
  <2> QED  BY <2>1
<1>2. IsFiniteSet(S)
  <2>1. IsFiniteSet(1 .. n)
    BY 0 \in Int, n \in Int, FS_Interval
  <2> QED  BY <2>1, FS_Subset
<1>3. T \in SUBSET S
  OBVIOUS
<1> HIDE DEF T
<1>4. IsFiniteSet(T) /\ Cardinality(T) <= Cardinality(S)
  BY <1>2, <1>3, FS_Subset
<1>5. Cardinality(T) \in Nat /\ Cardinality(S) \in Nat
  BY <1>2, <1>4, FS_CardinalityType
<1>6. Rank(S, i) = Cardinality(T)
  BY DEF Rank, T
<1>7. Rank(S, n) = Cardinality(S)
  BY <1>1 DEF Rank
<1> QED  BY <1>4, <1>5, <1>6, <1>7

(* A position behind those of S leaves the ranks of S alone, and comes     *)
(* next.                                                                   *)
LEMMA RankNext ==
  ASSUME NEW n \in Nat, NEW S \in SUBSET (1 .. n)
  PROVE  /\ Rank(S, n + 1) = Rank(S, n)
         /\ Rank(S \cup {n + 1}, n + 1) = Rank(S, n) + 1
         /\ \A i \in 1 .. n : Rank(S \cup {n + 1}, i) = Rank(S, i)
<1>1. /\ {k \in S : k <= n} = S /\ {k \in S : k <= n + 1} = S
      /\ {k \in S \cup {n + 1} : k <= n + 1} = S \cup {n + 1}
  <2>1. \A k \in S : k <= n /\ k <= n + 1
    OBVIOUS
  <2>2. n + 1 <= n + 1
    OBVIOUS
  <2> QED  BY <2>1, <2>2, Zenon
<1>2. \A i \in 1 .. n :
        {k \in S \cup {n + 1} : k <= i} = {k \in S : k <= i}
  OBVIOUS
<1>3. IsFiniteSet(S)
  <2>1. IsFiniteSet(1 .. n)
    BY 0 \in Int, n \in Int, FS_Interval
  <2> QED  BY <2>1, FS_Subset
<1>4. n + 1 \notin S
  OBVIOUS
<1>5. Cardinality(S \cup {n + 1}) = Cardinality(S) + 1
  BY <1>3, <1>4, FS_AddElement
<1> QED  BY <1>1, <1>2, <1>5 DEF Rank

-----------------------------------------------------------------------------
(* Two lists of messages, s said to a and t said to b, and the ships of    *)
(* others in them.                                                         *)

(* How many ships of others than a and b are in s, and how many after i.   *)
Total(s, a, b)    == Rank(ShipsOfOthers(s, a, b), Len(s))
After(s, a, b, i) == Total(s, a, b) - Rank(ShipsOfOthers(s, a, b), i)

(* OneConversation, of s and t.                                            *)
SameShips(s, t, a, b) ==
  \A i, m \in ShipsOfOthers(s, a, b), j, n \in ShipsOfOthers(t, a, b) :
    s[i] = t[j] =>
      (s[m] = t[n]
         <=> Rank(ShipsOfOthers(s, a, b), m) - Rank(ShipsOfOthers(s, a, b), i) =
             Rank(ShipsOfOthers(t, a, b), n) - Rank(ShipsOfOthers(t, a, b), j))

(* After a ship that both have, s has as many as t.                        *)
UpToDate(s, t, a, b) ==
  \A i \in ShipsOfOthers(s, a, b), j \in ShipsOfOthers(t, a, b) :
    s[i] = t[j] => After(t, a, b, j) <= After(s, a, b, i)

(* The last ships of one are those of the other.                           *)
SameEnd(s, t, a, b) ==
  \A i \in ShipsOfOthers(s, a, b), j \in ShipsOfOthers(t, a, b) :
    After(s, a, b, i) = After(t, a, b, j) => s[i] = t[j]

LEMMA ShipsType ==
  ASSUME NEW s \in Seq(Messages), NEW a, NEW b
  PROVE  /\ Len(s) \in Nat
         /\ ShipsOfOthers(s, a, b) \in SUBSET (1 .. Len(s))
         /\ Total(s, a, b) \in Nat
         /\ \A i \in ShipsOfOthers(s, a, b) :
              /\ Rank(ShipsOfOthers(s, a, b), i) \in Nat
              /\ Rank(ShipsOfOthers(s, a, b), i) <= Total(s, a, b)
<1>1. Len(s) \in Nat
  BY LenProperties
<1>2. ShipsOfOthers(s, a, b) \in SUBSET (1 .. Len(s))
  BY DEF ShipsOfOthers
<1>3. ASSUME NEW i \in Nat
      PROVE  /\ Rank(ShipsOfOthers(s, a, b), i) \in Nat
             /\ Total(s, a, b) \in Nat
             /\ Rank(ShipsOfOthers(s, a, b), i) <= Total(s, a, b)
  BY <1>1, <1>2, RankType DEF Total
<1>4. \A i \in ShipsOfOthers(s, a, b) : i \in Nat
  BY <1>1, <1>2
<1> QED  BY <1>1, <1>2, <1>3, <1>4, 0 \in Nat

(* u has one ship of others more than s, which is m and comes last.        *)
HasOneMore(u, s, m, a, b) ==
  LET O == ShipsOfOthers(s, a, b)
      P == ShipsOfOthers(u, a, b)
  IN  /\ \A i \in O : u[i] = s[i] /\ Rank(P, i) = Rank(O, i)
      /\ \E l \in Nat :
           /\ l \notin O /\ P = O \cup {l} /\ u[l] = m
           /\ Rank(P, l) = Total(s, a, b) + 1
      /\ Total(u, a, b) = Total(s, a, b) + 1

(* u has the same ships of others as s.                                    *)
HasNoMore(u, s, a, b) ==
  /\ ShipsOfOthers(u, a, b) = ShipsOfOthers(s, a, b)
  /\ \A i \in ShipsOfOthers(s, a, b) : u[i] = s[i]
  /\ Total(u, a, b) = Total(s, a, b)

LEMMA MessageMore ==
  ASSUME NEW s \in Seq(Messages), NEW m \in Messages, NEW a, NEW b
  PROVE  IF IsShip(m) /\ m.ship.from \notin {a, b}
           THEN HasOneMore(Append(s, m), s, m, a, b)
           ELSE HasNoMore(Append(s, m), s, a, b)
<1> DEFINE u == Append(s, m)
           n == Len(s)
           O == ShipsOfOthers(s, a, b)
           P == ShipsOfOthers(u, a, b)
           ship == IsShip(m) /\ m.ship.from \notin {a, b}
<1>1. n \in Nat /\ O \in SUBSET (1 .. n)
  BY ShipsType
<1>2. /\ Len(u) = n + 1 /\ u[n + 1] = m
      /\ \A i \in 1 .. n : u[i] = s[i]
  BY AppendProperties
<1>3. 1 .. (n + 1) = (1 .. n) \cup {n + 1}
  BY <1>1
<1> HIDE DEF u
<1>4. \A i : i \in P <=> i \in O \/ (i = n + 1 /\ ship)
  BY <1>1, <1>2, <1>3 DEF ShipsOfOthers, IsShip
<1>5. Total(u, a, b) = Rank(P, n + 1) /\ Total(s, a, b) = Rank(O, n)
  BY <1>2 DEF Total
<1> HIDE DEF n, O, P
<1>6. /\ Rank(O, n + 1) = Rank(O, n)
      /\ Rank(O \cup {n + 1}, n + 1) = Rank(O, n) + 1
      /\ \A i \in 1 .. n : Rank(O \cup {n + 1}, i) = Rank(O, i)
  BY <1>1, RankNext
<1>7. CASE ship
  <2>1. P = O \cup {n + 1}
    BY <1>4, <1>7
  <2>2. n + 1 \in Nat /\ n + 1 \notin O
    BY <1>1
  <2>3. \A i \in O : u[i] = s[i] /\ Rank(P, i) = Rank(O, i)
    BY <1>1, <1>2, <1>6, <2>1
  <2>4. HasOneMore(u, s, m, a, b)
    BY <1>2, <1>5, <1>6, <2>1, <2>2, <2>3 DEF HasOneMore, O, P
  <2> QED  BY <1>7, <2>4 DEF u
<1>8. CASE ~ship
  <2>1. P = O
    BY <1>4, <1>8
  <2>2. \A i \in O : u[i] = s[i]
    BY <1>1, <1>2
  <2>3. HasNoMore(u, s, a, b)
    BY <1>5, <1>6, <2>1, <2>2 DEF HasNoMore, O, P
  <2> QED  BY <1>8, <2>3 DEF u
<1> QED  BY <1>7, <1>8

(* A ship that both hear.                                                  *)
LEMMA BothHear ==
  ASSUME NEW s \in Seq(Messages), NEW t \in Seq(Messages),
         NEW m, NEW a, NEW b, NEW u, NEW v,
         HasOneMore(u, s, m, a, b), HasOneMore(v, t, m, a, b),
         \A i \in 1 .. Len(s) : s[i] # m, \A j \in 1 .. Len(t) : t[j] # m,
         UpToDate(s, t, a, b), UpToDate(t, s, a, b), SameEnd(s, t, a, b)
  PROVE  /\ SameShips(u, v, a, b) /\ SameEnd(u, v, a, b)
         /\ UpToDate(u, v, a, b) /\ UpToDate(v, u, a, b)
<1> DEFINE A  == ShipsOfOthers(s, a, b)
           B  == ShipsOfOthers(t, a, b)
           A2 == ShipsOfOthers(u, a, b)
           B2 == ShipsOfOthers(v, a, b)
           TA == Total(s, a, b)
           TB == Total(t, a, b)
<1>1. /\ TA \in Nat /\ \A i \in A : Rank(A, i) \in Nat /\ Rank(A, i) <= TA
      /\ A \subseteq 1 .. Len(s)
  BY ShipsType
<1>2. /\ TB \in Nat /\ \A j \in B : Rank(B, j) \in Nat /\ Rank(B, j) <= TB
      /\ B \subseteq 1 .. Len(t)
  BY ShipsType
<1>3. PICK k \in Nat :
        /\ k \notin A /\ A2 = A \cup {k} /\ u[k] = m
        /\ Rank(A2, k) = TA + 1 /\ Total(u, a, b) = TA + 1
        /\ \A i \in A : u[i] = s[i] /\ Rank(A2, i) = Rank(A, i)
  BY DEF HasOneMore
<1>4. PICK l \in Nat :
        /\ l \notin B /\ B2 = B \cup {l} /\ v[l] = m
        /\ Rank(B2, l) = TB + 1 /\ Total(v, a, b) = TB + 1
        /\ \A j \in B : v[j] = t[j] /\ Rank(B2, j) = Rank(B, j)
  BY DEF HasOneMore
<1>5. \A i \in A, j \in B : s[i] = t[j] <=> TA - Rank(A, i) = TB - Rank(B, j)
  <2> SUFFICES ASSUME NEW i \in A, NEW j \in B
               PROVE  s[i] = t[j] <=> TA - Rank(A, i) = TB - Rank(B, j)
    OBVIOUS
  <2> DEFINE x == TA - Rank(A, i)
             y == TB - Rank(B, j)
  <2>1. x = After(s, a, b, i) /\ y = After(t, a, b, j)
    BY DEF After
  <2>2. x \in Int /\ y \in Int
    BY <1>1, <1>2
  <2>3. (s[i] = t[j] => x <= y /\ y <= x) /\ (x = y => s[i] = t[j])
    BY <2>1 DEF UpToDate, SameEnd
  <2> HIDE DEF x, y
  <2>4. s[i] = t[j] <=> x = y
    BY <2>2, <2>3
  <2> QED  BY <2>4 DEF x, y
<1>6. (\A i \in A : s[i] # m) /\ (\A j \in B : t[j] # m)
  BY <1>1, <1>2
<1> HIDE DEF A, B, TA, TB
<1>7. ASSUME NEW i \in A2
      PROVE  /\ Rank(A2, i) \in Nat
             /\ After(u, a, b, i) = (TA + 1) - Rank(A2, i)
  <2>1. i \in A => Rank(A2, i) \in Nat
    BY <1>1, <1>3
  <2>2. i = k => Rank(A2, i) \in Nat
    BY <1>1, <1>3
  <2>3. After(u, a, b, i) = Total(u, a, b) - Rank(A2, i)
    BY DEF After
  <2>4. Rank(A2, i) \in Nat
    BY <1>3, <2>1, <2>2
  <2> QED  BY <1>3, <2>3, <2>4, Zenon
<1>8. ASSUME NEW j \in B2
      PROVE  /\ Rank(B2, j) \in Nat
             /\ After(v, a, b, j) = (TB + 1) - Rank(B2, j)
  <2>1. j \in B => Rank(B2, j) \in Nat
    BY <1>2, <1>4
  <2>2. j = l => Rank(B2, j) \in Nat
    BY <1>2, <1>4
  <2>3. After(v, a, b, j) = Total(v, a, b) - Rank(B2, j)
    BY DEF After
  <2>4. Rank(B2, j) \in Nat
    BY <1>4, <2>1, <2>2
  <2> QED  BY <1>4, <2>3, <2>4, Zenon
<1> HIDE DEF A2, B2
<1>9. ASSUME NEW i \in A2, NEW j \in B2
      PROVE  u[i] = v[j] <=> TA - Rank(A2, i) = TB - Rank(B2, j)
  <2>1. CASE i \in A /\ j \in B
    <3>1. /\ u[i] = s[i] /\ v[j] = t[j]
          /\ Rank(A2, i) = Rank(A, i) /\ Rank(B2, j) = Rank(B, j)
      BY <1>3, <1>4, <2>1
    <3> QED  BY <1>5, <2>1, <3>1
  <2>2. CASE i \in A /\ j = l
    <3>1. /\ u[i] # v[j] /\ Rank(B2, j) = TB + 1
          /\ Rank(A2, i) \in Nat /\ Rank(A2, i) <= TA
      BY <1>1, <1>3, <1>4, <1>6, <2>2
    <3> QED  BY <1>1, <1>2, <3>1
  <2>3. CASE i = k /\ j \in B
    <3>1. /\ u[i] # v[j] /\ Rank(A2, i) = TA + 1
          /\ Rank(B2, j) \in Nat /\ Rank(B2, j) <= TB
      BY <1>2, <1>3, <1>4, <1>6, <2>3
    <3> QED  BY <1>1, <1>2, <3>1
  <2>4. CASE i = k /\ j = l
    <3>1. u[i] = v[j] /\ Rank(A2, i) = TA + 1 /\ Rank(B2, j) = TB + 1
      BY <1>3, <1>4, <2>4
    <3> QED  BY <1>1, <1>2, <3>1
  <2> QED  BY <1>3, <1>4, <2>1, <2>2, <2>3, <2>4
<1>10. SameShips(u, v, a, b)
  <2> SUFFICES ASSUME NEW i \in A2, NEW p \in A2, NEW j \in B2, NEW q \in B2,
                      u[i] = v[j]
               PROVE  u[p] = v[q] <=>
                        Rank(A2, p) - Rank(A2, i) = Rank(B2, q) - Rank(B2, j)
    BY DEF SameShips, A2, B2
  <2>1. TA - Rank(A2, i) = TB - Rank(B2, j)
    BY <1>9
  <2>2. u[p] = v[q] <=> TA - Rank(A2, p) = TB - Rank(B2, q)
    BY <1>9
  <2>3. /\ Rank(A2, i) \in Nat /\ Rank(B2, j) \in Nat
        /\ Rank(A2, p) \in Nat /\ Rank(B2, q) \in Nat
    BY <1>7, <1>8
  <2>4. TA - Rank(A2, p) = TB - Rank(B2, q) <=>
          Rank(A2, p) - Rank(A2, i) = Rank(B2, q) - Rank(B2, j)
    <3> DEFINE d == Rank(A2, i)
               e == Rank(A2, p)
               f == Rank(B2, j)
               g == Rank(B2, q)
    <3>1. /\ TA \in Int /\ TB \in Int
          /\ d \in Int /\ e \in Int /\ f \in Int /\ g \in Int
          /\ TA - d = TB - f
      BY <1>1, <1>2, <2>1, <2>3
    <3> HIDE DEF d, e, f, g
    <3>2. TA - e = TB - g <=> e - d = g - f
      BY <3>1
    <3> QED  BY <3>2 DEF d, e, f, g
  <2> QED  BY <2>2, <2>4, Zenon
<1>11. ASSUME NEW i \in A2, NEW j \in B2
       PROVE  /\ u[i] = v[j] <=> After(u, a, b, i) = After(v, a, b, j)
              /\ After(u, a, b, i) \in Int /\ After(v, a, b, j) \in Int
  <2> DEFINE x == TA - Rank(A2, i)
             y == TB - Rank(B2, j)
  <2>1. x \in Int /\ y \in Int
    BY <1>1, <1>2, <1>7, <1>8
  <2>2. After(u, a, b, i) = x + 1 /\ After(v, a, b, j) = y + 1
    BY <1>1, <1>2, <1>7, <1>8
  <2>3. u[i] = v[j] <=> x = y
    BY <1>9
  <2> HIDE DEF x, y
  <2>4. x = y <=> x + 1 = y + 1
    BY <2>1
  <2> QED  BY <2>1, <2>2, <2>3, <2>4
<1>12. UpToDate(u, v, a, b) /\ UpToDate(v, u, a, b)
  BY <1>11 DEF UpToDate, A2, B2
<1>13. SameEnd(u, v, a, b)
  BY <1>11 DEF SameEnd, A2, B2
<1> QED  BY <1>10, <1>12, <1>13

(* A ship that only one hears, which was up to date.                       *)
LEMMA OneHears ==
  ASSUME NEW s \in Seq(Messages), NEW t \in Seq(Messages),
         NEW m, NEW a, NEW b, NEW u, HasOneMore(u, s, m, a, b),
         \A j \in 1 .. Len(t) : t[j] # m,
         SameShips(s, t, a, b), UpToDate(s, t, a, b)
  PROVE  SameShips(u, t, a, b) /\ UpToDate(u, t, a, b)
<1> DEFINE A  == ShipsOfOthers(s, a, b)
           B  == ShipsOfOthers(t, a, b)
           A2 == ShipsOfOthers(u, a, b)
           TA == Total(s, a, b)
           TB == Total(t, a, b)
<1>1. TA \in Nat /\ \A i \in A : Rank(A, i) \in Nat /\ Rank(A, i) <= TA
  BY ShipsType
<1>2. /\ TB \in Nat /\ \A j \in B : Rank(B, j) \in Nat /\ Rank(B, j) <= TB
      /\ B \subseteq 1 .. Len(t)
  BY ShipsType
<1>3. PICK k \in Nat :
        /\ k \notin A /\ A2 = A \cup {k} /\ u[k] = m
        /\ Rank(A2, k) = TA + 1 /\ Total(u, a, b) = TA + 1
        /\ \A i \in A : u[i] = s[i] /\ Rank(A2, i) = Rank(A, i)
  BY DEF HasOneMore
<1>4. \A j \in B : t[j] # m
  BY <1>2
<1>5. \A i \in A, j \in B : s[i] = t[j] => TB - Rank(B, j) <= TA - Rank(A, i)
  BY DEF UpToDate, After
<1>6. \A i, p \in A, j, q \in B : s[i] = t[j] =>
        (s[p] = t[q] <=> Rank(A, p) - Rank(A, i) = Rank(B, q) - Rank(B, j))
  BY DEF SameShips
<1> HIDE DEF A, B, A2, TA, TB
<1>7. ASSUME NEW i \in A2, NEW p \in A2, NEW j \in B, NEW q \in B, u[i] = t[j]
      PROVE  u[p] = t[q] <=>
               Rank(A2, p) - Rank(A2, i) = Rank(B, q) - Rank(B, j)
  <2>1. i \in A /\ s[i] = t[j] /\ Rank(A2, i) = Rank(A, i)
    BY <1>3, <1>4, <1>7
  <2>2. CASE p \in A
    <3>1. s[p] = u[p] /\ Rank(A2, p) = Rank(A, p)
      BY <1>3, <2>2
    <3> QED  BY <1>6, <1>7, <2>1, <2>2, <3>1
  <2>3. CASE p = k
    <3>1. u[p] # t[q] /\ Rank(A2, p) = TA + 1
      BY <1>3, <1>4, <2>3
    <3>2. /\ TB - Rank(B, j) <= TA - Rank(A, i)
          /\ Rank(A, i) \in Nat /\ Rank(B, j) \in Nat
          /\ Rank(B, q) \in Nat /\ Rank(B, q) <= TB
      BY <1>1, <1>2, <1>5, <1>7, <2>1
    <3>3. Rank(B, q) - Rank(B, j) # (TA + 1) - Rank(A, i)
      BY <1>1, <1>2, <3>2
    <3>4. Rank(A2, p) - Rank(A2, i) # Rank(B, q) - Rank(B, j)
      BY <2>1, <3>1, <3>3, Zenon
    <3> QED  BY <3>1, <3>4, Zenon
  <2> QED  BY <1>3, <2>2, <2>3
<1>8. SameShips(u, t, a, b)
  BY <1>7 DEF SameShips, A2, B
<1>9. ASSUME NEW i \in A2, NEW j \in B, u[i] = t[j]
      PROVE  TB - Rank(B, j) <= (TA + 1) - Rank(A2, i)
  <2>1. i \in A /\ s[i] = t[j] /\ Rank(A2, i) = Rank(A, i)
    BY <1>3, <1>4, <1>9
  <2>2. TB - Rank(B, j) <= TA - Rank(A, i)
    BY <1>5, <1>9, <2>1
  <2>3. Rank(A, i) \in Nat /\ Rank(B, j) \in Nat
    BY <1>1, <1>2, <1>9, <2>1
  <2> QED  BY <1>1, <1>2, <2>1, <2>2, <2>3
<1>10. ASSUME NEW i \in A2, NEW j \in B, u[i] = t[j]
       PROVE  After(t, a, b, j) <= After(u, a, b, i)
  <2>1. After(t, a, b, j) = TB - Rank(B, j)
    BY DEF After, TB, B
  <2>2. After(u, a, b, i) = Total(u, a, b) - Rank(A2, i)
    BY DEF After, A2
  <2>3. TB - Rank(B, j) <= (TA + 1) - Rank(A2, i)
    BY <1>9, <1>10
  <2> QED  BY <1>3, <2>1, <2>2, <2>3, Zenon
<1>11. UpToDate(u, t, a, b)
  BY <1>10 DEF UpToDate, A2, B
<1> QED  BY <1>8, <1>11

(* Nothing is said to either.                                              *)
LEMMA NobodyHears ==
  ASSUME NEW s, NEW t, NEW u, NEW v, NEW a, NEW b,
         HasNoMore(u, s, a, b), HasNoMore(v, t, a, b)
  PROVE  /\ SameShips(u, v, a, b) <=> SameShips(s, t, a, b)
         /\ UpToDate(u, v, a, b) <=> UpToDate(s, t, a, b)
         /\ UpToDate(v, u, a, b) <=> UpToDate(t, s, a, b)
         /\ SameEnd(u, v, a, b) <=> SameEnd(s, t, a, b)
<1> DEFINE A == ShipsOfOthers(s, a, b)
           B == ShipsOfOthers(t, a, b)
<1>1. /\ ShipsOfOthers(u, a, b) = A /\ ShipsOfOthers(v, a, b) = B
      /\ \A i \in A : u[i] = s[i] /\ After(u, a, b, i) = After(s, a, b, i)
      /\ \A j \in B : v[j] = t[j] /\ After(v, a, b, j) = After(t, a, b, j)
  BY DEF HasNoMore, After
<1> HIDE DEF A, B
<1>2. SameShips(u, v, a, b) <=> SameShips(s, t, a, b)
  BY <1>1 DEF SameShips, A, B
<1>3. UpToDate(u, v, a, b) <=> UpToDate(s, t, a, b)
  BY <1>1 DEF UpToDate, A, B
<1>4. UpToDate(v, u, a, b) <=> UpToDate(t, s, a, b)
  BY <1>1 DEF UpToDate, A, B
<1>5. SameEnd(u, v, a, b) <=> SameEnd(s, t, a, b)
  BY <1>1 DEF SameEnd, A, B
<1> QED  BY <1>2, <1>3, <1>4, <1>5

LEMMA SameShipsSymmetric ==
  ASSUME NEW s, NEW t, NEW a, NEW b, SameShips(s, t, a, b)
  PROVE  SameShips(t, s, a, b)
<1> DEFINE A == ShipsOfOthers(s, a, b)
           B == ShipsOfOthers(t, a, b)
<1>1. \A i, m \in A, j, n \in B : s[i] = t[j] =>
        (s[m] = t[n] <=> Rank(A, m) - Rank(A, i) = Rank(B, n) - Rank(B, j))
  BY DEF SameShips
<1> HIDE DEF A, B
<1>2. ASSUME NEW i \in B, NEW m \in B, NEW j \in A, NEW n \in A, t[i] = s[j]
      PROVE  t[m] = s[n] <=> Rank(B, m) - Rank(B, i) = Rank(A, n) - Rank(A, j)
  <2>1. s[j] = t[i]
    BY <1>2
  <2>2. s[n] = t[m] <=> Rank(A, n) - Rank(A, j) = Rank(B, m) - Rank(B, i)
    BY <1>1, <2>1
  <2> QED  BY <2>2, Zenon
<1> QED  BY <1>2 DEF SameShips, A, B

-----------------------------------------------------------------------------
(* One conversation.                                                       *)

(* Two registered clients have last been sent the same ships; and nobody   *)
(* has been sent more than a registered client, since a ship both have.    *)
VInv ==
  \A a, b \in Conns :
    /\ SameShips(sent[a], sent[b], a, b)
    /\ a \in clients_ => UpToDate(sent[a], sent[b], a, b)
    /\ b \in clients_ => UpToDate(sent[b], sent[a], a, b)
    /\ {a, b} \subseteq clients_ => SameEnd(sent[a], sent[b], a, b)

LEMMA InitVInv == Init => VInv
<1> SUFFICES ASSUME Init, NEW a \in Conns, NEW b \in Conns
             PROVE  /\ SameShips(sent[a], sent[b], a, b)
                    /\ UpToDate(sent[a], sent[b], a, b)
                    /\ UpToDate(sent[b], sent[a], a, b)
                    /\ SameEnd(sent[a], sent[b], a, b)
  BY DEF VInv
<1>1. Len(sent[a]) = 0
  BY EmptySeq DEF Init
<1>2. ShipsOfOthers(sent[a], a, b) = {}
  BY <1>1 DEF ShipsOfOthers
<1> QED  BY <1>2 DEF SameShips, UpToDate, SameEnd

(* A ship goes to every registered client but its author.                  *)
LEMMA VInvSaid ==
  ASSUME TypeOK, VInv, NEW R \in SUBSET Conns, NEW m \in Messages, Send(R, m),
         UNCHANGED clients_,
         IsShip(m) => R = clients_ \ {m.ship.from},
         IsShip(m) => \A d \in Conns : \A i \in 1 .. Len(sent[d]) :
                        sent[d][i] # m
  PROVE  VInv'
<1> SUFFICES ASSUME NEW a \in Conns, NEW b \in Conns
             PROVE  /\ SameShips(sent'[a], sent'[b], a, b)
                    /\ a \in clients_ => UpToDate(sent'[a], sent'[b], a, b)
                    /\ b \in clients_ => UpToDate(sent'[b], sent'[a], a, b)
                    /\ {a, b} \subseteq clients_ =>
                         SameEnd(sent'[a], sent'[b], a, b)
  BY DEF VInv
<1> DEFINE ship == IsShip(m) /\ m.ship.from \notin {a, b}
<1>1. sent[a] \in Seq(Messages) /\ sent[b] \in Seq(Messages)
  BY DEF TypeOK
<1>2. /\ SameShips(sent[a], sent[b], a, b)
      /\ a \in clients_ => UpToDate(sent[a], sent[b], a, b)
      /\ b \in clients_ => UpToDate(sent[b], sent[a], a, b)
      /\ {a, b} \subseteq clients_ => SameEnd(sent[a], sent[b], a, b)
  BY DEF VInv
<1>3. ASSUME NEW c \in {a, b}
      PROVE  IF ship /\ c \in R THEN HasOneMore(sent'[c], sent[c], m, a, b)
                                ELSE HasNoMore(sent'[c], sent[c], a, b)
  <2>1. CASE c \in R
    <3>1. sent'[c] = Append(sent[c], m)
      BY <2>1 DEF Send
    <3> QED  BY <1>1, <2>1, <3>1, MessageMore
  <2>2. CASE c \notin R
    <3>1. sent'[c] = sent[c]
      BY <2>2 DEF Send
    <3> QED  BY <2>2, <3>1 DEF HasNoMore
  <2> QED  BY <2>1, <2>2
<1>4. ship => /\ a \in R <=> a \in clients_
              /\ b \in R <=> b \in clients_
              /\ \A i \in 1 .. Len(sent[a]) : sent[a][i] # m
              /\ \A i \in 1 .. Len(sent[b]) : sent[b][i] # m
  OBVIOUS
<1> HIDE DEF ship
<1>5. CASE ~ship \/ (a \notin R /\ b \notin R)
  <2>1. /\ HasNoMore(sent'[a], sent[a], a, b)
        /\ HasNoMore(sent'[b], sent[b], a, b)
    BY <1>3, <1>5
  <2> QED  BY <1>2, <2>1, NobodyHears
<1>6. CASE ship /\ a \in R /\ b \in R
  <2>1. /\ HasOneMore(sent'[a], sent[a], m, a, b)
        /\ HasOneMore(sent'[b], sent[b], m, a, b)
    BY <1>3, <1>6
  <2> QED  BY <1>1, <1>2, <1>4, <1>6, <2>1, BothHear
<1>7. CASE ship /\ a \in R /\ b \notin R
  <2>1. /\ HasOneMore(sent'[a], sent[a], m, a, b)
        /\ sent'[b] = sent[b]
    BY <1>3, <1>7 DEF Send
  <2> QED  BY <1>1, <1>2, <1>4, <1>7, <2>1, OneHears
<1>8. CASE ship /\ a \notin R /\ b \in R
  <2>1. /\ HasOneMore(sent'[b], sent[b], m, a, b)
        /\ sent'[a] = sent[a]
    BY <1>3, <1>8 DEF Send
  <2>2. SameShips(sent[b], sent[a], a, b)
    BY <1>2, SameShipsSymmetric
  <2>3. /\ SameShips(sent'[b], sent'[a], a, b)
        /\ UpToDate(sent'[b], sent'[a], a, b)
    BY <1>1, <1>2, <1>4, <1>8, <2>1, <2>2, OneHears
  <2>4. SameShips(sent'[a], sent'[b], a, b)
    BY <2>3, SameShipsSymmetric
  <2> QED  BY <1>4, <1>8, <2>3, <2>4
<1> QED  BY <1>5, <1>6, <1>7, <1>8

LEMMA VInvMoved ==
  ASSUME VInv, UNCHANGED sent,
         \A d \in Conns : d \in clients_' => d \in clients_ \/ sent[d] = <<>>
  PROVE  VInv'
<1> SUFFICES ASSUME NEW a \in Conns, NEW b \in Conns
             PROVE  /\ SameShips(sent[a], sent[b], a, b)
                    /\ a \in clients_' => UpToDate(sent[a], sent[b], a, b)
                    /\ b \in clients_' => UpToDate(sent[b], sent[a], a, b)
                    /\ {a, b} \subseteq clients_' =>
                         SameEnd(sent[a], sent[b], a, b)
  BY DEF VInv
<1>1. ASSUME NEW c \in {a, b}, sent[c] = <<>>
      PROVE  /\ UpToDate(sent[a], sent[b], a, b)
             /\ UpToDate(sent[b], sent[a], a, b)
             /\ SameEnd(sent[a], sent[b], a, b)
  <2>1. Len(sent[c]) = 0
    BY <1>1, EmptySeq
  <2>2. ShipsOfOthers(sent[c], a, b) = {}
    BY <2>1 DEF ShipsOfOthers
  <2> QED  BY <2>2 DEF UpToDate, SameEnd
<1> QED  BY <1>1 DEF VInv

LEMMA CallVInv ==
  ASSUME IInv, RInv, VInv, NEW c \in Conns, OnFrameData(c)
  PROVE  VInv'
<1> USE DEF IInv
<1> DEFINE n == Len(requests[c])
           ship == [from |-> c, no |-> n + 1]
<1>1. PICK r \in Calls : Process(c, r, ship)
  BY DEF OnFrameData, BeforeProcess
<1>2. n \in Nat /\ c \in clients_ /\ ship \in Ships
  BY LenProperties DEF OnFrameData, ChainIffRegistered, TypeOK, Ships
<1>3. ship.from = c /\ ship.no = n + 1
  OBVIOUS
<1>4. clients_' = clients_ /\ clients_ \subseteq Conns
  BY DEF OnFrameData, TypeOK
<1> HIDE DEF ship
<1>5. PICK R \in SUBSET clients_, m \in Messages :
        /\ Send(R, m)
        /\ IsShip(m) => m.ship = ship /\ R = clients_ \ {c}
  BY <1>1, <1>2, CallEffect
<1>6. ASSUME IsShip(m), NEW d \in Conns, NEW i \in 1 .. Len(sent[d])
      PROVE  sent[d][i] # m
  <2> SUFFICES ASSUME sent[d][i] = m PROVE FALSE
    OBVIOUS
  <2>1. sent[d][i].ship.no <= Len(requests[sent[d][i].ship.from])
    BY <1>6 DEF RInv, ShipsNumbered
  <2>2. n + 1 <= n
    BY <1>3, <1>5, <1>6, <2>1
  <2> QED  BY <1>2, <2>2
<1>7. IsShip(m) => R = clients_ \ {m.ship.from}
  BY <1>3, <1>5
<1> QED  BY <1>4, <1>5, <1>6, <1>7, VInvSaid

LEMMA NextVInv == IInv /\ RInv /\ VInv /\ [Next]_vars => VInv'
<1> SUFFICES ASSUME IInv, RInv, VInv, [Next]_vars PROVE VInv'
  OBVIOUS
<1> USE DEF readVars, writeVars, mixinVars, logVars
<1>1. ASSUME NEW c \in Conns, OnFrameData(c) PROVE VInv'
  BY <1>1, CallVInv
<1>2. ASSUME NEW c \in Conns, Accept(c) PROVE VInv'
  <2>1. /\ UNCHANGED sent /\ clients_' = clients_ \cup {c}
        /\ phase[c] = "backlog"
    BY <1>2 DEF Accept
  <2>2. sent[c] = <<>>
    BY <2>1 DEF IInv, NothingBeforeAccept
  <2> QED  BY <2>1, <2>2, VInvMoved
<1>3. ASSUME UNCHANGED sent, clients_' \subseteq clients_ PROVE VInv'
  BY <1>3, VInvMoved
<1>4. ASSUME NEW d \in Conns,
             \/ Connect(d) \/ PeerLost(d) \/ FrameSizeArrives(d)
             \/ FrameDataArrives(d) \/ ReadFails(d)
             \/ WriteSucceeds(d) \/ WriteFails(d) \/ TimesOut(d)
             \/ OnFrameSize(d) \/ OnReadError(d)
             \/ OnWriteOk(d) \/ OnWriteError(d)
      PROVE  UNCHANGED sent /\ clients_' \subseteq clients_
  BY <1>4 DEF Connect, PeerLost, FrameSizeArrives, FrameDataArrives,
       ReadFails, WriteSucceeds, WriteFails, TimesOut, OnFrameSize,
       OnReadError, OnWriteOk, OnWriteError
<1>5. AcceptError \/ UNCHANGED vars =>
        UNCHANGED sent /\ clients_' \subseteq clients_
  BY DEF AcceptError, vars
<1> QED  BY <1>1, <1>2, <1>3, <1>4, <1>5
         DEF Next, Reactor, Handler, PeerDown, PeerVanishes

(* Of what they were sent, two clients have received the beginning.        *)
LEMMA HeardShips ==
  ASSUME IInv, StreamIntegrity, NEW c \in Conns, NEW a, NEW b
  PROVE  /\ ShipsOfOthers(delivered[c], a, b) \subseteq
               ShipsOfOthers(sent[c], a, b)
         /\ \A i \in ShipsOfOthers(delivered[c], a, b) :
              /\ delivered[c][i] = sent[c][i]
              /\ Rank(ShipsOfOthers(delivered[c], a, b), i) =
                   Rank(ShipsOfOthers(sent[c], a, b), i)
<1> DEFINE D == ShipsOfOthers(delivered[c], a, b)
           O == ShipsOfOthers(sent[c], a, b)
<1>1. Len(delivered[c]) \in Nat /\ Len(sent[c]) \in Nat
  BY LenProperties DEF IInv, TypeOK
<1>2. \A i \in 1 .. Len(delivered[c]) :
        i \in 1 .. Len(sent[c]) /\ delivered[c][i] = sent[c][i]
  BY Received
<1>3. \A i \in 1 .. Len(delivered[c]) : i \in D <=> i \in O
  BY <1>2 DEF ShipsOfOthers
<1>4. D \subseteq 1 .. Len(delivered[c]) /\ O \subseteq 1 .. Len(sent[c])
  BY DEF ShipsOfOthers
<1> HIDE DEF D, O
<1>5. D \subseteq O
  BY <1>3, <1>4
<1>6. ASSUME NEW i \in D PROVE Rank(D, i) = Rank(O, i)
  <2>1. \A k \in O : k <= i => k \in 1 .. Len(delivered[c])
    BY <1>1, <1>4
  <2>2. {k \in D : k <= i} = {k \in O : k <= i}
    BY <1>3, <1>5, <2>1
  <2> QED  BY <2>2 DEF Rank
<1> QED  BY <1>2, <1>4, <1>5, <1>6 DEF D, O

LEMMA HeardAlike == IInv /\ StreamIntegrity /\ VInv => OneConversation
<1> SUFFICES ASSUME IInv, StreamIntegrity, VInv,
                    NEW a \in Conns, NEW b \in Conns
             PROVE  SameShips(delivered[a], delivered[b], a, b)
  BY DEF OneConversation, SameShips
<1> DEFINE A == ShipsOfOthers(sent[a], a, b)
           B == ShipsOfOthers(sent[b], a, b)
           D == ShipsOfOthers(delivered[a], a, b)
           E == ShipsOfOthers(delivered[b], a, b)
<1>1. /\ D \subseteq A
      /\ \A i \in D : delivered[a][i] = sent[a][i] /\ Rank(D, i) = Rank(A, i)
  BY HeardShips
<1>2. /\ E \subseteq B
      /\ \A j \in E : delivered[b][j] = sent[b][j] /\ Rank(E, j) = Rank(B, j)
  BY HeardShips
<1>3. \A i, m \in A, j, n \in B : sent[a][i] = sent[b][j] =>
        (sent[a][m] = sent[b][n]
           <=> Rank(A, m) - Rank(A, i) = Rank(B, n) - Rank(B, j))
  BY DEF VInv, SameShips
<1> HIDE DEF A, B, D, E
<1>4. ASSUME NEW i \in D, NEW m \in D, NEW j \in E, NEW n \in E,
             delivered[a][i] = delivered[b][j]
      PROVE  delivered[a][m] = delivered[b][n]
               <=> Rank(D, m) - Rank(D, i) = Rank(E, n) - Rank(E, j)
  <2>1. sent[a][i] = sent[b][j] /\ i \in A /\ m \in A /\ j \in B /\ n \in B
    BY <1>1, <1>2, <1>4
  <2>2. sent[a][m] = sent[b][n]
          <=> Rank(A, m) - Rank(A, i) = Rank(B, n) - Rank(B, j)
    BY <1>3, <2>1
  <2> QED  BY <1>1, <1>2, <2>2, Zenon
<1> QED  BY <1>4 DEF SameShips, D, E

(* All clients hear the same conversation.                                 *)
THEOREM OneConversationCorrect == Spec => []OneConversation
BY InitIInv, NextIInv, InitRInv, NextRInv, StreamInit, StreamNext,
   InitVInv, NextVInv, HeardAlike, PTL DEF Spec

-----------------------------------------------------------------------------
(* Answers.                                                                *)

(* As many answers were sent as calls were made that are always answered,  *)
(* and each is that of its call.                                           *)
AInv ==
  \A c \in Conns :
    /\ Rank(AnswersAmong(sent[c]), Len(sent[c])) =
         Rank(AnswerableCalls(requests[c]), Len(requests[c]))
    /\ \A i \in AnswersAmong(sent[c]) :
         \E n \in AnswerableCalls(requests[c]) :
           /\ Rank(AnswerableCalls(requests[c]), n) =
                Rank(AnswersAmong(sent[c]), i)
           /\ sent[c][i].reply = ReplyTo(requests[c][n])

LEMMA InitAInv == Init => AInv
<1> SUFFICES ASSUME Init, NEW c \in Conns
             PROVE  /\ AnswersAmong(sent[c]) = {}
                    /\ AnswerableCalls(requests[c]) = {}
                    /\ Len(sent[c]) = Len(requests[c])
  BY DEF AInv
<1>1. Len(sent[c]) = 0 /\ Len(requests[c]) = 0
  BY EmptySeq DEF Init
<1> QED  BY <1>1 DEF AnswersAmong, AnswerableCalls

(* P are the positions A in s and the last one of u, ...                   *)
Grown(u, P, s, A) ==
  /\ P = A \cup {Len(s) + 1}
  /\ \A i \in A : u[i] = s[i] /\ Rank(P, i) = Rank(A, i)
  /\ Rank(P, Len(s) + 1) = Rank(A, Len(s)) + 1
  /\ Rank(P, Len(u)) = Rank(A, Len(s)) + 1

(* ... or just those in s.                                                 *)
Kept(u, P, s, A) ==
  /\ P = A
  /\ \A i \in A : u[i] = s[i]
  /\ Rank(P, Len(u)) = Rank(A, Len(s))

LEMMA OneLonger ==
  ASSUME NEW S, NEW s \in Seq(S), NEW e \in S, NEW A \in SUBSET (1 .. Len(s))
  PROVE  /\ Grown(Append(s, e), A \cup {Len(s) + 1}, s, A)
         /\ Kept(Append(s, e), A, s, A)
<1> DEFINE n == Len(s)
           u == Append(s, e)
<1>1. n \in Nat
  BY LenProperties
<1>2. Len(u) = n + 1 /\ \A i \in 1 .. n : u[i] = s[i]
  BY AppendProperties
<1> HIDE DEF n, u
<1>3. A \in SUBSET (1 .. n)
  BY DEF n
<1>4. /\ Rank(A, n + 1) = Rank(A, n)
      /\ Rank(A \cup {n + 1}, n + 1) = Rank(A, n) + 1
      /\ \A i \in 1 .. n : Rank(A \cup {n + 1}, i) = Rank(A, i)
  BY <1>1, <1>3, RankNext
<1>5. \A i \in A : u[i] = s[i] /\ Rank(A \cup {n + 1}, i) = Rank(A, i)
  BY <1>2, <1>3, <1>4
<1>6. Grown(u, A \cup {n + 1}, s, A) /\ Kept(u, A, s, A)
  BY <1>2, <1>4, <1>5 DEF Grown, Kept, n
<1> QED  BY <1>6 DEF u, n

(* One more message, one more call: of the kind that counts or not.        *)
LEMMA AnswerMore ==
  ASSUME NEW s \in Seq(Messages), NEW m \in Messages
  PROVE  LET u == Append(s, m)
         IN  IF m.reply \in Answers
               THEN /\ Grown(u, AnswersAmong(u), s, AnswersAmong(s))
                    /\ u[Len(s) + 1] = m
               ELSE Kept(u, AnswersAmong(u), s, AnswersAmong(s))
<1> DEFINE n == Len(s)
           u == Append(s, m)
           A == AnswersAmong(s)
           P == AnswersAmong(u)
<1>1. n \in Nat /\ A \in SUBSET (1 .. n)
  BY LenProperties DEF AnswersAmong
<1>2. /\ Len(u) = n + 1 /\ u[n + 1] = m
      /\ \A i \in 1 .. n : u[i] = s[i]
  BY AppendProperties
<1>3. 1 .. (n + 1) = (1 .. n) \cup {n + 1}
  BY <1>1
<1>4. Grown(u, A \cup {n + 1}, s, A) /\ Kept(u, A, s, A)
  BY <1>1, OneLonger
<1> HIDE DEF u
<1>5. \A i : i \in P <=> i \in A \/ (i = n + 1 /\ m.reply \in Answers)
  BY <1>1, <1>2, <1>3 DEF AnswersAmong
<1>6. /\ m.reply \in Answers => P = A \cup {n + 1}
      /\ m.reply \notin Answers => P = A
  BY <1>5
<1> QED  BY <1>2, <1>4, <1>6, Zenon DEF u

LEMMA CallMore ==
  ASSUME NEW s \in Seq(Calls), NEW r \in Calls
  PROVE  LET u == Append(s, r)
         IN  IF r.call \in AlwaysAnswered
               THEN /\ Grown(u, AnswerableCalls(u), s, AnswerableCalls(s))
                    /\ u[Len(s) + 1] = r
               ELSE Kept(u, AnswerableCalls(u), s, AnswerableCalls(s))
<1> DEFINE n == Len(s)
           u == Append(s, r)
           A == AnswerableCalls(s)
           P == AnswerableCalls(u)
<1>1. n \in Nat /\ A \in SUBSET (1 .. n)
  BY LenProperties DEF AnswerableCalls
<1>2. /\ Len(u) = n + 1 /\ u[n + 1] = r
      /\ \A i \in 1 .. n : u[i] = s[i]
  BY AppendProperties
<1>3. 1 .. (n + 1) = (1 .. n) \cup {n + 1}
  BY <1>1
<1>4. Grown(u, A \cup {n + 1}, s, A) /\ Kept(u, A, s, A)
  BY <1>1, OneLonger
<1> HIDE DEF u
<1>5. \A i : i \in P <=> i \in A \/ (i = n + 1 /\ r.call \in AlwaysAnswered)
  BY <1>1, <1>2, <1>3 DEF AnswerableCalls
<1>6. /\ r.call \in AlwaysAnswered => P = A \cup {n + 1}
      /\ r.call \notin AlwaysAnswered => P = A
  BY <1>5
<1> QED  BY <1>2, <1>4, <1>6, Zenon DEF u

(* A call is answered to the caller, or nobody is sent an answer.          *)
LEMMA CallAnswer ==
  ASSUME NEW c \in clients_, NEW r \in Calls, NEW ship \in Ships, TypeOK,
         Process(c, r, ship)
  PROVE  \E R \in SUBSET clients_, m \in Messages :
           /\ Send(R, m)
           /\ IF r.call \in AlwaysAnswered
                THEN /\ R = {c} /\ m.reply \in Answers
                     /\ m.reply = ReplyTo(r)
                ELSE m.reply \notin Answers
<1>1. r \in TalkServerCalls
  BY CallsAssumption
<1>2. \A a \in Replies : [reply |-> a] \in Messages
  BY DEF Messages
<1>3. CASE r.call = "postShip"
  <2> DEFINE m == [reply |-> "on_subscribeShip", name |-> user_name[c],
                   ship |-> ship]
  <2>1. m \in Messages /\ m.reply \notin Answers
    BY DEF Messages, TypeOK, Answers
  <2>2. Send(clients_ \ {c}, m)
    BY <1>3 DEF Process, postShip
  <2> HIDE DEF m
  <2> QED  BY <1>3, <2>1, <2>2 DEF AlwaysAnswered
<1>4. CASE r.call = "setUserName"
  <2>1. setUserName(c, r.name)
    BY <1>4 DEF Process
  <2> QED  BY <1>2, <1>4, <2>1 DEF setUserName, Replies, Answers, AlwaysAnswered
<1>5. CASE r.call = "getVersion"
  BY <1>2, <1>5 DEF Process, getVersion, Replies, Answers, AlwaysAnswered, ReplyTo
<1>6. CASE r.call = "subscribe"
  BY <1>2, <1>6 DEF Process, subscribe, Replies, Answers, AlwaysAnswered, ReplyTo
<1>7. CASE r.call = "unsubscribe"
  BY <1>2, <1>7 DEF Process, unsubscribe, Replies, Answers, AlwaysAnswered, ReplyTo
<1> QED  BY <1>1, <1>3, <1>4, <1>5, <1>6, <1>7 DEF TalkServerCalls

LEMMA CallAInv ==
  ASSUME IInv, AInv, NEW c \in Conns, OnFrameData(c)
  PROVE  AInv'
<1> USE DEF IInv
<1> DEFINE ship == [from |-> c, no |-> Len(requests[c]) + 1]
<1>1. PICK r \in Calls : /\ Process(c, r, ship)
                         /\ requests' = [requests EXCEPT ![c] = Append(@, r)]
  BY DEF OnFrameData, BeforeProcess
<1>2. c \in clients_ /\ ship \in Ships
  BY LenProperties DEF OnFrameData, ChainIffRegistered, TypeOK, Ships
<1> HIDE DEF ship
<1>3. PICK R \in SUBSET clients_, m \in Messages :
        /\ Send(R, m)
        /\ IF r.call \in AlwaysAnswered
             THEN R = {c} /\ m.reply \in Answers /\ m.reply = ReplyTo(r)
             ELSE m.reply \notin Answers
  BY <1>1, <1>2, CallAnswer
<1> SUFFICES ASSUME NEW d \in Conns
             PROVE  /\ Rank(AnswersAmong(sent'[d]), Len(sent'[d])) =
                         Rank(AnswerableCalls(requests'[d]), Len(requests'[d]))
                    /\ \A i \in AnswersAmong(sent'[d]) :
                         \E n \in AnswerableCalls(requests'[d]) :
                           /\ Rank(AnswerableCalls(requests'[d]), n) =
                                Rank(AnswersAmong(sent'[d]), i)
                           /\ sent'[d][i].reply = ReplyTo(requests'[d][n])
  BY DEF AInv
<1> DEFINE A  == AnswersAmong(sent[d])
           A2 == AnswersAmong(sent'[d])
           Q  == AnswerableCalls(requests[d])
           Q2 == AnswerableCalls(requests'[d])
           TA == Rank(A, Len(sent[d]))
           TQ == Rank(Q, Len(requests[d]))
<1>4. /\ sent[d] \in Seq(Messages) /\ requests[d] \in Seq(Calls)
      /\ Len(sent[d]) \in Nat /\ Len(requests[d]) \in Nat
  BY LenProperties DEF TypeOK
<1>5. /\ TA = TQ
      /\ \A i \in A : \E n \in Q : /\ Rank(Q, n) = Rank(A, i)
                                   /\ sent[d][i].reply = ReplyTo(requests[d][n])
  BY DEF AInv
<1>6. sent'[d] = IF d \in R THEN Append(sent[d], m) ELSE sent[d]
  BY <1>3 DEF Send
<1>7. requests'[d] = IF d = c THEN Append(requests[d], r) ELSE requests[d]
  BY <1>1 DEF TypeOK
<1>8. CASE d = c /\ r.call \in AlwaysAnswered
  <2>1. /\ sent'[d] = Append(sent[d], m) /\ requests'[d] = Append(requests[d], r)
        /\ m.reply \in Answers /\ m.reply = ReplyTo(r)
    BY <1>3, <1>6, <1>7, <1>8
  <2>2. Grown(sent'[d], A2, sent[d], A) /\ sent'[d][Len(sent[d]) + 1] = m
    BY <1>4, <2>1, AnswerMore
  <2>3. /\ Grown(requests'[d], Q2, requests[d], Q)
        /\ requests'[d][Len(requests[d]) + 1] = r
    BY <1>4, <1>8, <2>1, CallMore
  <2> HIDE DEF A, A2, Q, Q2
  <2>4. ASSUME NEW i \in A2
        PROVE  \E n \in Q2 : /\ Rank(Q2, n) = Rank(A2, i)
                             /\ sent'[d][i].reply = ReplyTo(requests'[d][n])
    <3>1. CASE i \in A
      BY ZenonT(60), <1>5, <2>2, <2>3, <3>1 DEF Grown
    <3>2. CASE i = Len(sent[d]) + 1
      BY <1>5, <2>1, <2>2, <2>3, <3>2 DEF Grown
    <3> QED  BY <2>2, <3>1, <3>2 DEF Grown
  <2> QED  BY <1>5, <2>2, <2>3, <2>4 DEF A2, Q2, Grown
<1>9. CASE ~(d = c /\ r.call \in AlwaysAnswered)
  <2>1. Kept(sent'[d], A2, sent[d], A)
    <3>1. CASE d \in R
      <4>1. sent'[d] = Append(sent[d], m) /\ m.reply \notin Answers
        BY <1>3, <1>6, <1>9, <3>1
      <4> QED  BY <1>4, <4>1, AnswerMore
    <3>2. CASE d \notin R
      BY <1>6, <3>2 DEF Kept
    <3> QED  BY <3>1, <3>2
  <2>2. Kept(requests'[d], Q2, requests[d], Q)
    <3>1. CASE d = c
      <4>1. requests'[d] = Append(requests[d], r) /\ r.call \notin AlwaysAnswered
        BY <1>7, <1>9, <3>1
      <4> QED  BY <1>4, <4>1, CallMore
    <3>2. CASE d # c
      BY <1>7, <3>2 DEF Kept
    <3> QED  BY <3>1, <3>2
  <2> HIDE DEF A, A2, Q, Q2
  <2>3. \A i \in A2 : \E n \in Q2 : /\ Rank(Q2, n) = Rank(A2, i)
                                    /\ sent'[d][i].reply = ReplyTo(requests'[d][n])
    BY <1>5, <2>1, <2>2 DEF Kept
  <2> QED  BY <1>5, <2>1, <2>2, <2>3 DEF A2, Q2, Kept
<1> QED  BY <1>8, <1>9

LEMMA NextAInv == IInv /\ AInv /\ [Next]_vars => AInv'
<1> SUFFICES ASSUME IInv, AInv, [Next]_vars PROVE AInv'
  OBVIOUS
<1> USE DEF readVars, writeVars, mixinVars, logVars
<1>1. ASSUME NEW c \in Conns, OnFrameData(c) PROVE AInv'
  BY <1>1, CallAInv
<1>2. ASSUME UNCHANGED <<requests, sent>> PROVE AInv'
  BY <1>2 DEF AInv
<1>3. ASSUME NEW d \in Conns,
             \/ Connect(d) \/ PeerLost(d) \/ FrameSizeArrives(d)
             \/ FrameDataArrives(d) \/ ReadFails(d)
             \/ WriteSucceeds(d) \/ WriteFails(d) \/ TimesOut(d)
             \/ Accept(d) \/ OnFrameSize(d) \/ OnReadError(d)
             \/ OnWriteOk(d) \/ OnWriteError(d)
      PROVE  UNCHANGED <<requests, sent>>
  BY <1>3 DEF Connect, PeerLost, FrameSizeArrives, FrameDataArrives,
       ReadFails, WriteSucceeds, WriteFails, TimesOut, Accept, OnFrameSize,
       OnReadError, OnWriteOk, OnWriteError
<1>4. AcceptError \/ UNCHANGED vars => UNCHANGED <<requests, sent>>
  BY DEF AcceptError, vars
<1> QED  BY <1>1, <1>2, <1>3, <1>4
         DEF Next, Reactor, Handler, PeerDown, PeerVanishes

LEMMA HeardAnswers == IInv /\ StreamIntegrity /\ AInv => AnswersInOrder
<1> SUFFICES ASSUME IInv, StreamIntegrity, AInv, NEW c \in Conns,
                    NEW i \in AnswersAmong(delivered[c])
             PROVE  /\ i \in AnswersAmong(sent[c])
                    /\ delivered[c][i] = sent[c][i]
                    /\ Rank(AnswersAmong(delivered[c]), i) =
                         Rank(AnswersAmong(sent[c]), i)
  BY DEF AInv, AnswersInOrder
<1>1. Len(delivered[c]) \in Nat /\ Len(sent[c]) \in Nat
  BY LenProperties DEF IInv, TypeOK
<1>2. \A k \in 1 .. Len(delivered[c]) :
        k \in 1 .. Len(sent[c]) /\ delivered[c][k] = sent[c][k]
  BY Received
<1>3. i \in 1 .. Len(delivered[c])
  BY DEF AnswersAmong
<1>4. \A k \in 1 .. Len(delivered[c]) :
        k \in AnswersAmong(delivered[c]) <=> k \in AnswersAmong(sent[c])
  BY <1>2 DEF AnswersAmong
<1>5. \A k \in AnswersAmong(sent[c]) :
        k <= i => k \in 1 .. Len(delivered[c])
  BY <1>1, <1>3 DEF AnswersAmong
<1>6. AnswersAmong(delivered[c]) \subseteq 1 .. Len(delivered[c])
  BY DEF AnswersAmong
<1>7. {k \in AnswersAmong(delivered[c]) : k <= i} =
        {k \in AnswersAmong(sent[c]) : k <= i}
  BY <1>4, <1>5, <1>6
<1> QED  BY <1>2, <1>3, <1>4, <1>7 DEF Rank

(* The answers a client receives are those to its own calls, in order.     *)
THEOREM AnswersCorrect == Spec => []AnswersInOrder
BY InitIInv, NextIInv, StreamInit, StreamNext, InitAInv, NextAInv,
   HeardAnswers, PTL DEF Spec
=============================================================================
