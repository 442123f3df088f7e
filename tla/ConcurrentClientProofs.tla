----------------------- MODULE ConcurrentClientProofs -----------------------
(***************************************************************************)
(* Proofs about ConcurrentClient, for any threads and scripts.             *)
(***************************************************************************)
EXTENDS ConcurrentClient, SequenceTheorems, FiniteSetTheorems,
        WellFoundedInduction, TLAPS

Tokens == {Begin(m) : m \in Calls} \cup ArgTokens

Whole(f) == \E m \in Calls : f = <<Begin(m)>> \o m.frame

Types ==
  /\ script \in [Threads -> Seq(Calls)]
  /\ todo \in [Threads -> Seq(ArgTokens)]
  /\ phase \in [Threads -> {"idle", "args", "flushed"}]
  /\ wBuf_ \in Seq(Tokens)
  /\ wire \in Seq(Seq(Tokens))

(* Only the thread that holds the mutex is in a call.                      *)
Exclusive == \A t \in Threads : phase[t] # "idle" <=> sync_ = t

(* What is in the buffer, with what its writer has yet to write, is one    *)
(* call.                                                                   *)
BufferOfWriter ==
  /\ \A t \in Threads : phase[t] = "args" => Whole(wBuf_ \o todo[t])
  /\ (\A t \in Threads : phase[t] # "args") => wBuf_ = <<>>

WireWhole == \A i \in 1 .. Len(wire) : Whole(wire[i])

SInv == Types /\ Exclusive /\ BufferOfWriter /\ WireWhole

(* A frame that is whole is that of the call it begins with.               *)
LEMMA WholeFrame ==
  ASSUME NEW m \in Calls
  PROVE  /\ <<Begin(m)>> \o m.frame \in Seq(Tokens)
         /\ Head(<<Begin(m)>> \o m.frame).message = m
<1>1. m.frame \in Seq(Tokens)
  <2>1. m.frame \in Seq(ArgTokens)
    BY ScriptsAssumption
  <2> QED  BY <2>1 DEF Tokens
<1>2. Begin(m) \in Tokens
  BY DEF Tokens
<1>3. <<Begin(m)>> \in Seq(Tokens) /\ Len(<<Begin(m)>>) = 1
  BY <1>2
<1> DEFINE b == <<Begin(m)>>
           f == b \o m.frame
<1>4. b[1] = Begin(m)
  OBVIOUS
<1> HIDE DEF b
<1>5. /\ f \in Seq(Tokens) /\ Len(f) = 1 + Len(m.frame)
      /\ \A i \in 1 .. 1 + Len(m.frame) :
           f[i] = IF i <= 1 THEN b[i] ELSE m.frame[i - 1]
  BY <1>1, <1>3, ConcatProperties DEF b
<1>6. Len(m.frame) \in Nat
  BY <1>1, LenProperties
<1>7. f[1] = Begin(m) /\ f # <<>>
  BY <1>4, <1>5, <1>6
<1>8. Head(f) = Begin(m)
  BY <1>5, <1>7
<1>9. Begin(m).message = m
  BY DEF Begin
<1> QED  BY <1>5, <1>8, <1>9 DEF b

(* Writing a token moves it from what is left to the buffer.               *)
LEMMA WriteToken ==
  ASSUME NEW S, NEW u \in Seq(S), NEW v \in Seq(S), v # <<>>
  PROVE  /\ Append(u, Head(v)) \in Seq(S)
         /\ Append(u, Head(v)) \o Tail(v) = u \o v
<1>1. /\ Head(v) \in S /\ Tail(v) \in Seq(S)
      /\ Len(Tail(v)) = Len(v) - 1
      /\ \A i \in 1 .. Len(Tail(v)) : Tail(v)[i] = v[i + 1]
  BY HeadTailProperties
<1> DEFINE h == Head(v)
           r == Tail(v)
<1>2. <<h>> \o r = v
  OBVIOUS
<1>3. h \in S /\ r \in Seq(S) /\ <<h>> \in Seq(S)
  BY <1>1
<1> HIDE DEF h, r
<1>4. Append(u, h) = u \o <<h>> /\ Append(u, h) \in Seq(S)
  BY <1>3, AppendIsConcat, AppendProperties
<1>5. (u \o <<h>>) \o r = u \o (<<h>> \o r)
  BY <1>3, ConcatAssociative
<1> QED  BY <1>2, <1>4, <1>5 DEF h, r

LEMMA InitSInv == CInit => SInv
<1> SUFFICES ASSUME CInit PROVE SInv
  OBVIOUS
<1>1. script \in [Threads -> Seq(Calls)]
  BY ScriptsAssumption DEF CInit
<1>2. Types
  <2>1. <<>> \in Seq(ArgTokens) /\ <<>> \in Seq(Tokens)
        /\ <<>> \in Seq(Seq(Tokens))
    BY EmptySeq
  <2> QED  BY <1>1, <2>1 DEF CInit, Types
<1>3. Exclusive
  BY ThreadsAssumption DEF CInit, Exclusive
<1>4. BufferOfWriter
  BY DEF CInit, BufferOfWriter
<1>5. WireWhole
  BY EmptySeq DEF CInit, WireWhole
<1> QED  BY <1>2, <1>3, <1>4, <1>5 DEF SInv

(* A call begins in an empty buffer, as the mutex was free.                *)
LEMMA SendStartsStep ==
  ASSUME SInv, NEW t \in Threads, SendStarts(t)
  PROVE  SInv'
<1> DEFINE m == Head(script[t])
<1>1. /\ script[t] \in Seq(Calls) /\ script[t] # <<>>
      /\ script' = [script EXCEPT ![t] = Tail(@)]
      /\ phase[t] = "idle" /\ phase' = [phase EXCEPT ![t] = "args"]
      /\ todo' = [todo EXCEPT ![t] = m.frame]
      /\ wBuf_' = Append(wBuf_, Begin(m)) /\ wire' = wire
      /\ sync_ = NoThread /\ sync_' = t
  BY DEF SendStarts, Starts, SInv, Types
<1>2. m \in Calls /\ Tail(script[t]) \in Seq(Calls)
  BY <1>1, HeadTailProperties
<1> HIDE DEF m
<1>3. m.frame \in Seq(ArgTokens) /\ Begin(m) \in Tokens
  BY <1>2, ScriptsAssumption DEF Tokens
<1>4. \A s \in Threads : phase[s] = "idle"
  BY <1>1, ThreadsAssumption DEF SInv, Exclusive
<1>5. wBuf_' = <<Begin(m)>>
  <2>1. wBuf_ = <<>>
    BY <1>4 DEF SInv, BufferOfWriter
  <2> QED  BY <1>1, <2>1
<1>6. Types'
  <2>1. <<Begin(m)>> \in Seq(Tokens)
    BY <1>3
  <2> QED  BY <1>1, <1>2, <1>3, <1>5, <2>1 DEF SInv, Types
<1>7. Exclusive'
  BY <1>1, <1>4 DEF SInv, Types, Exclusive
<1>8. BufferOfWriter'
  <2>1. phase'[t] = "args" /\ todo'[t] = m.frame
    BY <1>1 DEF SInv, Types
  <2>2. \A s \in Threads : s # t => phase'[s] = "idle"
    BY <1>1, <1>4 DEF SInv, Types
  <2>3. Whole(wBuf_' \o todo'[t])
    BY <1>2, <1>5, <2>1 DEF Whole
  <2> QED  BY <2>1, <2>2, <2>3 DEF BufferOfWriter, Whole
<1>9. WireWhole'
  BY <1>1 DEF SInv, WireWhole, Whole
<1> QED  BY <1>6, <1>7, <1>8, <1>9 DEF SInv

LEMMA WriteArgsStep ==
  ASSUME SInv, NEW t \in Threads, WriteArgs(t)
  PROVE  SInv'
<1>1. /\ phase[t] = "args" /\ todo[t] # <<>>
      /\ todo[t] \in Seq(ArgTokens) /\ wBuf_ \in Seq(Tokens)
      /\ wBuf_' = Append(wBuf_, Head(todo[t]))
      /\ todo' = [todo EXCEPT ![t] = Tail(@)]
      /\ phase' = phase /\ sync_' = sync_ /\ script' = script /\ wire' = wire
  BY DEF WriteArgs, SInv, Types
<1>2. Tail(todo[t]) \in Seq(ArgTokens)
  BY <1>1, HeadTailProperties
<1>3. todo[t] \in Seq(Tokens)
  BY <1>1 DEF Tokens
<1>4. /\ Append(wBuf_, Head(todo[t])) \in Seq(Tokens)
      /\ Append(wBuf_, Head(todo[t])) \o Tail(todo[t]) = wBuf_ \o todo[t]
  BY <1>1, <1>3, WriteToken
<1>5. Types'
  BY <1>1, <1>2, <1>4 DEF SInv, Types
<1>6. Exclusive'
  BY <1>1 DEF SInv, Exclusive
<1>7. BufferOfWriter'
  <2>1. todo'[t] = Tail(todo[t])
    BY <1>1 DEF SInv, Types
  <2>2. Whole(wBuf_' \o todo'[t])
    BY <1>1, <1>4, <2>1 DEF SInv, BufferOfWriter
  <2>3. \A s \in Threads : s # t => phase[s] = "idle"
    BY <1>1 DEF SInv, Exclusive
  <2> QED  BY <1>1, <2>2, <2>3 DEF BufferOfWriter, Whole
<1>8. WireWhole'
  BY <1>1 DEF SInv, WireWhole, Whole
<1> QED  BY <1>5, <1>6, <1>7, <1>8 DEF SInv

LEMMA FlushStep ==
  ASSUME SInv, NEW t \in Threads, Flush(t)
  PROVE  SInv'
<1>1. /\ phase[t] = "args" /\ todo[t] = <<>>
      /\ wBuf_ \in Seq(Tokens) /\ wire \in Seq(Seq(Tokens))
      /\ wire' = Append(wire, wBuf_) /\ wBuf_' = <<>>
      /\ phase' = [phase EXCEPT ![t] = "flushed"]
      /\ sync_' = sync_ /\ script' = script /\ todo' = todo
  BY DEF Flush, SInv, Types
<1>2. /\ wire' \in Seq(Seq(Tokens)) /\ Len(wire') = Len(wire) + 1
      /\ \A i \in 1 .. Len(wire) : wire'[i] = wire[i]
      /\ wire'[Len(wire) + 1] = wBuf_ /\ Len(wire) \in Nat
  BY <1>1, AppendProperties, LenProperties
<1>3. \A s \in Threads : s # t => phase[s] = "idle"
  BY <1>1 DEF SInv, Exclusive
<1>4. /\ phase'[t] = "flushed"
      /\ \A s \in Threads : s # t => phase'[s] = "idle"
  BY <1>1, <1>3 DEF SInv, Types
<1>5. Types'
  BY <1>1, <1>2, EmptySeq DEF SInv, Types
<1>6. Exclusive'
  BY <1>1, <1>3, <1>4 DEF SInv, Exclusive
<1>7. BufferOfWriter'
  BY <1>1, <1>4 DEF BufferOfWriter
<1>8. WireWhole'
  <2>1. Whole(wBuf_ \o <<>>)
    BY <1>1 DEF SInv, BufferOfWriter
  <2>2. wBuf_ \o <<>> = wBuf_
    BY <1>1, ConcatEmptySeq
  <2>3. ASSUME NEW i \in 1 .. Len(wire') PROVE Whole(wire'[i])
    <3>1. CASE i \in 1 .. Len(wire)
      BY <1>2, <3>1 DEF SInv, WireWhole
    <3>2. CASE i = Len(wire) + 1
      BY <1>2, <2>1, <2>2, <3>2
    <3> QED  BY <1>2, <3>1, <3>2
  <2> QED  BY <2>3 DEF WireWhole, Whole
<1> QED  BY <1>5, <1>6, <1>7, <1>8 DEF SInv

LEMMA CommitStep ==
  ASSUME SInv, NEW t \in Threads, Commit(t)
  PROVE  SInv'
<1>1. /\ phase[t] = "flushed" /\ phase' = [phase EXCEPT ![t] = "idle"]
      /\ sync_' = NoThread /\ script' = script /\ todo' = todo
      /\ wBuf_' = wBuf_ /\ wire' = wire
  BY DEF Commit
<1>2. \A s \in Threads : s # t => phase[s] = "idle"
  BY <1>1 DEF SInv, Exclusive
<1>3. \A s \in Threads : phase'[s] = "idle"
  BY <1>1, <1>2 DEF SInv, Types
<1>4. wBuf_ = <<>>
  BY <1>1, <1>2 DEF SInv, BufferOfWriter
<1>5. Types'
  BY <1>1 DEF SInv, Types
<1>6. Exclusive'
  BY <1>1, <1>3, ThreadsAssumption DEF Exclusive
<1>7. BufferOfWriter'
  BY <1>1, <1>3, <1>4 DEF BufferOfWriter
<1>8. WireWhole'
  BY <1>1 DEF SInv, WireWhole, Whole
<1> QED  BY <1>5, <1>6, <1>7, <1>8 DEF SInv

LEMMA DeliverStep ==
  ASSUME SInv, Deliver
  PROVE  SInv'
<1>1. /\ wire # <<>> /\ wire \in Seq(Seq(Tokens)) /\ wire' = Tail(wire)
      /\ UNCHANGED senderVars
  BY DEF Deliver, SInv, Types
<1>2. /\ wire' \in Seq(Seq(Tokens)) /\ Len(wire') = Len(wire) - 1
      /\ \A i \in 1 .. Len(wire') : wire'[i] = wire[i + 1]
      /\ Len(wire) \in Nat
  BY <1>1, HeadTailProperties, LenProperties
<1>3. Types'
  BY <1>1, <1>2 DEF senderVars, SInv, Types
<1>4. Exclusive' /\ BufferOfWriter'
  BY <1>1 DEF senderVars, SInv, Exclusive, BufferOfWriter, Whole
<1>5. WireWhole'
  <2>1. ASSUME NEW i \in 1 .. Len(wire') PROVE Whole(wire'[i])
    <3>1. i + 1 \in 1 .. Len(wire)
      BY <1>2
    <3> QED  BY <1>2, <3>1 DEF SInv, WireWhole
  <2> QED  BY <2>1 DEF WireWhole, Whole
<1> QED  BY <1>3, <1>4, <1>5 DEF SInv

LEMMA OtherStep ==
  ASSUME SInv, UNCHANGED <<senderVars, wire>>
  PROVE  SInv'
<1>1. Types' /\ Exclusive'
  BY DEF senderVars, SInv, Types, Exclusive
<1>2. BufferOfWriter' /\ WireWhole'
  BY DEF senderVars, SInv, BufferOfWriter, WireWhole, Whole
<1> QED  BY <1>1, <1>2 DEF SInv

LEMMA NextSInv ==
  SInv /\ [Next]_<<vars, senderVars, wire, calls, taken>> => SInv'
<1> QED  BY OtherStep, SendStartsStep, WriteArgsStep, FlushStep, CommitStep,
            DeliverStep DEF Next

LEMMA SInvWhole == SInv => FramesWhole
<1> SUFFICES ASSUME SInv, NEW i \in DOMAIN wire
             PROVE  wire[i] = <<Begin(Head(wire[i]).message)>>
                                \o Head(wire[i]).message.frame
  BY DEF FramesWhole
<1>1. i \in 1 .. Len(wire)
  BY DEF SInv, Types
<1>2. PICK m \in Calls : wire[i] = <<Begin(m)>> \o m.frame
  BY <1>1 DEF SInv, WireWhole, Whole
<1>3. Head(wire[i]).message = m
  BY <1>2, WholeFrame
<1> QED  BY <1>2, <1>3

(* However many threads share a generated client, and whatever they call,  *)
(* every frame that leaves it is one call, whole: the sentry is held from  *)
(* the first token of a call until its frame is flushed.                   *)
THEOREM FramesCorrect == Spec => []FramesWhole
<1> QED  BY InitSInv, NextSInv, SInvWhole, PTL DEF Spec

-----------------------------------------------------------------------------
(* The order of the calls. What CallsInOrder says of the calls flushed f,  *)
(* the calls made c and the number n[t] of those that t has flushed.       *)
InOrder(f, c, n) ==
  \E who \in [DOMAIN f -> Threads] :
    /\ \A t \in Threads : Nth(who, t, Len(f)) = n[t]
    /\ \A i \in DOMAIN f : f[i] = c[who[i]][Nth(who, who[i], i)]

(* The calls a thread has yet to make are the last of those it makes, and  *)
(* the one it is writing is the last of the others.                        *)
Begun(t) == Len(calls[t]) - Len(script[t])

Scripted ==
  \A t \in Threads :
    /\ Begun(t) \in Nat
    /\ \A k \in 1 .. Len(script[t]) : script[t][k] = calls[t][Begun(t) + k]
    /\ phase[t] = "args" =>
         /\ Begun(t) \in 1 .. Len(calls[t])
         /\ wBuf_ \o todo[t]
              = <<Begin(calls[t][Begun(t)])>> \o calls[t][Begun(t)].frame

Histories == taken \in Seq(Calls) /\ calls \in [Threads -> Seq(Calls)]

OInv == SInv /\ Histories /\ Scripted /\ CallsInOrder

(* What one more call, the (L + 1)-th, makes of the counts.                *)
Counted(who, more, s, L) ==
  /\ \A i \in 0 .. L : Nth(more, s, i) = Nth(who, s, i)
  /\ Nth(who, s, L) \in Nat
  /\ Nth(more, s, L + 1)
       = Nth(who, s, L) + (IF more[L + 1] = s THEN 1 ELSE 0)

LEMMA NthOfMore ==
  ASSUME NEW L \in Nat, NEW who, NEW more, NEW s,
         \A i \in 1 .. L : more[i] = who[i]
  PROVE  Counted(who, more, s, L)
<1>1. ASSUME NEW i \in 0 .. L PROVE Nth(more, s, i) = Nth(who, s, i)
  <2>1. {k \in 1 .. i : more[k] = s} = {k \in 1 .. i : who[k] = s}
    OBVIOUS
  <2> QED  BY <2>1 DEF Nth
<1> DEFINE K == {k \in 1 .. L : who[k] = s}
<1>2. IsFiniteSet(K) /\ Cardinality(K) \in Nat
  <2>1. IsFiniteSet(1 .. L)
    BY FS_Interval
  <2> QED  BY <2>1, FS_Subset, FS_CardinalityType
<1>3. Nth(who, s, L) = Cardinality(K)
  BY DEF Nth
<1>4. Nth(more, s, L + 1)
        = Cardinality(K) + (IF more[L + 1] = s THEN 1 ELSE 0)
  <2>1. CASE more[L + 1] = s
    <3>1. {k \in 1 .. L + 1 : more[k] = s} = K \cup {L + 1}
      BY <2>1
    <3>2. L + 1 \notin K
      OBVIOUS
    <3>3. Cardinality(K \cup {L + 1}) = Cardinality(K) + 1
      BY <1>2, <3>2, FS_AddElement
    <3> QED  BY <2>1, <3>1, <3>3 DEF Nth
  <2>2. CASE more[L + 1] # s
    <3>1. {k \in 1 .. L + 1 : more[k] = s} = K
      BY <2>2
    <3>2. Nth(more, s, L + 1) = Cardinality(K)
      BY <3>1, Zenon DEF Nth
    <3> HIDE DEF K
    <3> QED  BY <1>2, <2>2, <3>2
  <2> QED  BY <2>1, <2>2
<1> HIDE DEF K
<1> QED  BY <1>1, <1>2, <1>3, <1>4 DEF Counted

(* One more call is flushed, the next one of its thread.                   *)
LEMMA OneMoreCall ==
  ASSUME NEW f \in Seq(Calls), NEW c, NEW n, NEW next, NEW t \in Threads,
         NEW m \in Calls, InOrder(f, c, n), m = c[t][n[t] + 1],
         next[t] = n[t] + 1, \A s \in Threads : s # t => next[s] = n[s]
  PROVE  InOrder(Append(f, m), c, next)
<1> DEFINE L == Len(f)
           g == Append(f, m)
<1>1. /\ L \in Nat /\ DOMAIN f = 1 .. L /\ DOMAIN g = 1 .. L + 1
      /\ Len(g) = L + 1 /\ g[L + 1] = m
      /\ \A i \in 1 .. L : g[i] = f[i]
  BY AppendProperties, LenProperties
<1>2. PICK who \in [DOMAIN f -> Threads] :
        /\ \A s \in Threads : Nth(who, s, Len(f)) = n[s]
        /\ \A i \in DOMAIN f : f[i] = c[who[i]][Nth(who, who[i], i)]
  BY DEF InOrder
<1> DEFINE more == [i \in 1 .. L + 1 |-> IF i = L + 1 THEN t ELSE who[i]]
<1> HIDE DEF g, L
<1>3. /\ more \in [DOMAIN g -> Threads]
      /\ more[L + 1] = t /\ \A i \in 1 .. L : more[i] = who[i]
  BY <1>1, <1>2
<1> HIDE DEF more
<1>4. \A s \in Threads : Counted(who, more, s, L)
  <2>1. L \in Nat /\ \A i \in 1 .. L : more[i] = who[i]
    BY <1>1, <1>3
  <2> QED  BY <2>1, NthOfMore
<1>5. ASSUME NEW s \in Threads PROVE Nth(more, s, Len(g)) = next[s]
  <2>1. Nth(who, s, L) = n[s]
    BY <1>2 DEF L
  <2> QED  BY <1>1, <1>3, <1>4, <2>1 DEF Counted
<1>6. ASSUME NEW i \in DOMAIN g
      PROVE  g[i] = c[more[i]][Nth(more, more[i], i)]
  <2>1. CASE i = L + 1
    <3>1. Nth(more, t, L + 1) = n[t] + 1
      BY <1>1, <1>5
    <3> QED  BY <1>1, <1>3, <2>1, <3>1
  <2>2. CASE i \in 1 .. L
    <3>1. more[i] = who[i] /\ who[i] \in Threads
      BY <1>1, <1>2, <1>3, <2>2
    <3>2. i \in 0 .. L
      BY <2>2
    <3>3. Nth(more, who[i], i) = Nth(who, who[i], i)
      BY <1>4, <3>1, <3>2 DEF Counted
    <3>4. f[i] = c[who[i]][Nth(who, who[i], i)]
      BY <1>1, <1>2, <2>2
    <3> QED  BY <1>1, <2>2, <3>1, <3>3, <3>4
  <2> QED  BY <1>1, <2>1, <2>2
<1> QED  BY <1>3, <1>5, <1>6 DEF InOrder, g

LEMMA SeqByElements ==
  ASSUME NEW S, NEW v \in Seq(S)
  PROVE  v = [i \in 1 .. Len(v) |-> v[i]]
  OBVIOUS

(* The calls of the frames that are on their way.                          *)
OnWire(w) == [i \in DOMAIN w |-> Head(w[i]).message]

LEMMA OnWireCalls ==
  ASSUME SInv
  PROVE  OnWire(wire) \in Seq(Calls) /\ Len(OnWire(wire)) = Len(wire)
<1>1. /\ wire \in Seq(Seq(Tokens)) /\ DOMAIN wire = 1 .. Len(wire)
      /\ Len(wire) \in Nat
  BY LenProperties DEF SInv, Types
<1>2. ASSUME NEW i \in 1 .. Len(wire) PROVE Head(wire[i]).message \in Calls
  <2>1. PICK m \in Calls : wire[i] = <<Begin(m)>> \o m.frame
    BY DEF SInv, WireWhole, Whole
  <2> QED  BY <2>1, WholeFrame
<1>3. OnWire(wire) = [i \in 1 .. Len(wire) |-> Head(wire[i]).message]
  BY <1>1 DEF OnWire
<1> QED  BY <1>1, <1>2, <1>3

LEMMA CallsInOrderAs ==
  CallsInOrder <=> InOrder(FlushedCalls, calls, [t \in Threads |-> Flushed(t)])
  BY DEF CallsInOrder, InOrder

(* The number of calls that t has flushed.                                 *)
LEMMA FlushedAs ==
  ASSUME OInv, NEW t \in Threads
  PROVE  /\ Begun(t) \in Nat
         /\ Flushed(t) = Begun(t) - (IF phase[t] = "args" THEN 1 ELSE 0)
  BY DEF OInv, Scripted, Flushed, Begun

(* A step that flushes nothing, and makes and loses none of the calls.     *)
LEMMA SameCalls ==
  ASSUME OInv, FlushedCalls' = FlushedCalls, calls' = calls,
         \A t \in Threads : Flushed(t)' = Flushed(t)
  PROVE  CallsInOrder'
<1>1. [t \in Threads |-> Flushed(t)'] = [t \in Threads |-> Flushed(t)]
  OBVIOUS
<1>2. InOrder(FlushedCalls, calls, [t \in Threads |-> Flushed(t)])
  BY CallsInOrderAs DEF OInv
<1>3. InOrder(FlushedCalls', calls', [t \in Threads |-> Flushed(t)'])
  BY <1>1, <1>2
<1> QED  BY <1>3, CallsInOrderAs DEF InOrder, CallsInOrder, Nth

LEMMA InitOInv == CInit => OInv
<1> SUFFICES ASSUME CInit PROVE OInv
  OBVIOUS
<1>1. SInv
  BY InitSInv
<1>2. /\ taken = <<>> /\ wire = <<>> /\ wBuf_ = <<>>
      /\ calls = script /\ script \in [Threads -> Seq(Calls)]
      /\ todo = [t \in Threads |-> <<>>] /\ phase = [t \in Threads |-> "idle"]
  BY ScriptsAssumption DEF CInit
<1>3. Histories
  BY <1>2, EmptySeq DEF Histories
<1>4. ASSUME NEW t \in Threads
      PROVE  /\ Begun(t) = 0 /\ Flushed(t) = 0 /\ phase[t] # "args"
             /\ \A k \in 1 .. Len(script[t]) :
                  script[t][k] = calls[t][Begun(t) + k]
  <2>1. Len(script[t]) \in Nat
    BY <1>2, LenProperties
  <2>2. Begun(t) = 0
    BY <1>2, <2>1 DEF Begun
  <2>3. phase[t] = "idle" /\ calls[t] = script[t]
    BY <1>2
  <2>4. Flushed(t) = 0
    BY <2>1, <2>3 DEF Flushed
  <2>5. \A k \in 1 .. Len(script[t]) : 0 + k = k
    BY <2>1
  <2> QED  BY <2>2, <2>3, <2>4, <2>5
<1>5. Scripted
  BY <1>4 DEF Scripted
<1>6. FlushedCalls \in Seq(Calls) /\ Len(FlushedCalls) = 0
  <2>1. OnWire(wire) \in Seq(Calls) /\ Len(OnWire(wire)) = 0
    BY <1>1, <1>2, OnWireCalls
  <2>2. FlushedCalls = <<>> \o OnWire(wire)
    BY <1>2 DEF FlushedCalls, OnWire
  <2> QED  BY <2>1, <2>2
<1>7. CallsInOrder
  <2> DEFINE who == [i \in {} |-> NoThread]
  <2>1. DOMAIN FlushedCalls = {} /\ who \in [{} -> Threads]
    BY <1>6
  <2>2. ASSUME NEW t \in Threads PROVE Nth(who, t, 0) = 0
    <3>1. {k \in 1 .. 0 : who[k] = t} = {}
      OBVIOUS
    <3> QED  BY <3>1, FS_EmptySet DEF Nth
  <2> QED  BY <1>4, <1>6, <2>1, <2>2 DEF CallsInOrder
<1> QED  BY <1>1, <1>3, <1>5, <1>7 DEF OInv

LEMMA SendStartsOrder ==
  ASSUME OInv, NEW t \in Threads, SendStarts(t)
  PROVE  OInv'
<1> DEFINE m == Head(script[t])
<1>1. /\ SInv /\ script \in [Threads -> Seq(Calls)]
      /\ script[t] \in Seq(Calls) /\ script[t] # <<>>
      /\ script' = [script EXCEPT ![t] = Tail(@)]
      /\ phase \in [Threads -> {"idle", "args", "flushed"}]
      /\ phase[t] = "idle" /\ phase' = [phase EXCEPT ![t] = "args"]
      /\ todo \in [Threads -> Seq(ArgTokens)]
      /\ todo' = [todo EXCEPT ![t] = m.frame]
      /\ wBuf_' = Append(wBuf_, Begin(m)) /\ wire' = wire
      /\ sync_ = NoThread /\ calls' = calls /\ taken' = taken
  BY DEF SendStarts, Starts, OInv, SInv, Types
<1>2. /\ m = script[t][1] /\ Len(script[t]) \in Nat \ {0}
      /\ Len(Tail(script[t])) = Len(script[t]) - 1
      /\ \A k \in 1 .. Len(Tail(script[t])) :
           Tail(script[t])[k] = script[t][k + 1]
  BY <1>1, HeadTailProperties, LenProperties, EmptySeq
<1> HIDE DEF m
<1>3. SInv'
  BY SendStartsStep DEF OInv
<1>4. \A s \in Threads : phase[s] = "idle"
  BY <1>1, ThreadsAssumption DEF SInv, Exclusive
<1>5. /\ script'[t] = Tail(script[t]) /\ phase'[t] = "args"
      /\ todo'[t] = m.frame
      /\ \A s \in Threads : s # t => script'[s] = script[s]
                                     /\ phase'[s] = phase[s]
  BY <1>1
<1>6. Histories'
  BY <1>1 DEF OInv, Histories
<1>7. /\ Begun(t) \in Nat /\ Begun(t)' = Begun(t) + 1
      /\ Len(calls[t]) \in Nat /\ Len(calls[t]) = Begun(t) + Len(script[t])
      /\ \A s \in Threads : s # t => Begun(s)' = Begun(s)
  <2>1. calls[t] \in Seq(Calls)
    BY DEF OInv, Histories
  <2>2. Len(calls[t]) \in Nat /\ Begun(t) \in Nat
    BY <2>1, LenProperties DEF OInv, Scripted
  <2> QED  BY <1>1, <1>2, <1>5, <2>2 DEF Begun
<1>8. \A k \in 1 .. Len(script[t]) : script[t][k] = calls[t][Begun(t) + k]
  BY DEF OInv, Scripted
<1>9. Scripted'
  <2>1. m = calls[t][Begun(t) + 1]
    BY <1>2, <1>8
  <2>2. wBuf_' = <<Begin(m)>>
    <3>1. wBuf_ = <<>>
      BY <1>1, <1>4 DEF SInv, BufferOfWriter
    <3> QED  BY <1>1, <3>1
  <2>3. Begun(t)' \in 1 .. Len(calls[t])
    BY <1>2, <1>7
  <2>4. \A k \in 1 .. Len(script'[t]) : script'[t][k] = calls[t][Begun(t)' + k]
    <3> SUFFICES ASSUME NEW k \in 1 .. Len(script'[t])
                 PROVE  script'[t][k] = calls[t][Begun(t)' + k]
      OBVIOUS
    <3>1. k + 1 \in 1 .. Len(script[t]) /\ Begun(t)' + k = Begun(t) + (k + 1)
      BY <1>2, <1>5, <1>7
    <3> QED  BY <1>2, <1>5, <1>8, <3>1
  <2>5. ASSUME NEW s \in Threads, s # t
        PROVE  /\ Begun(s)' \in Nat /\ phase'[s] # "args"
               /\ \A k \in 1 .. Len(script'[s]) :
                    script'[s][k] = calls[s][Begun(s)' + k]
    <3>1. Begun(s)' = Begun(s) /\ script'[s] = script[s] /\ phase'[s] = "idle"
      BY <1>4, <1>5, <1>7, <2>5
    <3> QED  BY <3>1 DEF OInv, Scripted
  <2>6. wBuf_' \o todo'[t] = <<Begin(calls[t][Begun(t)'])>>
                               \o calls[t][Begun(t)'].frame
    BY <1>5, <1>7, <2>1, <2>2
  <2>7. Begun(t)' \in Nat
    BY <1>7
  <2> QED  BY ZenonT(60), <1>1, <2>3, <2>4, <2>5, <2>6, <2>7 DEF Scripted
<1>10. CallsInOrder'
  <2>1. ASSUME NEW s \in Threads PROVE Flushed(s)' = Flushed(s)
    <3>1. /\ Flushed(s) = Begun(s) - (IF phase[s] = "args" THEN 1 ELSE 0)
          /\ Flushed(s)' = Begun(s)' - (IF phase'[s] = "args" THEN 1 ELSE 0)
      BY DEF Flushed, Begun
    <3> QED  BY <1>1, <1>5, <1>7, <3>1
  <2>2. FlushedCalls' = FlushedCalls
    BY <1>1 DEF FlushedCalls
  <2> QED  BY <1>1, <2>1, <2>2, SameCalls
<1> QED  BY <1>3, <1>6, <1>9, <1>10 DEF OInv

LEMMA WriteArgsOrder ==
  ASSUME OInv, NEW t \in Threads, WriteArgs(t)
  PROVE  OInv'
<1>1. /\ SInv /\ phase[t] = "args" /\ todo[t] # <<>>
      /\ todo \in [Threads -> Seq(ArgTokens)] /\ wBuf_ \in Seq(Tokens)
      /\ wBuf_' = Append(wBuf_, Head(todo[t]))
      /\ todo' = [todo EXCEPT ![t] = Tail(@)]
      /\ phase' = phase /\ script' = script /\ wire' = wire
      /\ calls' = calls /\ taken' = taken
  BY DEF WriteArgs, OInv, SInv, Types
<1>2. SInv' /\ Histories'
  BY <1>1, WriteArgsStep DEF OInv, Histories
<1>3. wBuf_' \o todo'[t] = wBuf_ \o todo[t]
  <2>1. todo[t] \in Seq(Tokens) /\ todo'[t] = Tail(todo[t])
    BY <1>1 DEF Tokens
  <2> QED  BY <1>1, <2>1, WriteToken
<1>4. \A s \in Threads : Begun(s)' = Begun(s) /\ Flushed(s)' = Flushed(s)
  BY <1>1 DEF Begun, Flushed
<1>5. \A s \in Threads : s # t => phase[s] # "args"
  BY <1>1 DEF SInv, Exclusive
<1>6. Scripted'
  BY <1>1, <1>3, <1>4, <1>5 DEF OInv, Scripted
<1>7. CallsInOrder'
  <2>1. FlushedCalls' = FlushedCalls
    BY <1>1 DEF FlushedCalls
  <2> QED  BY <1>1, <1>4, <2>1, SameCalls
<1> QED  BY <1>2, <1>6, <1>7 DEF OInv

(* The frame of a thread joins the others behind them, and with it the     *)
(* call that the thread has begun last.                                    *)
LEMMA FlushOrder ==
  ASSUME OInv, NEW t \in Threads, Flush(t)
  PROVE  OInv'
<1> DEFINE m == calls[t][Begun(t)]
           w == OnWire(wire)
<1>1. /\ SInv /\ phase[t] = "args" /\ todo[t] = <<>>
      /\ phase \in [Threads -> {"idle", "args", "flushed"}]
      /\ wBuf_ \in Seq(Tokens) /\ wire \in Seq(Seq(Tokens))
      /\ wire' = Append(wire, wBuf_)
      /\ phase' = [phase EXCEPT ![t] = "flushed"]
      /\ script' = script /\ todo' = todo /\ calls' = calls /\ taken' = taken
  BY DEF Flush, OInv, SInv, Types
<1>2. SInv' /\ Histories'
  BY <1>1, FlushStep DEF OInv, Histories
<1>3. /\ Begun(t) \in 1 .. Len(calls[t]) /\ Begun(t) \in Nat
      /\ wBuf_ \o todo[t] = <<Begin(m)>> \o m.frame
  BY <1>1 DEF OInv, Scripted
<1>4. m \in Calls
  <2>1. calls[t] \in Seq(Calls)
    BY DEF OInv, Histories
  <2> QED  BY <1>3, <2>1
<1>5. wBuf_ = <<Begin(m)>> \o m.frame
  <2>1. wBuf_ \o <<>> = wBuf_
    BY <1>1, ConcatEmptySeq
  <2> QED  BY <1>1, <1>3, <2>1
<1>6. Head(wBuf_).message = m
  BY <1>4, <1>5, WholeFrame
<1>7. /\ phase'[t] = "flushed"
      /\ \A s \in Threads : s # t => phase'[s] = phase[s] /\ phase[s] # "args"
  BY <1>1 DEF SInv, Exclusive
<1>8. \A s \in Threads : Begun(s)' = Begun(s)
  BY <1>1 DEF Begun
<1>9. Scripted'
  BY SMTT(30), <1>1, <1>7, <1>8 DEF OInv, Scripted
<1>10. w \in Seq(Calls) /\ OnWire(wire') = Append(w, m)
  <2>1. w \in Seq(Calls) /\ Len(w) = Len(wire) /\ Len(wire) \in Nat
    BY <1>1, OnWireCalls, LenProperties
  <2>2. /\ DOMAIN wire' = 1 .. Len(wire) + 1
        /\ \A i \in 1 .. Len(wire) : wire'[i] = wire[i]
        /\ wire'[Len(wire) + 1] = wBuf_
    BY <1>1, AppendProperties
  <2>3. \A i \in 1 .. Len(wire) : w[i] = Head(wire[i]).message
    BY <1>1 DEF OnWire
  <2>4. OnWire(wire') = [i \in 1 .. Len(wire) + 1 |-> Head(wire'[i]).message]
    BY <2>2 DEF OnWire
  <2> HIDE DEF w, m
  <2>5. /\ Append(w, m) = [i \in 1 .. Len(wire) + 1 |-> Append(w, m)[i]]
        /\ \A i \in 1 .. Len(wire) : Append(w, m)[i] = w[i]
        /\ Append(w, m)[Len(wire) + 1] = m
    <3>1. /\ Append(w, m) \in Seq(Calls) /\ Len(Append(w, m)) = Len(w) + 1
          /\ \A i \in 1 .. Len(w) : Append(w, m)[i] = w[i]
          /\ Append(w, m)[Len(w) + 1] = m
      BY <1>4, <2>1, AppendProperties
    <3> DEFINE a == Append(w, m)
    <3>2. a = [i \in 1 .. Len(a) |-> a[i]]
      BY <3>1, SeqByElements
    <3> HIDE DEF a
    <3>3. Len(a) = Len(wire) + 1
      BY <2>1, <3>1 DEF a
    <3>4. a = [i \in 1 .. Len(wire) + 1 |-> a[i]]
      BY <3>2, <3>3
    <3> QED  BY <2>1, <3>1, <3>4 DEF a
  <2>6. \A i \in 1 .. Len(wire) + 1 : Head(wire'[i]).message = Append(w, m)[i]
    BY <1>6, <2>1, <2>2, <2>3, <2>5
  <2> QED  BY <2>1, <2>4, <2>5, <2>6
<1>11. FlushedCalls = taken \o w /\ FlushedCalls' = taken \o Append(w, m)
  BY <1>1, <1>10 DEF FlushedCalls, OnWire
<1>12. taken \in Seq(Calls)
  BY DEF OInv, Histories
<1>13. Flushed(t) + 1 = Begun(t) /\ Flushed(t)' = Flushed(t) + 1
       /\ \A s \in Threads : s # t => Flushed(s)' = Flushed(s)
  <2>1. \A s \in Threads :
          /\ Flushed(s) = Begun(s) - (IF phase[s] = "args" THEN 1 ELSE 0)
          /\ Flushed(s)' = Begun(s)' - (IF phase'[s] = "args" THEN 1 ELSE 0)
    BY DEF Flushed, Begun
  <2> QED  BY <1>1, <1>3, <1>7, <1>8, <2>1
<1> HIDE DEF m, w
<1>14. FlushedCalls \in Seq(Calls) /\ FlushedCalls' = Append(FlushedCalls, m)
  <2>1. <<m>> \in Seq(Calls) /\ Append(w, m) = w \o <<m>>
    BY <1>4, <1>10, AppendIsConcat
  <2>2. taken \o (w \o <<m>>) = (taken \o w) \o <<m>>
    BY <1>10, <1>12, <2>1, ConcatAssociative
  <2>3. taken \o w \in Seq(Calls)
    BY <1>10, <1>12, ConcatProperties
  <2>4. Append(taken \o w, m) = (taken \o w) \o <<m>>
    BY <1>4, <2>3, AppendIsConcat
  <2> QED  BY <1>11, <2>1, <2>2, <2>3, <2>4
<1>15. CallsInOrder'
  <2> DEFINE n == [s \in Threads |-> Flushed(s)]
             next == [s \in Threads |-> Flushed(s)']
  <2>1. InOrder(FlushedCalls, calls, n)
    BY CallsInOrderAs DEF OInv
  <2>2. m = calls[t][n[t] + 1]
    BY <1>13 DEF m
  <2>3. next[t] = n[t] + 1 /\ \A s \in Threads : s # t => next[s] = n[s]
    BY <1>13
  <2> HIDE DEF n, next
  <2>4. InOrder(Append(FlushedCalls, m), calls, next)
    BY <1>4, <1>14, <2>1, <2>2, <2>3, OneMoreCall
  <2>5. InOrder(FlushedCalls', calls', next)
    BY <1>1, <1>14, <2>4
  <2> QED  BY <2>5, CallsInOrderAs DEF next, InOrder, CallsInOrder, Nth
<1> QED  BY <1>2, <1>9, <1>15 DEF OInv

LEMMA CommitOrder ==
  ASSUME OInv, NEW t \in Threads, Commit(t)
  PROVE  OInv'
<1>1. /\ phase \in [Threads -> {"idle", "args", "flushed"}]
      /\ phase[t] = "flushed" /\ phase' = [phase EXCEPT ![t] = "idle"]
      /\ script' = script /\ todo' = todo /\ wBuf_' = wBuf_ /\ wire' = wire
      /\ calls' = calls /\ taken' = taken
  BY DEF Commit, OInv, SInv, Types
<1>2. SInv' /\ Histories'
  BY <1>1, CommitStep DEF OInv, Histories
<1>3. \A s \in Threads : phase'[s] = "args" <=> phase[s] = "args"
  BY <1>1
<1>4. \A s \in Threads : Begun(s)' = Begun(s) /\ Flushed(s)' = Flushed(s)
  BY <1>1, <1>3 DEF Begun, Flushed
<1>5. Scripted'
  <2>1. ASSUME NEW s \in Threads
        PROVE  /\ Begun(s) \in Nat
               /\ \A k \in 1 .. Len(script[s]) :
                    script[s][k] = calls[s][Begun(s) + k]
               /\ phase'[s] = "args" =>
                    /\ Begun(s) \in 1 .. Len(calls[s])
                    /\ wBuf_ \o todo[s] = <<Begin(calls[s][Begun(s)])>>
                                            \o calls[s][Begun(s)].frame
    BY <1>3 DEF OInv, Scripted
  <2> QED  BY <1>1, <1>4, <2>1 DEF Scripted
<1>6. CallsInOrder'
  <2>1. FlushedCalls' = FlushedCalls
    BY <1>1 DEF FlushedCalls
  <2> QED  BY <1>1, <1>4, <2>1, SameCalls
<1> QED  BY <1>2, <1>5, <1>6 DEF OInv

(* What the other end takes up is the first call of those on their way.    *)
LEMMA DeliverOrder ==
  ASSUME OInv, Deliver
  PROVE  OInv'
<1> DEFINE w == OnWire(wire)
           m == Head(Head(wire)).message
<1>1. /\ SInv /\ wire # <<>> /\ wire \in Seq(Seq(Tokens))
      /\ wire' = Tail(wire) /\ taken' = Append(taken, m)
      /\ calls' = calls /\ UNCHANGED senderVars
  BY DEF Deliver, OInv, SInv, Types
<1>2. SInv'
  BY DeliverStep DEF OInv
<1>3. /\ Len(wire) \in Nat \ {0} /\ Head(wire) = wire[1]
      /\ DOMAIN wire' = 1 .. Len(wire) - 1
      /\ \A i \in 1 .. Len(wire) - 1 : wire'[i] = wire[i + 1]
  BY <1>1, HeadTailProperties, LenProperties, EmptySeq
<1>4. w \in Seq(Calls) /\ Len(w) = Len(wire)
      /\ \A i \in 1 .. Len(wire) : w[i] = Head(wire[i]).message
  BY <1>1, OnWireCalls DEF OnWire
<1>5. OnWire(wire') = [i \in 1 .. Len(wire) - 1 |-> Head(wire'[i]).message]
  BY <1>3 DEF OnWire
<1>6. w[1] = m
  BY <1>3, <1>4
<1> HIDE DEF w, m
<1>7. /\ w # <<>> /\ Head(w) = w[1] /\ Head(w) \in Calls
      /\ Tail(w) = [i \in 1 .. Len(w) - 1 |-> w[i + 1]]
  <2>1. w # <<>>
    BY <1>3, <1>4, EmptySeq
  <2>2. Head(w) = w[1] /\ Head(w) \in Calls
    BY <1>4, <2>1, HeadTailProperties
  <2>3. /\ Tail(w) \in Seq(Calls) /\ Len(Tail(w)) = Len(w) - 1
        /\ \A i \in 1 .. Len(w) - 1 : Tail(w)[i] = w[i + 1]
    BY <1>4, <2>1, HeadTailProperties
  <2> DEFINE r == Tail(w)
  <2>4. r = [i \in 1 .. Len(r) |-> r[i]]
    BY <2>3, SeqByElements
  <2> HIDE DEF r
  <2>5. r = [i \in 1 .. Len(w) - 1 |-> w[i + 1]]
    BY <2>3, <2>4 DEF r
  <2> QED  BY <2>1, <2>2, <2>5 DEF r
<1>8. OnWire(wire') = Tail(w)
  <2>1. \A i \in 1 .. Len(wire) - 1 : Head(wire'[i]).message = w[i + 1]
    BY <1>3, <1>4
  <2> QED  BY <1>4, <1>5, <1>7, <2>1
<1>9. taken \in Seq(Calls) /\ calls \in [Threads -> Seq(Calls)]
  BY DEF OInv, Histories
<1>10. /\ Append(taken, Head(w)) \in Seq(Calls)
       /\ Append(taken, Head(w)) \o Tail(w) = taken \o w
  BY <1>4, <1>7, <1>9, WriteToken
<1>11. Histories'
  BY <1>1, <1>6, <1>7, <1>9, <1>10 DEF Histories
<1>12. FlushedCalls' = FlushedCalls
  <2>1. FlushedCalls = taken \o w /\ FlushedCalls' = taken' \o OnWire(wire')
    BY DEF FlushedCalls, OnWire, w
  <2> QED  BY <1>1, <1>6, <1>7, <1>8, <1>10, <2>1
<1>13. \A s \in Threads : Begun(s)' = Begun(s) /\ Flushed(s)' = Flushed(s)
  BY <1>1 DEF senderVars, Begun, Flushed
<1>14. Scripted'
  BY <1>1, <1>13 DEF senderVars, OInv, Scripted
<1>15. CallsInOrder'
  BY <1>1, <1>12, <1>13, SameCalls
<1> QED  BY <1>2, <1>11, <1>14, <1>15 DEF OInv

LEMMA NextOInv ==
  OInv /\ [Next]_<<vars, senderVars, wire, calls, taken>> => OInv'
<1>1. ASSUME OInv, UNCHANGED <<senderVars, wire, calls, taken>>
      PROVE  OInv'
  <2>1. SInv'
    BY <1>1, OtherStep DEF OInv
  <2>2. \A s \in Threads : Begun(s)' = Begun(s) /\ Flushed(s)' = Flushed(s)
    BY <1>1 DEF senderVars, Begun, Flushed
  <2>3. FlushedCalls' = FlushedCalls
    BY <1>1 DEF FlushedCalls
  <2>4. Histories' /\ Scripted'
    BY <1>1, <2>2 DEF senderVars, OInv, Histories, Scripted
  <2>5. CallsInOrder'
    BY <1>1, <2>2, <2>3, SameCalls
  <2> QED  BY <2>1, <2>4, <2>5 DEF OInv
<1> QED  BY <1>1, SendStartsOrder, WriteArgsOrder, FlushOrder, CommitOrder,
            DeliverOrder DEF Next

(* Whatever threads share a generated client, and whatever they call: the  *)
(* frames leave in an order that agrees with that of the calls of each     *)
(* thread, the other end takes them up in it, and none is lost or doubled. *)
THEOREM CallsInOrderCorrect == Spec => []CallsInOrder
<1>1. OInv => CallsInOrder
  BY DEF OInv
<1> QED  BY <1>1, InitOInv, NextOInv, PTL DEF Spec

-----------------------------------------------------------------------------
(* What is read. The structures, as far as the reading of them depends on  *)
(* them: only a ship has optional fields, only field 2 of two methods is a *)
(* ship, and only field 9 of a ship a location.                            *)
Methods == DOMAIN ServerArgs \cup DOMAIN ClientArgs

ShipMethods == {"postShip", "on_subscribeShip"}

LEMMA ShipFields ==
  /\ Fields("Ship") = Ship /\ DOMAIN Ship = 1 .. 11
  /\ Ship[9].type = "struct" /\ Ship[9].of = "Location"
  /\ \A id \in 1 .. 11 : Ship[id].type = "struct" => id = 9
  /\ \A id \in 1 .. 11 : Ship[id].need \in {"required", "optional"}
<1>1. Fields("Ship") = Ship
  BY DEF Fields, ServerArgs
<1>2. DOMAIN Ship = 1 .. 11
  BY DEF Ship
<1>3. Ship[9].type = "struct" /\ Ship[9].of = "Location"
  BY DEF Ship, Struct
<1>4. \A id \in 1 .. 11 : Ship[id].type = "struct" => id = 9
  BY DEF Ship, Required, Optional
<1>5. \A id \in 1 .. 11 : Ship[id].need \in {"required", "optional"}
  BY DEF Ship, Required, Optional, Struct
<1> QED  BY <1>1, <1>2, <1>3, <1>4, <1>5

LEMMA LocationFields ==
  /\ Fields("Location") = Location /\ DOMAIN Location = 1 .. 2
  /\ \A id \in 1 .. 2 : Location[id].type # "struct"
                        /\ Location[id].need = "required"
<1>1. Fields("Location") = Location
  BY DEF Fields, ServerArgs
<1> QED  BY <1>1 DEF Location, Required

LEMMA MethodFields ==
  ASSUME NEW m \in Methods
  PROVE  /\ \A id \in DOMAIN Fields(m) :
              /\ id \in Nat /\ Fields(m)[id].need = "required"
              /\ Fields(m)[id].type = "struct" =>
                   m \in ShipMethods /\ id = 2 /\ Fields(m)[id].of = "Ship"
         /\ m \in ShipMethods =>
              2 \in DOMAIN Fields(m) /\ Fields(m)[2].type = "struct"
<1>1. m # "Ship" /\ m # "Location"
  BY DEF Methods, ServerArgs, ClientArgs
<1>2. Fields(m) = IF m \in DOMAIN ServerArgs THEN ServerArgs[m]
                                             ELSE ClientArgs[m]
  BY <1>1 DEF Fields
<1> DEFINE take == <<Required("string"), Struct("required", "Ship")>>
<1>3. m \in ShipMethods => Fields(m) = take
  BY <1>2 DEF ShipMethods, ServerArgs, ClientArgs
<1>4. m \notin ShipMethods => Fields(m) \in {<<>>, String, Id}
  BY <1>2 DEF ShipMethods, Methods, ServerArgs, ClientArgs
<1> QED  BY <1>3, <1>4 DEF String, Id, Required, Struct

(* A field that is not a structure, a structure but for those inside it,   *)
(* and field id of a structure were read into the arguments o.             *)
Got(o, path) == \E x \in o : x.path = path

Filled(o, s, path) ==
  \A id \in RequiredIds(s) :
    Fields(s)[id].type # "struct" => Got(o, Append(path, id))

ReadAt(o, s, path, id) ==
  /\ id \in DOMAIN Fields(s)
  /\ Fields(s)[id].type # "struct" => Got(o, Append(path, id))
  /\ Fields(s)[id].type = "struct"
       => Filled(o, Fields(s)[id].of, Append(path, id))

ReadBy(o, r) == \A id \in r.seen : ReadAt(o, r.struct, r.path, id)

(* The structures inside one another are the arguments, a ship and a       *)
(* location.                                                               *)
Readers ==
  Seq([struct : Methods \cup {"Ship", "Location"},
       path : {<<>>, << 2 >>, <<2, 9>>}, seen : SUBSET Nat])

Nested ==
  /\ readers \in Readers /\ Len(readers) <= 3
  /\ Len(readers) > 1 => method \in ShipMethods
  /\ Len(readers) > 0 => /\ method \in Methods
                         /\ readers[1].struct = method /\ readers[1].path = <<>>
  /\ Len(readers) > 1 => readers[2].struct = "Ship" /\ readers[2].path = << 2 >>
  /\ Len(readers) > 2 => /\ readers[3].struct = "Location"
                         /\ readers[3].path = <<2, 9>>

SeenRead == \A k \in 1 .. Len(readers) : ReadBy(object, readers[k])

FlagRead(o, flags) ==
  \A id \in 1 .. 11 : <<2, id>> \in flags => ReadAt(o, "Ship", << 2 >>, id)

HandlerFit ==
  /\ outcome = "reading" => readers # <<>>
  /\ outcome = "called" =>
       /\ readers = <<>> /\ method \in Methods
       /\ Filled(object, method, <<>>)
       /\ method \in ShipMethods => Filled(object, "Ship", << 2 >>)

UInv == /\ at \in DOMAIN ProcessMap
        /\ Nested /\ SeenRead /\ FlagRead(object, isset) /\ HandlerFit

IsAppended(v, u, b) ==
  /\ Len(v) = Len(u) + 1 /\ v[Len(u) + 1] = b
  /\ \A i \in 1 .. Len(u) : v[i] = u[i]

LEMMA AppendedOne ==
  ASSUME NEW S, NEW u \in Seq(S), NEW b \in S
  PROVE  Append(u, b) \in Seq(S) /\ IsAppended(Append(u, b), u, b)
<1>1. Append(u, b) \in Seq(S)
  BY AppendProperties, Zenon
<1>2. Len(Append(u, b)) = Len(u) + 1
  BY AppendProperties, Zenon
<1>3. Append(u, b)[Len(u) + 1] = b
  BY AppendProperties, Zenon
<1>4. \A i \in 1 .. Len(u) : Append(u, b)[i] = u[i]
  BY SMT
<1> QED  BY <1>1, <1>2, <1>3, <1>4, Zenon DEF IsAppended

LEMMA AppendMakes ==
  ASSUME NEW S, NEW u \in Seq(S), NEW b \in S, NEW w \in Seq(S),
         IsAppended(w, u, b)
  PROVE  Append(u, b) = w
<1> DEFINE v == Append(u, b)
<1>1. v \in Seq(S) /\ IsAppended(v, u, b)
  BY AppendedOne
<1> HIDE DEF v
<1>2. Len(v) = Len(w) /\ Len(u) \in Nat
  BY <1>1, LenProperties DEF IsAppended
<1>3. ASSUME NEW i \in 1 .. Len(v) PROVE v[i] = w[i]
  <2>1. i \in 1 .. Len(u) \/ i = Len(u) + 1
    BY <1>1, <1>2 DEF IsAppended
  <2> QED  BY <1>1, <2>1 DEF IsAppended
<1>4. v = w
  BY <1>1, <1>2, <1>3, SeqEqual
<1> QED  BY <1>4 DEF v

LEMMA Pair ==
  ASSUME NEW S, NEW a \in S, NEW b \in S
  PROVE  Append(<<a>>, b) = <<a, b>>
<1> DEFINE u == <<a>>
           w == <<a, b>>
<1>1. u \in Seq(S) /\ Len(u) = 1 /\ u[1] = a
  OBVIOUS
<1>2. w \in Seq(S) /\ Len(w) = 2 /\ w[1] = a /\ w[2] = b
  OBVIOUS
<1> HIDE DEF u, w
<1>3. IsAppended(w, u, b)
  BY <1>1, <1>2 DEF IsAppended
<1>4. Append(u, b) = w
  BY <1>1, <1>2, <1>3, AppendMakes
<1> QED  BY <1>4 DEF u, w

LEMMA Triple ==
  ASSUME NEW S, NEW a \in S, NEW b \in S, NEW c \in S
  PROVE  Append(<<a, b>>, c) = <<a, b, c>>
<1> DEFINE u == <<a, b>>
           w == <<a, b, c>>
<1>1. u \in Seq(S) /\ Len(u) = 2 /\ u[1] = a /\ u[2] = b
  OBVIOUS
<1>2. w \in Seq(S) /\ Len(w) = 3 /\ w[1] = a /\ w[2] = b /\ w[3] = c
  OBVIOUS
<1> HIDE DEF u, w
<1>3. IsAppended(w, u, c)
  BY <1>1, <1>2 DEF IsAppended
<1>4. Append(u, c) = w
  BY <1>1, <1>2, <1>3, AppendMakes
<1> QED  BY <1>4 DEF u, w

LEMMA FrontIs ==
  ASSUME NEW S, NEW u \in Seq(S), NEW b \in S, NEW w \in Seq(S),
         IsAppended(w, u, b)
  PROVE  Front(w) = u
<1> DEFINE n == Len(w) - 1
           v == SubSeq(w, 1, n)
<1>1. Len(u) \in Nat /\ n = Len(u) /\ Len(w) = n + 1
  BY LenProperties DEF IsAppended
<1>2. Front(w) = v
  BY DEF Front
<1> HIDE DEF n
<1>3. \A i \in 1 .. n : w[i] \in S
  BY <1>1
<1>4. /\ v \in Seq(S) /\ Len(v) = n
      /\ \A i \in 1 .. n : v[i] = w[i]
  <2>1. 1 \in Int /\ n \in Int
    BY <1>1
  <2>2. v \in Seq(S)
    BY <1>3, <2>1, SubSeqProperties
  <2>3. Len(v) = IF 1 <= n THEN n - 1 + 1 ELSE 0
    BY <1>3, <2>1, SubSeqProperties
  <2>4. \A i \in 1 .. n - 1 + 1 : v[i] = w[1 + i - 1]
    BY <1>3, <2>1, SubSeqProperties
  <2>5. \A i \in 1 .. n : v[i] = w[i]
    <3> SUFFICES ASSUME NEW i \in 1 .. n PROVE v[i] = w[i]
      OBVIOUS
    <3>1. i \in 1 .. n - 1 + 1 /\ 1 + i - 1 = i
      BY <1>1
    <3> QED  BY <2>4, <3>1
  <2> QED  BY <1>1, <2>2, <2>3, <2>5
<1> HIDE DEF v
<1>5. v = u
  BY <1>1, <1>4, SeqEqual DEF IsAppended
<1> QED  BY <1>2, <1>5

LEMMA ShipPaths ==
  /\ Append(<<>>, 2) = << 2 >>
  /\ Append(<< 2 >>, 9) = <<2, 9>>
  /\ \A id \in Nat : Append(<< 2 >>, id) = <<2, id>>
<1>1. \A id \in Nat : Append(<< 2 >>, id) = <<2, id>>
  BY Pair
<1>2. 9 \in Nat
  OBVIOUS
<1>3. Append(<< 2 >>, 9) = <<2, 9>>
  BY <1>1, <1>2, Zenon
<1>4. Append(<<>>, 2) = << 2 >>
  OBVIOUS
<1> QED  BY <1>1, <1>3, <1>4

LEMMA UInvUnread == UInv => NothingUnread
<1> SUFFICES ASSUME UInv, outcome = "called"
             PROVE  /\ FieldsRead(method, <<>>)
                    /\ TakesShip =>
                         /\ FieldsRead("Ship", << 2 >>)
                         /\ <<2, 9>> \in isset
                              => FieldsRead("Location", <<2, 9>>)
  BY DEF NothingUnread
<1>1. /\ method \in Methods /\ Filled(object, method, <<>>)
      /\ method \in ShipMethods => Filled(object, "Ship", << 2 >>)
      /\ FlagRead(object, isset)
  BY DEF UInv, HandlerFit
<1>2. FieldsRead(method, <<>>)
  BY <1>1, MethodFields DEF Filled, RequiredIds, FieldsRead, HasValue, Got
<1>3. ASSUME TakesShip PROVE FieldsRead("Ship", << 2 >>)
  <2> SUFFICES ASSUME NEW id \in DOMAIN Fields("Ship"),
                      Fields("Ship")[id].type # "struct",
                      IsWritten(Fields("Ship")[id], Append(<< 2 >>, id))
               PROVE  Got(object, Append(<< 2 >>, id))
    BY DEF FieldsRead, HasValue, Got
  <2>1. id \in 1 .. 11 /\ Append(<< 2 >>, id) = <<2, id>>
    BY ShipFields, ShipPaths
  <2>2. CASE Fields("Ship")[id].need = "required"
    <3>1. id \in RequiredIds("Ship")
      BY <2>2 DEF RequiredIds
    <3> QED  BY <1>1, <1>3, <3>1 DEF Filled, TakesShip, ShipMethods
  <2>3. CASE <<2, id>> \in isset
    BY <1>1, <2>1, <2>3 DEF FlagRead, ReadAt
  <2> QED  BY <2>1, <2>2, <2>3 DEF IsWritten
<1>4. <<2, 9>> \in isset => FieldsRead("Location", <<2, 9>>)
  <2> HAVE <<2, 9>> \in isset
  <2>1. ReadAt(object, "Ship", << 2 >>, 9)
    BY <1>1 DEF FlagRead
  <2>2. Append(<< 2 >>, 9) = <<2, 9>>
    BY ShipPaths
  <2>3. Filled(object, "Location", <<2, 9>>)
    BY <2>1, <2>2, ShipFields DEF ReadAt
  <2> QED  BY <2>3, LocationFields DEF Filled, RequiredIds, FieldsRead,
                                       HasValue, Got
<1> QED  BY <1>2, <1>3, <1>4

(* What was read stays read as long as nothing is taken out.               *)
Keeps(o, more) == \A path : Got(o, path) => Got(more, path)

LEMMA StaysRead ==
  ASSUME NEW o, NEW more, Keeps(o, more)
  PROVE  /\ \A s, path : Filled(o, s, path) => Filled(more, s, path)
         /\ \A s, path, id : ReadAt(o, s, path, id) => ReadAt(more, s, path, id)
         /\ \A r : ReadBy(o, r) => ReadBy(more, r)
         /\ \A flags : FlagRead(o, flags) => FlagRead(more, flags)
<1>1. \A s, path : Filled(o, s, path) => Filled(more, s, path)
  BY DEF Keeps, Filled
<1>2. \A s, path, id : ReadAt(o, s, path, id) => ReadAt(more, s, path, id)
  BY <1>1 DEF Keeps, ReadAt
<1> QED  BY <1>1, <1>2 DEF ReadBy, FlagRead

(* The structures of readers, and what setting a flag of one does.         *)
LEMMA FilledByReader ==
  ASSUME NEW o, NEW r, ReadBy(o, r), RequiredIds(r.struct) \subseteq r.seen
  PROVE  Filled(o, r.struct, r.path)
  BY DEF ReadBy, ReadAt, Filled

LEMMA SeenReaders ==
  ASSUME NEW rs \in Readers, rs # <<>>, NEW id \in Nat
  PROVE  /\ Seen(rs, id) \in Readers /\ Len(Seen(rs, id)) = Len(rs)
         /\ \A k \in 1 .. Len(rs) :
              /\ Seen(rs, id)[k].struct = rs[k].struct
              /\ Seen(rs, id)[k].path = rs[k].path
              /\ Seen(rs, id)[k].seen
                   = rs[k].seen \cup (IF k = Len(rs) THEN {id} ELSE {})
<1> DEFINE R == [struct : Methods \cup {"Ship", "Location"},
                 path : {<<>>, << 2 >>, <<2, 9>>}, seen : SUBSET Nat]
           e == [rs[Len(rs)] EXCEPT !.seen = @ \cup {id}]
<1>1. rs \in Seq(R) /\ Len(rs) \in 1 .. Len(rs)
  BY LenProperties, EmptySeq DEF Readers
<1> HIDE DEF R
<1>2. rs[Len(rs)] \in R
  BY <1>1
<1> USE DEF R
<1>3. e \in R /\ e.struct = rs[Len(rs)].struct /\ e.path = rs[Len(rs)].path
      /\ e.seen = rs[Len(rs)].seen \cup {id}
  BY <1>2
<1>4. Seen(rs, id) = [rs EXCEPT ![Len(rs)] = e]
  BY <1>1 DEF Seen
<1> HIDE DEF R, e
<1>5. /\ Seen(rs, id) \in Seq(R) /\ Len(Seen(rs, id)) = Len(rs)
      /\ \A k \in 1 .. Len(rs) :
           Seen(rs, id)[k] = IF k = Len(rs) THEN e ELSE rs[k]
  BY <1>1, <1>3, <1>4, ExceptSeq
<1>6. Seen(rs, id) \in Readers
  BY <1>5 DEF Readers, R
<1> QED  BY <1>3, <1>5, <1>6

(* The flag of an optional field is set when the field was read.           *)
LEMMA FlagSet ==
  ASSUME NEW o, NEW flags, FlagRead(o, flags), NEW r, NEW id, NEW m \in Methods,
         ReadAt(o, r.struct, r.path, id),
         \/ r.struct = m
         \/ r.struct = "Ship" /\ r.path = << 2 >>
         \/ r.struct = "Location",
         NEW more, more = IF Fields(r.struct)[id].need = "optional"
                            THEN flags \cup {Append(r.path, id)} ELSE flags
  PROVE  FlagRead(o, more)
<1>1. id \in DOMAIN Fields(r.struct)
  BY DEF ReadAt
<1>2. CASE Fields(r.struct)[id].need = "optional"
  <2>1. r.struct = "Ship" /\ r.path = << 2 >>
    BY <1>1, <1>2, MethodFields, LocationFields
  <2>2. id \in 1 .. 11 /\ Append(r.path, id) = <<2, id>>
    BY <1>1, <2>1, ShipFields, ShipPaths
  <2>3. \A i \in 1 .. 11 : <<2, i>> = <<2, id>> => i = id
    OBVIOUS
  <2>4. ReadAt(o, "Ship", << 2 >>, id)
    BY <2>1
  <2> QED  BY <1>2, <2>2, <2>3, <2>4 DEF FlagRead
<1>3. CASE Fields(r.struct)[id].need # "optional"
  BY <1>3
<1> QED  BY <1>2, <1>3

(* The innermost structure.                                                *)
LEMMA InnerReader ==
  ASSUME UInv, readers # <<>>
  PROVE  /\ Len(readers) \in 1 .. 3 /\ Inner = readers[Len(readers)]
         /\ readers \in Readers /\ method \in Methods
         /\ ReadBy(object, Inner)
         /\ Inner.struct \in Methods \cup {"Ship", "Location"}
         /\ Inner.path \in {<<>>, << 2 >>, <<2, 9>>} /\ Inner.seen \subseteq Nat
         /\ \A id \in DOMAIN Fields(Inner.struct) : id \in Nat
<1> DEFINE R == [struct : Methods \cup {"Ship", "Location"},
                 path : {<<>>, << 2 >>, <<2, 9>>}, seen : SUBSET Nat]
<1>1. readers \in Readers /\ readers \in Seq(R) /\ Len(readers) <= 3
  BY DEF UInv, Nested, Readers
<1> HIDE DEF R
<1>2. Len(readers) \in 1 .. 3 /\ readers[Len(readers)] \in R
  <2> DEFINE L == Len(readers)
  <2>1. L \in Nat /\ L # 0 /\ L <= 3
    BY <1>1, LenProperties, EmptySeq
  <2> HIDE DEF L
  <2>2. L \in 1 .. L /\ L \in 1 .. 3
    BY <2>1
  <2> USE DEF L
  <2>3. readers[Len(readers)] \in R
    BY <1>1, <2>2
  <2> QED  BY <2>2, <2>3
<1>3. Inner = readers[Len(readers)]
  BY DEF Inner, Last
<1>4. ReadBy(object, Inner) /\ method \in Methods
  BY <1>2, <1>3 DEF UInv, SeenRead, Nested
<1>5. /\ Inner.struct \in Methods \cup {"Ship", "Location"}
      /\ Inner.path \in {<<>>, << 2 >>, <<2, 9>>} /\ Inner.seen \subseteq Nat
  BY <1>2, <1>3 DEF R
<1>6. \A id \in DOMAIN Fields(Inner.struct) : id \in Nat
  BY <1>5, MethodFields, ShipFields, LocationFields
<1> QED  BY <1>1, <1>2, <1>3, <1>4, <1>5, <1>6

(* Setting the flag of a field that was read keeps the structures as they  *)
(* are, and what their flags say.                                          *)
LEMMA SeenStep ==
  ASSUME NEW rs \in Readers, rs # <<>>, NEW o, NEW id,
         \A k \in 1 .. Len(rs) : ReadBy(o, rs[k]),
         ReadAt(o, rs[Len(rs)].struct, rs[Len(rs)].path, id), id \in Nat
  PROVE  /\ Seen(rs, id) \in Readers /\ Len(Seen(rs, id)) = Len(rs)
         /\ \A k \in 1 .. Len(rs) : /\ Seen(rs, id)[k].struct = rs[k].struct
                                    /\ Seen(rs, id)[k].path = rs[k].path
                                    /\ ReadBy(o, Seen(rs, id)[k])
<1>1. /\ Seen(rs, id) \in Readers /\ Len(Seen(rs, id)) = Len(rs)
      /\ \A k \in 1 .. Len(rs) :
           /\ Seen(rs, id)[k].struct = rs[k].struct
           /\ Seen(rs, id)[k].path = rs[k].path
           /\ Seen(rs, id)[k].seen
                = rs[k].seen \cup (IF k = Len(rs) THEN {id} ELSE {})
  BY SeenReaders
<1>2. ASSUME NEW k \in 1 .. Len(rs) PROVE ReadBy(o, Seen(rs, id)[k])
  <2>1. ReadBy(o, rs[k])
    OBVIOUS
  <2>2. CASE k = Len(rs)
    BY <1>1, <2>1, <2>2 DEF ReadBy
  <2>3. CASE k # Len(rs)
    BY <1>1, <2>1, <2>3 DEF ReadBy
  <2> QED  BY <2>2, <2>3
<1> QED  BY <1>1, <1>2

(* Nothing is read: the steps of the processor and of skip().              *)
LEMMA SkippingStep ==
  ASSUME UInv, DispatchUnknown \/ UnknownSkipped \/ SkipField \/ Skip
               \/ StructThrows
  PROVE  UInv'
<1>1. /\ at' = at /\ method' = method /\ readers' = readers
      /\ object' = object /\ isset' = isset
      /\ outcome' = outcome \/ outcome' \in {"skipping", "replied", "crashed",
                                             "thrown"}
  BY DEF DispatchUnknown, UnknownSkipped, SkipField, Skip, StructThrows
<1> QED  BY <1>1 DEF UInv, Nested, SeenRead, HandlerFit

LEMMA DispatchKnownStep ==
  ASSUME UInv, DispatchKnown
  PROVE  UInv'
<1> DEFINE r == Reader(method, <<>>)
<1>1. /\ at' = at /\ method' = method /\ readers' = <<r>>
      /\ object' = object /\ isset' = isset /\ outcome' = "reading"
      /\ method \in ProcessMap[at]
  BY DEF DispatchKnown
<1>2. method \in Methods
  BY <1>1 DEF UInv, ProcessMap, Methods
<1>3. r.struct = method /\ r.path = <<>> /\ r.seen = {}
  BY DEF Reader
<1>4. <<r>> \in Readers
  BY <1>2 DEF Reader, Readers
<1> HIDE DEF r
<1>5. Nested'
  BY <1>1, <1>2, <1>3, <1>4 DEF Nested
<1>6. SeenRead'
  BY <1>1, <1>3 DEF SeenRead, ReadBy
<1> QED  BY <1>1, <1>5, <1>6 DEF UInv, HandlerFit

LEMMA OneRead ==
  ASSUME NEW o, NEW p, NEW v, NEW more,
         more = {x \in o : x.path # p} \cup {[path |-> p, val |-> v]}
  PROVE  Keeps(o, more) /\ Got(more, p)
<1>1. [path |-> p, val |-> v] \in more /\ [path |-> p, val |-> v].path = p
  OBVIOUS
<1>2. Got(more, p)
  BY <1>1 DEF Got
<1>3. ASSUME NEW path, Got(o, path), path # p PROVE Got(more, path)
  <2>1. PICK x \in o : x.path = path
    BY <1>3 DEF Got
  <2>2. x \in more
    BY <1>3, <2>1
  <2> QED  BY <2>1, <2>2 DEF Got
<1> QED  BY <1>2, <1>3 DEF Keeps

LEMMA ReadFieldStep ==
  ASSUME UInv, ReadField
  PROVE  UInv'
<1> DEFINE r == Inner
           id == Head(frame).id
           L == Len(readers)
<1>1. /\ outcome = "reading" /\ at' = at /\ method' = method
      /\ outcome' = outcome /\ readers' = Seen(readers, id)
      /\ id \in DOMAIN Fields(r.struct) /\ Fields(r.struct)[id].type # "struct"
      /\ object' = {o \in object : o.path # Append(r.path, id)}
                     \cup {[path |-> Append(r.path, id), val |-> Head(frame).val]}
      /\ isset' = IsSet(r, id)
  BY DEF ReadField, Turn, IsKnown, Path
<1>2. readers # <<>>
  BY <1>1 DEF UInv, HandlerFit
<1>3. /\ L \in 1 .. 3 /\ r = readers[L] /\ readers \in Readers
      /\ method \in Methods /\ id \in Nat
  BY <1>1, <1>2, InnerReader
<1>4. Keeps(object, object') /\ Got(object', Append(r.path, id))
  BY <1>1, OneRead
<1>5. ReadAt(object', r.struct, r.path, id)
  BY <1>1, <1>4 DEF ReadAt
<1>6. /\ \A k \in 1 .. L : ReadBy(object', readers[k])
      /\ FlagRead(object', isset)
  BY <1>4, StaysRead DEF UInv, SeenRead
<1>7. /\ r.struct = method \/ (r.struct = "Ship" /\ r.path = << 2 >>)
                           \/ r.struct = "Location"
  BY <1>3 DEF UInv, Nested
<1> HIDE DEF id, L, r
<1>8. /\ Seen(readers, id) \in Readers /\ Len(Seen(readers, id)) = L
      /\ \A k \in 1 .. L : /\ Seen(readers, id)[k].struct = readers[k].struct
                           /\ Seen(readers, id)[k].path = readers[k].path
                           /\ ReadBy(object', Seen(readers, id)[k])
  BY <1>2, <1>3, <1>5, <1>6, SeenStep DEF L
<1>9. Nested'
  <2> DEFINE q == Seen(readers, id)
  <2>1. /\ q \in Readers /\ Len(q) = L /\ readers' = q
        /\ \A k \in 1 .. L : q[k].struct = readers[k].struct
                             /\ q[k].path = readers[k].path
    BY <1>1, <1>8
  <2> HIDE DEF q
  <2>2. L > 1 => 2 \in 1 .. L
    BY <1>3
  <2>3. L > 2 => 3 \in 1 .. L
    BY <1>3
  <2>4. 1 \in 1 .. L
    BY <1>3
  <2> QED  BY <1>1, <1>3, <2>1, <2>2, <2>3, <2>4 DEF UInv, Nested, L
<1>10. SeenRead'
  BY <1>1, <1>8 DEF SeenRead
<1>11. FlagRead(object', isset')
  <2>1. isset' = IF Fields(r.struct)[id].need = "optional"
                   THEN isset \cup {Append(r.path, id)} ELSE isset
    BY <1>1 DEF IsSet
  <2> QED  BY <1>3, <1>5, <1>6, <1>7, <2>1, FlagSet
<1>12. readers' # <<>>
  BY <1>1, <1>3, <1>8
<1> QED  BY <1>1, <1>9, <1>10, <1>11, <1>12 DEF UInv, HandlerFit

LEMMA ReadStructStep ==
  ASSUME UInv, ReadStruct
  PROVE  UInv'
<1> DEFINE r == Inner
           id == Head(frame).id
           L == Len(readers)
           e == Reader(Fields(r.struct)[id].of, Append(r.path, id))
<1>1. /\ outcome = "reading" /\ at' = at /\ method' = method
      /\ outcome' = outcome /\ object' = object /\ isset' = isset
      /\ readers' = Append(readers, e)
      /\ id \in DOMAIN Fields(r.struct) /\ Fields(r.struct)[id].type = "struct"
  BY DEF ReadStruct, Turn, IsKnown, Path
<1>2. readers # <<>>
  BY <1>1 DEF UInv, HandlerFit
<1>3. /\ L \in 1 .. 3 /\ r = readers[L] /\ readers \in Readers
      /\ method \in Methods /\ id \in Nat
  BY <1>1, <1>2, InnerReader
<1>4. e.struct = Fields(r.struct)[id].of /\ e.path = Append(r.path, id)
      /\ e.seen = {}
  BY DEF Reader
<1>5. \/ /\ L = 1 /\ method \in ShipMethods
         /\ e.struct = "Ship" /\ e.path = << 2 >>
      \/ L = 2 /\ e.struct = "Location" /\ e.path = <<2, 9>>
  <2>1. CASE L = 1
    <3>1. r.struct = method /\ r.path = <<>>
      BY <1>3, <2>1 DEF UInv, Nested
    <3> QED  BY ZenonT(60), <1>1, <1>3, <1>4, <2>1, <3>1, MethodFields, ShipPaths
  <2>2. CASE L = 2
    <3>1. r.struct = "Ship" /\ r.path = << 2 >>
      BY <1>3, <2>2 DEF UInv, Nested
    <3> QED  BY <1>1, <1>4, <2>2, <3>1, ShipFields, ShipPaths
  <2>3. CASE L = 3
    <3>1. r.struct = "Location"
      BY <1>3, <2>3 DEF UInv, Nested
    <3> QED  BY <1>1, <3>1, LocationFields
  <2> HIDE DEF L, e
  <2> QED  BY <1>3, <2>1, <2>2, <2>3
<1> DEFINE R == [struct : Methods \cup {"Ship", "Location"},
                 path : {<<>>, << 2 >>, <<2, 9>>}, seen : SUBSET Nat]
<1>6. e \in R
  BY <1>5 DEF Reader
<1> HIDE DEF e, id, r, L, R
<1>7. readers \in Seq(R)
  BY <1>3 DEF Readers, R
<1>8. /\ readers' \in Seq(R) /\ Len(readers') = L + 1
      /\ readers'[L + 1] = e /\ \A k \in 1 .. L : readers'[k] = readers[k]
  BY <1>1, <1>6, <1>7, AppendProperties DEF L
<1>9. readers' \in Readers
  BY <1>8 DEF Readers, R
<1>10. Nested'
  BY <1>1, <1>3, <1>5, <1>8, <1>9 DEF UInv, Nested, L
<1>11. SeenRead'
  <2>1. ReadBy(object, e)
    BY <1>4 DEF ReadBy
  <2>2. ASSUME NEW k \in 1 .. L + 1 PROVE ReadBy(object, readers'[k])
    <3>1. CASE k \in 1 .. L
      BY <1>8, <3>1 DEF UInv, SeenRead, L
    <3>2. CASE k = L + 1
      BY <1>8, <2>1, <3>2
    <3> QED  BY <1>3, <3>1, <3>2
  <2> QED  BY <1>1, <1>8, <2>2 DEF SeenRead
<1>12. readers' # <<>>
  BY <1>3, <1>8
<1> QED  BY <1>1, <1>10, <1>11, <1>12 DEF UInv, HandlerFit

(* The arguments are complete: all required fields were read, a ship among *)
(* them.                                                                   *)
LEMMA ArgumentsEnd ==
  ASSUME UInv, Len(readers) = 1, RequiredIds(Inner.struct) \subseteq Inner.seen
  PROVE  /\ method \in Methods /\ Filled(object, method, <<>>)
         /\ method \in ShipMethods => Filled(object, "Ship", << 2 >>)
<1> DEFINE r == Inner
<1>1. /\ r.struct = method /\ r.path = <<>> /\ ReadBy(object, r)
      /\ method \in Methods
  <2>1. Len(<<>>) # 1
    OBVIOUS
  <2>2. readers # <<>>
    BY <2>1, Zenon
  <2> QED  BY <2>2, InnerReader DEF UInv, Nested
<1> HIDE DEF r
<1>2. RequiredIds(r.struct) \subseteq r.seen
  BY DEF r
<1>3. Filled(object, method, <<>>)
  BY <1>1, <1>2, FilledByReader
<1>4. ASSUME method \in ShipMethods PROVE Filled(object, "Ship", << 2 >>)
  <2>1. 2 \in RequiredIds(method) /\ Fields(method)[2].type = "struct"
        /\ Fields(method)[2].of = "Ship"
    BY <1>1, <1>4, MethodFields DEF RequiredIds
  <2>2. ReadAt(object, method, <<>>, 2)
    BY <1>1, <1>2, <2>1 DEF ReadBy
  <2> QED  BY <2>1, <2>2, ShipPaths DEF ReadAt
<1> QED  BY <1>1, <1>3, <1>4

(* What a structure inside another was, when it is complete.               *)
LEMMA StructRead ==
  ASSUME UInv, Len(readers) \in 2 .. 3,
         RequiredIds(Inner.struct) \subseteq Inner.seen
  PROVE  LET q == readers[Len(readers) - 1]
         IN  /\ Last(Inner.path) \in Nat
             /\ ReadAt(object, q.struct, q.path, Last(Inner.path))
<1> DEFINE r == Inner
           q == readers[Len(readers) - 1]
<1>1. readers # <<>>
  BY EmptySeq
<1>2. /\ r = readers[Len(readers)] /\ ReadBy(object, r) /\ method \in Methods
      /\ RequiredIds(r.struct) \subseteq r.seen
  BY <1>1, InnerReader
<1> HIDE DEF r
<1>3. Filled(object, r.struct, r.path)
  BY <1>2, FilledByReader
<1>4. CASE Len(readers) = 2
  <2>1. /\ r.struct = "Ship" /\ r.path = << 2 >> /\ method \in ShipMethods
        /\ q.struct = method /\ q.path = <<>>
    BY <1>2, <1>4 DEF UInv, Nested
  <2>2. Last(<< 2 >>) = 2
    BY DEF Last
  <2>3. ReadAt(object, method, <<>>, 2)
    BY <1>2, <1>3, <2>1, MethodFields, ShipPaths DEF ReadAt
  <2> QED  BY <2>1, <2>2, <2>3 DEF r
<1>5. CASE Len(readers) = 3
  <2>1. /\ r.struct = "Location" /\ r.path = <<2, 9>>
        /\ q.struct = "Ship" /\ q.path = << 2 >>
    BY <1>2, <1>5 DEF UInv, Nested
  <2>2. Last(<<2, 9>>) = 9
    BY DEF Last
  <2>3. ReadAt(object, "Ship", << 2 >>, 9)
    <3>1. /\ 9 \in DOMAIN Fields("Ship") /\ Fields("Ship")[9].type = "struct"
          /\ Fields("Ship")[9].of = "Location"
      BY ShipFields
    <3>2. Filled(object, Fields("Ship")[9].of, Append(<< 2 >>, 9))
      BY <1>3, <2>1, <3>1, ShipPaths
    <3> QED  BY <3>1, <3>2 DEF ReadAt
  <2> QED  BY <2>1, <2>2, <2>3 DEF r
<1> QED  BY <1>4, <1>5

LEMMA StructEndsStep ==
  ASSUME UInv, StructEnds
  PROVE  UInv'
<1> DEFINE L == Len(readers)
           id == Last(Inner.path)
           rs == Front(readers)
           q == readers[L - 1]
<1>1. /\ outcome = "reading" /\ at' = at /\ method' = method
      /\ object' = object /\ RequiredIds(Inner.struct) \subseteq Inner.seen
  BY DEF StructEnds, Turn
<1>2. readers # <<>>
  BY <1>1 DEF UInv, HandlerFit
<1>3. L \in 1 .. 3 /\ readers \in Readers /\ method \in Methods
  BY <1>2, InnerReader
<1>4. CASE L = 1
  <2>1. readers' = <<>> /\ outcome' = "called" /\ isset' = isset
    BY <1>4 DEF StructEnds
  <2>2. /\ Filled(object, method, <<>>)
        /\ method \in ShipMethods => Filled(object, "Ship", << 2 >>)
    BY <1>1, <1>4, ArgumentsEnd
  <2>3. <<>> \in Readers /\ Len(<<>>) = 0
    BY EmptySeq DEF Readers
  <2> QED  BY <1>1, <1>3, <2>1, <2>2, <2>3
           DEF UInv, Nested, SeenRead, HandlerFit
<1>5. CASE L \in 2 .. 3
  <2>1. /\ readers' = Seen(rs, id) /\ outcome' = outcome
        /\ isset' = IsSet(Last(rs), id)
    BY <1>5 DEF StructEnds
  <2>2. id \in Nat /\ ReadAt(object, q.struct, q.path, id)
    BY <1>1, <1>5, StructRead
  <2> DEFINE R == [struct : Methods \cup {"Ship", "Location"},
                   path : {<<>>, << 2 >>, <<2, 9>>}, seen : SUBSET Nat]
  <2>3. readers \in Seq(R)
    BY <1>3 DEF Readers
  <2> HIDE DEF R, id, L
  <2>4. /\ rs \in Seq(R) /\ Len(rs) = L - 1
        /\ \A k \in 1 .. L - 1 : rs[k] = readers[k]
    <3>1. \A k \in 1 .. L - 1 : readers[k] \in R
      BY <2>3 DEF L
    <3>2. /\ SubSeq(readers, 1, L - 1) \in Seq(R)
          /\ Len(SubSeq(readers, 1, L - 1)) = L - 1
          /\ \A k \in 1 .. L - 1 : SubSeq(readers, 1, L - 1)[k] = readers[k]
      BY <1>5, <3>1, SubSeqProperties
    <3> QED  BY <3>2 DEF Front, L
  <2> HIDE DEF rs
  <2>5. rs \in Readers /\ rs # <<>> /\ Last(rs) = q /\ q = rs[Len(rs)]
    BY <1>5, <2>4 DEF Readers, R, Last
  <2>6. \A k \in 1 .. Len(rs) : ReadBy(object, rs[k])
    BY <1>5, <2>4 DEF UInv, SeenRead, L
  <2>7. ReadAt(object, rs[Len(rs)].struct, rs[Len(rs)].path, id)
    BY <2>2, <2>5
  <2> DEFINE s == Seen(rs, id)
  <2>8. /\ s \in Readers /\ Len(s) = Len(rs)
        /\ \A k \in 1 .. Len(rs) : /\ s[k].struct = rs[k].struct
                                   /\ s[k].path = rs[k].path
                                   /\ ReadBy(object, s[k])
    BY <2>2, <2>5, <2>6, <2>7, SeenStep
  <2> HIDE DEF s
  <2>9. readers' = s
    BY <2>1 DEF s
  <2>10. Nested'
    <3>1. 1 \in 1 .. L - 1 /\ (L = 3 => 2 \in 1 .. L - 1)
      BY <1>5
    <3> QED  BY <1>1, <1>3, <1>5, <2>4, <2>8, <2>9, <3>1 DEF UInv, Nested, L
  <2>11. SeenRead'
    BY <1>1, <2>8, <2>9 DEF SeenRead
  <2>12. FlagRead(object, isset')
    <3>1. isset' = IF Fields(q.struct)[id].need = "optional"
                     THEN isset \cup {Append(q.path, id)} ELSE isset
      BY <2>1, <2>5 DEF IsSet
    <3>2. q.struct = method \/ (q.struct = "Ship" /\ q.path = << 2 >>)
      BY SMTT(30), <1>5 DEF UInv, Nested, L
    <3>3. FlagRead(object, isset)
      BY DEF UInv
    <3> HIDE DEF q
    <3> QED  BY <1>3, <2>2, <3>1, <3>2, <3>3, FlagSet
  <2>13. readers' # <<>>
    BY <1>5, <2>4, <2>8, <2>9
  <2> QED  BY <1>1, <2>1, <2>10, <2>11, <2>12, <2>13 DEF UInv, HandlerFit
<1> HIDE DEF L
<1> QED  BY <1>3, <1>4, <1>5

LEMMA ForwardStep ==
  ASSUME UInv, Forward
  PROVE  UInv'
<1>1. /\ outcome = "called" /\ readers = <<>> /\ readers' = readers
      /\ at' = "client" /\ object' = {} /\ isset' = {} /\ outcome' = "arrived"
  BY DEF Forward, UInv, HandlerFit
<1>2. <<>> \in Readers /\ Len(<<>>) = 0
  BY EmptySeq DEF Readers
<1>3. "client" \in DOMAIN ProcessMap
  BY DEF ProcessMap
<1> QED  BY <1>1, <1>2, <1>3 DEF UInv, Nested, SeenRead, FlagRead, HandlerFit

(* A message is taken up, which is one that some thread called.            *)
LEMMA ReceiveStep ==
  ASSUME SInv, UInv, Deliver
  PROVE  UInv'
<1> DEFINE m == Head(Head(wire)).message
<1>1. /\ wire # <<>> /\ wire \in Seq(Seq(Tokens)) /\ Receive(m, Tail(Head(wire)))
  BY DEF Deliver, SInv, Types
<1>2. m \in Calls
  <2>1. Head(wire) = wire[1] /\ 1 \in 1 .. Len(wire)
    BY <1>1, LenProperties, EmptySeq, HeadTailProperties
  <2>2. PICK n \in Calls : wire[1] = <<Begin(n)>> \o n.frame
    BY <2>1 DEF SInv, WireWhole, Whole
  <2> QED  BY <2>1, <2>2, WholeFrame
<1>3. m.at \in DOMAIN ProcessMap
  BY <1>2, ScriptsAssumption
<1> HIDE DEF m
<1>4. /\ at' = m.at /\ readers' = <<>> /\ object' = {} /\ isset' = {}
      /\ outcome' = "arrived"
  BY <1>1 DEF Receive
<1>5. <<>> \in Readers /\ Len(<<>>) = 0
  BY EmptySeq DEF Readers
<1> QED  BY <1>3, <1>4, <1>5 DEF UInv, Nested, SeenRead, FlagRead, HandlerFit

LEMMA InitUInv == CInit => UInv
<1> SUFFICES ASSUME CInit PROVE UInv
  OBVIOUS
<1>1. /\ at = "server" /\ readers = <<>> /\ object = {} /\ isset = {}
      /\ outcome = "waiting"
  BY DEF CInit, Init
<1>2. <<>> \in Readers /\ Len(<<>>) = 0
  BY EmptySeq DEF Readers
<1>3. "server" \in DOMAIN ProcessMap
  BY DEF ProcessMap
<1> QED  BY <1>1, <1>2, <1>3 DEF UInv, Nested, SeenRead, FlagRead, HandlerFit

LEMMA NextUInv ==
  SInv /\ UInv /\ [Next]_<<vars, senderVars, wire, calls, taken>> => UInv'
<1> SUFFICES ASSUME SInv, UInv,
                    [Next]_<<vars, senderVars, wire, calls, taken>>
             PROVE  UInv'
  OBVIOUS
<1>1. ASSUME UNCHANGED vars PROVE UInv'
  BY <1>1 DEF vars, UInv, Nested, SeenRead, HandlerFit
<1>2. ASSUME NEW t \in Threads,
             SendStarts(t) \/ WriteArgs(t) \/ Flush(t) \/ Commit(t)
      PROVE  UInv'
  BY <1>1, <1>2 DEF SendStarts, Starts, WriteArgs, Flush, Commit
<1>3. ASSUME Process PROVE UInv'
  BY <1>3, DispatchKnownStep, SkippingStep, ReadFieldStep, ReadStructStep,
     StructEndsStep, ForwardStep DEF Process
<1> QED  BY <1>1, <1>2, <1>3, ReceiveStep DEF Next

(* Whatever fields a peer sends, in whatever order and however often:      *)
(* when a handler is called, what write() would write has been read.       *)
THEOREM NothingUnreadCorrect == Spec => []NothingUnread
<1>1. SInv /\ UInv /\ [Next]_<<vars, senderVars, wire, calls, taken>>
        => (SInv /\ UInv)'
  BY NextSInv, NextUInv
<1> QED  BY <1>1, InitSInv, InitUInv, UInvUnread, PTL DEF Spec

-----------------------------------------------------------------------------
(* How frames nest. Reading the tokens of f one after the other leads from *)
(* d open structures to e, and at least one is open before each.           *)
Change(token) == IF token.kind = "stop" THEN -1
                 ELSE IF token.type = "struct" THEN 1 ELSE 0

Heights(f, h) ==
  /\ h \in [0 .. Len(f) -> Nat]
  /\ \A i \in 1 .. Len(f) : h[i - 1] > 0 /\ h[i] = h[i - 1] + Change(f[i])

Leads(f, d, e) == \E h : Heights(f, h) /\ h[0] = d /\ h[Len(f)] = e

LEMMA SetInduction ==
  ASSUME NEW S, 0 \in S, \A n \in Nat : n \in S => n + 1 \in S
  PROVE  Nat \subseteq S
<1> DEFINE R == OpToRel(<, Nat)
           T == {n \in Nat : n \notin S}
<1>1. \A x, y \in Nat : x < y => <<x, y>> \in R
  BY DEF OpToRel
<1> HIDE DEF R
<1>2. IsWellFoundedOn(R, Nat)
  BY NatLessThanWellFounded DEF R
<1>3. ASSUME T # {} PROVE FALSE
  <2>1. PICK x \in T : \A y \in T : ~ (<<y, x>> \in R)
    BY <1>2, <1>3, WFMin
  <2>2. x # 0 /\ x \in Nat
    BY <2>1
  <2>3. x - 1 \in Nat /\ x - 1 < x /\ x - 1 + 1 = x
    BY <2>2
  <2>4. x - 1 \notin T
    BY <1>1, <2>1, <2>2, <2>3
  <2> QED  BY <2>1, <2>3, <2>4
<1> QED  BY <1>3

(* Counting up to the next token.                                          *)
LEMMA OneMore ==
  ASSUME NEW n \in Nat, NEW P
  PROVE  /\ Cardinality({k \in 1 .. n : k \in P}) \in Nat
         /\ Cardinality({k \in 1 .. n + 1 : k \in P})
              = Cardinality({k \in 1 .. n : k \in P})
                  + (IF n + 1 \in P THEN 1 ELSE 0)
<1> DEFINE A == {k \in 1 .. n : k \in P}
           B == {k \in 1 .. n + 1 : k \in P}
<1>1. IsFiniteSet(A)
  <2>1. IsFiniteSet(1 .. n) /\ A \subseteq 1 .. n
    BY FS_Interval
  <2> QED  BY <2>1, FS_Subset
<1>2. n + 1 \notin A
  OBVIOUS
<1>3. B = IF n + 1 \in P THEN A \cup {n + 1} ELSE A
  OBVIOUS
<1> HIDE DEF A, B
<1>4. Cardinality(A) \in Nat
  BY <1>1, FS_CardinalityType
<1>5. Cardinality(A \cup {n + 1}) = Cardinality(A) + 1
  BY <1>1, <1>2, FS_AddElement
<1>6. Cardinality(B) = Cardinality(A) + (IF n + 1 \in P THEN 1 ELSE 0)
  BY <1>3, <1>4, <1>5
<1> QED  BY <1>4, <1>6 DEF A, B

LEMMA OpenAfterNext ==
  ASSUME NEW f, NEW n \in Nat,
         f[n + 1].kind = "stop" => f[n + 1].type # "struct"
  PROVE  /\ OpenAfter(f, n) \in Int
         /\ OpenAfter(f, n + 1) = OpenAfter(f, n) + Change(f[n + 1])
<1> DEFINE P == {k \in 1 .. n + 1 : f[k].type = "struct"}
           Q == {k \in 1 .. n + 1 : f[k].kind = "stop"}
           C(m, S) == Cardinality({k \in 1 .. m : k \in S})
<1>1. /\ {k \in 1 .. n : f[k].type = "struct"} = {k \in 1 .. n : k \in P}
      /\ {k \in 1 .. n + 1 : f[k].type = "struct"} = {k \in 1 .. n + 1 : k \in P}
      /\ {k \in 1 .. n : f[k].kind = "stop"} = {k \in 1 .. n : k \in Q}
      /\ {k \in 1 .. n + 1 : f[k].kind = "stop"} = {k \in 1 .. n + 1 : k \in Q}
  OBVIOUS
<1>2. /\ OpenAfter(f, n) = 1 + C(n, P) - C(n, Q)
      /\ OpenAfter(f, n + 1) = 1 + C(n + 1, P) - C(n + 1, Q)
  BY <1>1 DEF OpenAfter
<1>3. /\ (n + 1 \in P) <=> (f[n + 1].type = "struct")
      /\ (n + 1 \in Q) <=> (f[n + 1].kind = "stop")
  OBVIOUS
<1> HIDE DEF P, Q
<1>4. /\ C(n, P) \in Nat /\ C(n, Q) \in Nat
      /\ C(n + 1, P) = C(n, P) + (IF n + 1 \in P THEN 1 ELSE 0)
      /\ C(n + 1, Q) = C(n, Q) + (IF n + 1 \in Q THEN 1 ELSE 0)
  BY OneMore
<1> HIDE DEF C
<1> QED  BY <1>2, <1>3, <1>4 DEF Change

LEMMA WellFormedLeads ==
  ASSUME NEW S, NEW f \in Seq(S), WellFormed(f)
  PROVE  Leads(f, 1, 0)
<1> DEFINE h == [i \in 0 .. Len(f) |-> OpenAfter(f, i)]
<1>1. Len(f) \in Nat /\ DOMAIN f = 1 .. Len(f)
  BY LenProperties
<1>2. OpenAfter(f, 0) = 1
  <2>1. /\ {k \in 1 .. 0 : f[k].type = "struct"} = {}
        /\ {k \in 1 .. 0 : f[k].kind = "stop"} = {}
    OBVIOUS
  <2>2. Cardinality({}) = 0
    BY FS_EmptySet
  <2> QED  BY <2>1, <2>2 DEF OpenAfter
<1>3. \A i \in 0 .. Len(f) : OpenAfter(f, i) \in Nat
                             /\ (OpenAfter(f, i) = 0 <=> i = Len(f))
  BY DEF WellFormed
<1>4. ASSUME NEW i \in 1 .. Len(f)
      PROVE  OpenAfter(f, i - 1) > 0
             /\ OpenAfter(f, i) = OpenAfter(f, i - 1) + Change(f[i])
  <2>1. i - 1 \in 0 .. Len(f) /\ i - 1 # Len(f) /\ i - 1 \in Nat
        /\ (i - 1) + 1 = i
    BY <1>1
  <2>2. f[i].kind = "stop" => f[i].type # "struct"
    BY <1>1 DEF WellFormed
  <2>3. OpenAfter(f, i) = OpenAfter(f, i - 1) + Change(f[i])
    BY <2>1, <2>2, OpenAfterNext
  <2> QED  BY <1>3, <2>1, <2>3
<1>5. \A i \in 1 .. Len(f) : i \in 0 .. Len(f) /\ i - 1 \in 0 .. Len(f)
  BY <1>1
<1>6. 0 \in 0 .. Len(f) /\ Len(f) \in 0 .. Len(f)
  BY <1>1
<1>7. Heights(f, h)
  BY <1>3, <1>4, <1>5 DEF Heights
<1>8. h[0] = 1 /\ h[Len(f)] = 0
  BY <1>2, <1>3, <1>6
<1> QED  BY <1>7, <1>8 DEF Leads

LEMMA LeadsEmpty ==
  ASSUME NEW d \in Nat
  PROVE  Leads(<<>>, d, d)
<1> DEFINE h == [i \in 0 .. 0 |-> d]
<1>1. Len(<<>>) = 0
  OBVIOUS
<1>2. h \in [0 .. 0 -> Nat] /\ h[0] = d /\ 1 .. 0 = {}
  OBVIOUS
<1> HIDE DEF h
<1>3. Heights(<<>>, h)
  BY <1>1, <1>2 DEF Heights
<1> QED  BY <1>1, <1>2, <1>3 DEF Leads

LEMMA LeadsOne ==
  ASSUME NEW token, NEW d \in Nat, d > 0, d + Change(token) \in Nat
  PROVE  Leads(<<token>>, d, d + Change(token))
<1> DEFINE h == [i \in 0 .. 1 |-> IF i = 0 THEN d ELSE d + Change(token)]
<1>1. Len(<<token>>) = 1 /\ <<token>>[1] = token
  OBVIOUS
<1>2. /\ h \in [0 .. 1 -> Nat] /\ h[0] = d /\ h[1] = d + Change(token)
  OBVIOUS
<1> HIDE DEF h
<1>3. \A i \in 1 .. 1 : i = 1 /\ i - 1 = 0
  OBVIOUS
<1>4. Heights(<<token>>, h)
  BY <1>1, <1>2, <1>3 DEF Heights
<1> QED  BY <1>1, <1>2, <1>4 DEF Leads

LEMMA LeadsOn ==
  ASSUME NEW S, NEW f \in Seq(S), NEW g \in Seq(S), NEW d, NEW e, NEW k,
         Leads(f, d, e), Leads(g, e, k)
  PROVE  Leads(f \o g, d, k)
<1>1. PICK a : Heights(f, a) /\ a[0] = d /\ a[Len(f)] = e
  BY DEF Leads
<1>2. PICK b : Heights(g, b) /\ b[0] = e /\ b[Len(g)] = k
  BY DEF Leads
<1> DEFINE m == Len(f)
           n == Len(g)
           u == f \o g
           h == [i \in 0 .. m + n |-> IF i <= m THEN a[i] ELSE b[i - m]]
<1>3. /\ m \in Nat /\ n \in Nat /\ Len(u) = m + n
      /\ \A i \in 1 .. m + n : u[i] = IF i <= m THEN f[i] ELSE g[i - m]
  BY ConcatProperties, LenProperties
<1>4. /\ a \in [0 .. m -> Nat] /\ b \in [0 .. n -> Nat]
      /\ \A i \in 1 .. m : a[i - 1] > 0 /\ a[i] = a[i - 1] + Change(f[i])
      /\ \A i \in 1 .. n : b[i - 1] > 0 /\ b[i] = b[i - 1] + Change(g[i])
      /\ a[m] = b[0] /\ a[0] = d /\ b[n] = k
  BY <1>1, <1>2 DEF Heights
<1> HIDE DEF m, n, u
<1>5. ASSUME NEW i \in 0 .. m + n
      PROVE  /\ h[i] \in Nat /\ h[i] = IF i <= m THEN a[i] ELSE b[i - m]
             /\ i >= m => h[i] = b[i - m]
  <2>1. CASE i < m
    <3>1. i \in 0 .. m /\ i <= m /\ ~(i >= m)
      BY <1>3, <2>1
    <3> QED  BY <1>4, <3>1
  <2>2. CASE i = m
    <3>1. i \in 0 .. m /\ i <= m /\ i - m = 0
      BY <1>3, <2>2
    <3> QED  BY <1>4, <2>2, <3>1
  <2>3. CASE i > m
    <3>1. i - m \in 0 .. n /\ ~(i <= m)
      BY <1>3, <2>3
    <3> QED  BY <1>4, <3>1
  <2> QED  BY <1>3, <2>1, <2>2, <2>3
<1>6. h \in [0 .. m + n -> Nat]
  BY <1>5
<1> HIDE DEF h
<1>7. ASSUME NEW i \in 1 .. m + n
      PROVE  h[i - 1] > 0 /\ h[i] = h[i - 1] + Change(u[i])
  <2>1. i \in 0 .. m + n /\ i - 1 \in 0 .. m + n
    BY <1>3
  <2>2. CASE i <= m
    <3>1. i \in 1 .. m /\ i - 1 <= m
      BY <1>3, <2>2
    <3>2. h[i] = a[i] /\ h[i - 1] = a[i - 1] /\ u[i] = f[i]
      BY <1>3, <1>5, <2>1, <2>2, <3>1
    <3> QED  BY <1>4, <3>1, <3>2
  <2>3. CASE ~(i <= m)
    <3>1. i - m \in 1 .. n /\ i >= m /\ i - 1 >= m /\ (i - 1) - m = (i - m) - 1
      BY <1>3, <2>3
    <3>2. h[i] = b[i - m] /\ h[i - 1] = b[(i - m) - 1] /\ u[i] = g[i - m]
      BY <1>3, <1>5, <2>1, <2>3, <3>1
    <3> QED  BY <1>4, <3>1, <3>2
  <2> QED  BY <2>2, <2>3
<1>8. Heights(u, h)
  BY <1>3, <1>6, <1>7 DEF Heights
<1>9. h[0] = d /\ h[Len(u)] = k
  <2>1. 0 \in 0 .. m + n /\ 0 <= m /\ m + n \in 0 .. m + n /\ m + n >= m
        /\ (m + n) - m = n
    BY <1>3
  <2> QED  BY <1>3, <1>4, <1>5, <2>1
<1>10. Leads(u, d, k)
  BY <1>8, <1>9 DEF Leads
<1> QED  BY <1>10 DEF u

(* The next token, and the rest.                                           *)
LEMMA LeadsTail ==
  ASSUME NEW S, NEW f \in Seq(S), f # <<>>, NEW d, NEW e, Leads(f, d, e)
  PROVE  /\ d \in Nat /\ d > 0 /\ d + Change(Head(f)) \in Nat
         /\ Leads(Tail(f), d + Change(Head(f)), e)
<1>1. PICK h : Heights(f, h) /\ h[0] = d /\ h[Len(f)] = e
  BY DEF Leads
<1> DEFINE m == Len(f)
           t == Tail(f)
           g == [i \in 0 .. m - 1 |-> h[i + 1]]
<1>2. /\ m \in Nat /\ m > 0 /\ Len(t) = m - 1
      /\ \A i \in 1 .. m - 1 : t[i] = f[i + 1]
      /\ Head(f) = f[1]
  <2>1. m \in Nat /\ m # 0
    BY LenProperties, EmptySeq
  <2>2. /\ Len(t) = m - 1 /\ Head(f) = f[1]
        /\ \A i \in 1 .. Len(t) : t[i] = f[i + 1]
    BY HeadTailProperties
  <2> QED  BY <2>1, <2>2
<1>3. /\ h \in [0 .. m -> Nat]
      /\ \A i \in 1 .. m : h[i - 1] > 0 /\ h[i] = h[i - 1] + Change(f[i])
  BY <1>1 DEF Heights
<1> HIDE DEF m, t
<1>4. 1 \in 1 .. m /\ 1 - 1 = 0 /\ 0 \in 0 .. m /\ 1 \in 0 .. m
  BY <1>2
<1>5. h[0] > 0 /\ h[1] = d + Change(Head(f)) /\ h[0] \in Nat /\ h[1] \in Nat
  BY <1>1, <1>2, <1>3, <1>4
<1>6. \A i \in 0 .. m - 1 : i + 1 \in 0 .. m
  BY <1>2
<1>7. g \in [0 .. m - 1 -> Nat]
  BY <1>3, <1>6
<1>8. ASSUME NEW i \in 1 .. m - 1
      PROVE  g[i - 1] > 0 /\ g[i] = g[i - 1] + Change(t[i])
  <2>1. /\ i \in 0 .. m - 1 /\ i - 1 \in 0 .. m - 1 /\ i + 1 \in 1 .. m
        /\ (i - 1) + 1 = i /\ (i + 1) - 1 = i
    BY <1>2
  <2>2. g[i] = h[i + 1] /\ g[i - 1] = h[i] /\ t[i] = f[i + 1]
    BY <1>2, <2>1
  <2>3. h[(i + 1) - 1] > 0 /\ h[i + 1] = h[(i + 1) - 1] + Change(f[i + 1])
    BY <1>3, <2>1
  <2> QED  BY <2>1, <2>2, <2>3
<1>9. g[0] = h[1] /\ g[m - 1] = h[m]
  <2>1. 0 \in 0 .. m - 1 /\ m - 1 \in 0 .. m - 1 /\ 0 + 1 = 1 /\ (m - 1) + 1 = m
    BY <1>2
  <2> QED  BY <2>1
<1> HIDE DEF g
<1>10. Heights(t, g)
  BY <1>2, <1>7, <1>8 DEF Heights
<1>11. Leads(t, d + Change(Head(f)), e)
  BY <1>1, <1>2, <1>5, <1>9, <1>10 DEF Leads, m
<1> QED  BY <1>1, <1>5, <1>11 DEF t

(* With no structure open nothing is left, and with one open something is. *)
LEMMA LeadsEnd ==
  ASSUME NEW S, NEW f \in Seq(S), NEW d, Leads(f, d, 0)
  PROVE  f = <<>> <=> d = 0
<1>1. f # <<>> => d > 0 /\ d \in Nat
  BY LeadsTail
<1>2. ASSUME f = <<>> PROVE d = 0
  <2>1. Len(f) = 0
    BY <1>2
  <2> QED  BY <2>1 DEF Leads
<1> QED  BY <1>1, <1>2

(* FlattenSeq joins the pieces one after the other.                        *)
Joining(f, p, n) ==
  f = [i \in 1 .. n |-> IF i = 1 THEN p[i] ELSE f[i - 1] \o p[i]]

LEMMA JoiningExists ==
  ASSUME NEW p, NEW n \in Nat
  PROVE  \E f : Joining(f, p, n)
<1> DEFINE G(f, k) == f = [i \in 1 .. k |->
                             IF i = 1 THEN p[i] ELSE f[i - 1] \o p[i]]
           S == {k \in Nat : \E f : G(f, k)}
<1>1. 0 \in S
  <2> DEFINE f == [i \in 1 .. 0 |-> p[i]]
  <2>1. G(f, 0)
    OBVIOUS
  <2> QED  BY <2>1
<1>2. ASSUME NEW k \in Nat, k \in S PROVE k + 1 \in S
  <2>1. PICK f : G(f, k)
    BY <1>2
  <2> DEFINE x == IF k = 0 THEN p[1] ELSE f[k] \o p[k + 1]
             g == [i \in 1 .. k + 1 |-> IF i <= k THEN f[i] ELSE x]
             h == [i \in 1 .. k + 1 |->
                     IF i = 1 THEN p[i] ELSE g[i - 1] \o p[i]]
  <2> HIDE DEF x
  <2>2. ASSUME NEW i \in 1 .. k + 1 PROVE g[i] = h[i]
    <3>1. CASE i <= k
      <4>1. i \in 1 .. k /\ (i # 1 => i - 1 \in 1 .. k + 1 /\ i - 1 <= k)
        BY <3>1
      <4>2. g[i] = f[i] /\ (i # 1 => g[i - 1] = f[i - 1])
        BY <3>1, <4>1
      <4>3. f[i] = IF i = 1 THEN p[i] ELSE f[i - 1] \o p[i]
        BY <2>1, <4>1
      <4> QED  BY <4>2, <4>3
    <3>2. CASE i = k + 1 /\ k = 0
      <4>1. g[i] = x /\ h[i] = p[1] /\ x = p[1]
        BY <3>2 DEF x
      <4> QED  BY <4>1
    <3>3. CASE i = k + 1 /\ k # 0
      <4>1. /\ ~(i <= k) /\ i # 1 /\ i - 1 = k
            /\ k \in 1 .. k + 1 /\ k <= k
        BY <3>3
      <4>2. g[i] = x /\ g[k] = f[k] /\ h[i] = g[i - 1] \o p[i]
        BY <4>1
      <4>3. x = f[k] \o p[k + 1]
        BY <3>3 DEF x
      <4> QED  BY <3>3, <4>1, <4>2, <4>3
    <3> QED  BY <3>1, <3>2, <3>3
  <2>3. g = h
    BY <2>2
  <2> HIDE DEF g
  <2>4. G(g, k + 1)
    BY <2>3
  <2>5. \E e : G(e, k + 1)
    BY <2>4
  <2> HIDE DEF G
  <2> QED  BY <2>5
<1>3. Nat \subseteq S
  BY <1>1, <1>2, SetInduction
<1> QED  BY <1>3 DEF Joining

LEMMA LeadsAlong ==
  ASSUME NEW S, NEW n \in Nat \ {0}, NEW p, Len(p) = n, NEW d,
         \A i \in 1 .. n : p[i] \in Seq(S) /\ Leads(p[i], d, d)
  PROVE  FlattenSeq(p) \in Seq(S) /\ Leads(FlattenSeq(p), d, d)
<1> DEFINE flatten[i \in 1 .. Len(p)] ==
             IF i = 1 THEN p[i] ELSE flatten[i - 1] \o p[i]
           R(f) == Joining(f, p, n)
           I == {i \in Nat : i + 1 <= n => /\ flatten[i + 1] \in Seq(S)
                                           /\ Leads(flatten[i + 1], d, d)}
<1>1. FlattenSeq(p) = flatten[n]
  BY DEF FlattenSeq
<1>2. R(flatten)
  <2>1. \E f : R(f)
    BY JoiningExists
  <2>2. flatten = CHOOSE f : R(f)
    BY DEF Joining
  <2> QED  BY <2>1, <2>2
<1> HIDE DEF flatten
<1>3. \A i \in 1 .. n :
        flatten[i] = IF i = 1 THEN p[i] ELSE flatten[i - 1] \o p[i]
  BY <1>2 DEF Joining
<1>4. 0 \in I
  <2>1. 1 \in 1 .. n /\ flatten[1] = p[1]
    BY <1>3
  <2> QED  BY <2>1
<1>5. ASSUME NEW i \in Nat, i \in I PROVE i + 1 \in I
  <2> SUFFICES ASSUME (i + 1) + 1 <= n
               PROVE  /\ flatten[(i + 1) + 1] \in Seq(S)
                      /\ Leads(flatten[(i + 1) + 1], d, d)
    OBVIOUS
  <2> DEFINE j == i + 1
  <2>1. j + 1 \in 1 .. n /\ j + 1 # 1 /\ (j + 1) - 1 = j
    OBVIOUS
  <2>2. flatten[j] \in Seq(S) /\ Leads(flatten[j], d, d)
    BY <1>5
  <2> HIDE DEF j
  <2>3. flatten[j + 1] = flatten[j] \o p[j + 1]
    BY <1>3, <2>1
  <2>4. p[j + 1] \in Seq(S) /\ Leads(p[j + 1], d, d)
    BY <2>1
  <2>5. flatten[j] \o p[j + 1] \in Seq(S)
    BY <2>2, <2>4, ConcatProperties
  <2>6. Leads(flatten[j] \o p[j + 1], d, d)
    BY <2>2, <2>4, LeadsOn
  <2> QED  BY <2>3, <2>5, <2>6 DEF j
<1>6. Nat \subseteq I
  <2> HIDE DEF I
  <2> QED  BY <1>4, <1>5, SetInduction
<1>7. n - 1 \in Nat /\ (n - 1) + 1 = n /\ (n - 1) + 1 <= n
  OBVIOUS
<1>8. n - 1 \in I
  BY <1>6, <1>7
<1> QED  BY <1>1, <1>7, <1>8

(* What write() writes of a structure ends it, and nothing around it.      *)
LEMMA LeadsStruct ==
  ASSUME NEW S, NEW s, NEW n \in Nat \ {0}, DOMAIN Fields(s) = 1 .. n,
         NEW path, NEW nested \in Seq(S), NEW d \in Nat \ {0}, Stop \in S,
         \A id \in 1 .. n :
           /\ Field(id, "struct", 0) \in S
           /\ Field(id, Fields(s)[id].type, ValueAt(Append(path, id))) \in S
           /\ Fields(s)[id].type = "struct" => Leads(nested, d + 1, d)
  PROVE  /\ WriteStruct(s, path, nested) \in Seq(S)
         /\ Leads(WriteStruct(s, path, nested), d, d - 1)
<1> DEFINE open(id) == Field(id, "struct", 0)
           leaf(id) == Field(id, Fields(s)[id].type, ValueAt(Append(path, id)))
           written(id) ==
             LET f == Fields(s)[id]
                 p == Append(path, id)
             IN  IF ~IsWritten(f, p) THEN <<>>
                 ELSE IF f.type = "struct" THEN <<open(id)>> \o nested
                 ELSE <<leaf(id)>>
           p == [id \in 1 .. n |-> written(id)]
<1>1. WriteStruct(s, path, nested) = FlattenSeq(p) \o <<Stop>>
  BY DEF WriteStruct
<1>2. ASSUME NEW id \in 1 .. n
      PROVE  p[id] \in Seq(S) /\ Leads(p[id], d, d)
  <2>1. p[id] = written(id)
    OBVIOUS
  <2>2. CASE p[id] = <<>>
    BY <2>2, LeadsEmpty, EmptySeq
  <2>3. CASE p[id] = <<open(id)>> \o nested /\ Fields(s)[id].type = "struct"
    <3> DEFINE o == open(id)
    <3>1. Change(o) = 1
      BY DEF Change, Field
    <3>2. o \in S
      OBVIOUS
    <3> HIDE DEF open, o, p
    <3>3. <<o>> \in Seq(S) /\ Leads(<<o>>, d, d + 1)
      BY <3>1, <3>2, LeadsOne
    <3>4. Leads(nested, d + 1, d)
      BY <2>3
    <3>5. <<o>> \o nested \in Seq(S)
      BY <3>3, ConcatProperties
    <3>6. Leads(<<o>> \o nested, d, d)
      BY <3>3, <3>4, LeadsOn
    <3> QED  BY <2>3, <3>5, <3>6 DEF o
  <2>4. CASE p[id] = <<leaf(id)>> /\ Fields(s)[id].type # "struct"
    <3> DEFINE l == leaf(id)
    <3>1. Change(l) = 0
      BY <2>4 DEF Change, Field
    <3>2. l \in S
      OBVIOUS
    <3> HIDE DEF leaf, l, p
    <3>3. <<l>> \in Seq(S) /\ Leads(<<l>>, d, d + 0)
      BY <3>1, <3>2, LeadsOne
    <3> QED  BY <2>4, <3>3 DEF l
  <2> HIDE DEF open, leaf, p
  <2> QED  BY <2>1, <2>2, <2>3, <2>4
<1>3. Len(p) = n
  OBVIOUS
<1> HIDE DEF p
<1> DEFINE u == FlattenSeq(p)
<1>4. u \in Seq(S) /\ Leads(u, d, d)
  BY <1>2, <1>3, LeadsAlong
<1>5. <<Stop>> \in Seq(S) /\ Leads(<<Stop>>, d, d - 1)
  <2>1. Change(Stop) = -1
    BY DEF Change, Stop
  <2>2. d + Change(Stop) = d - 1 /\ d - 1 \in Nat
    BY <2>1
  <2>3. Leads(<<Stop>>, d, d - 1)
    BY <2>2, LeadsOne
  <2> QED  BY <2>3
<1> HIDE DEF u
<1>6. u \o <<Stop>> \in Seq(S)
  BY <1>4, <1>5, ConcatProperties
<1>7. Leads(u \o <<Stop>>, d, d - 1)
  BY <1>4, <1>5, LeadsOn
<1> QED  BY <1>1, <1>6, <1>7 DEF u

(* The frame in which the server passes a ship on.                         *)
ForwardFrame ==
  <<Field(1, "string", UserName), Field(2, "struct", 0)>>
    \o WriteShip(<< 2 >>) \o <<Stop>>

IsToken(token) == /\ token.kind \in {"field", "stop"}
                  /\ token.kind = "stop" => token.type # "struct"

Framed(f) == \E S : f \in Seq(S) /\ \A token \in S : IsToken(token)

(* What it is made of.                                                     *)
ForwardValues ==
  {0, UserName} \cup {ValueAt(Append(<< 2 >>, id)) : id \in 1 .. 11}
    \cup {ValueAt(Append(Append(<< 2 >>, 9), id)) : id \in 1 .. 2}
ForwardTypes ==
  {"string", "struct"} \cup {Ship[id].type : id \in 1 .. 11}
    \cup {Location[id].type : id \in 1 .. 2}
ForwardTokens ==
  [kind : {"field"}, id : 0 .. 11, type : ForwardTypes, val : ForwardValues]
    \cup {Stop}

LEMMA ForwardTokensHave ==
  /\ \A token \in ForwardTokens : IsToken(token)
  /\ Stop \in ForwardTokens
  /\ Field(1, "string", UserName) \in ForwardTokens
  /\ Field(2, "struct", 0) \in ForwardTokens
  /\ \A id \in 1 .. 11 :
       /\ Field(id, "struct", 0) \in ForwardTokens
       /\ Field(id, Ship[id].type, ValueAt(Append(<< 2 >>, id))) \in ForwardTokens
  /\ \A id \in 1 .. 2 :
       /\ Field(id, "struct", 0) \in ForwardTokens
       /\ Field(id, Location[id].type,
                ValueAt(Append(Append(<< 2 >>, 9), id))) \in ForwardTokens
<1>1. \A token \in ForwardTokens : IsToken(token)
  BY DEF ForwardTokens, IsToken, Stop
<1>2. \A id \in 0 .. 11, t \in ForwardTypes, v \in ForwardValues :
        Field(id, t, v) \in ForwardTokens
  BY DEF ForwardTokens, Field
<1>3. Stop \in ForwardTokens
  BY DEF ForwardTokens
<1>4. /\ 0 \in ForwardValues /\ UserName \in ForwardValues
      /\ "struct" \in ForwardTypes /\ "string" \in ForwardTypes
  BY DEF ForwardValues, ForwardTypes
<1>5. /\ \A id \in 1 .. 11 : /\ ValueAt(Append(<< 2 >>, id)) \in ForwardValues
                             /\ Ship[id].type \in ForwardTypes
      /\ \A id \in 1 .. 2 :
           /\ ValueAt(Append(Append(<< 2 >>, 9), id)) \in ForwardValues
           /\ Location[id].type \in ForwardTypes
  BY DEF ForwardValues, ForwardTypes
<1>6. /\ \A id \in 1 .. 11 : id \in 0 .. 11
      /\ \A id \in 1 .. 2 : id \in 0 .. 11
  OBVIOUS
<1> QED  BY <1>1, <1>2, <1>3, <1>4, <1>5, <1>6

LEMMA ForwardLeads == Framed(ForwardFrame) /\ Leads(ForwardFrame, 1, 0)
<1> DEFINE S == ForwardTokens
           a == Field(1, "string", UserName)
           b == Field(2, "struct", 0)
           loc == WriteLocation(Append(<< 2 >>, 9))
           ship == WriteShip(<< 2 >>)
<1>1. \A token \in S : IsToken(token)
  BY ForwardTokensHave
<1>2. Stop \in S /\ a \in S /\ b \in S
  BY ForwardTokensHave
<1>3. /\ \A id \in 1 .. 11 :
           /\ Field(id, "struct", 0) \in S
           /\ Field(id, Ship[id].type, ValueAt(Append(<< 2 >>, id))) \in S
      /\ \A id \in 1 .. 2 :
           /\ Field(id, "struct", 0) \in S
           /\ Field(id, Location[id].type,
                    ValueAt(Append(Append(<< 2 >>, 9), id))) \in S
  BY ForwardTokensHave
<1> HIDE DEF S
<1>4. loc \in Seq(S) /\ Leads(loc, 3, 2)
  <2>1. <<>> \in Seq(S) /\ DOMAIN Fields("Location") = 1 .. 2
    BY LocationFields, EmptySeq
  <2>2. \A id \in 1 .. 2 :
          /\ Field(id, "struct", 0) \in S
          /\ Field(id, Fields("Location")[id].type,
                   ValueAt(Append(Append(<< 2 >>, 9), id))) \in S
          /\ Fields("Location")[id].type # "struct"
    BY <1>3, LocationFields
  <2>3. 3 \in Nat \ {0} /\ 2 \in Nat \ {0} /\ 3 - 1 = 2
    OBVIOUS
  <2>4. /\ WriteStruct("Location", Append(<< 2 >>, 9), <<>>) \in Seq(S)
        /\ Leads(WriteStruct("Location", Append(<< 2 >>, 9), <<>>), 3, 3 - 1)
    BY <1>2, <2>1, <2>2, <2>3, LeadsStruct
  <2> QED  BY <2>3, <2>4 DEF WriteLocation
<1> HIDE DEF loc
<1>5. ship \in Seq(S) /\ Leads(ship, 2, 1)
  <2>1. DOMAIN Fields("Ship") = 1 .. 11
    BY ShipFields
  <2>2. \A id \in 1 .. 11 :
          /\ Field(id, "struct", 0) \in S
          /\ Field(id, Fields("Ship")[id].type,
                   ValueAt(Append(<< 2 >>, id))) \in S
    BY <1>3, ShipFields
  <2>3. 11 \in Nat \ {0} /\ 2 \in Nat \ {0} /\ 2 - 1 = 1 /\ 2 + 1 = 3
    OBVIOUS
  <2>4. /\ WriteStruct("Ship", << 2 >>, loc) \in Seq(S)
        /\ Leads(WriteStruct("Ship", << 2 >>, loc), 2, 2 - 1)
    BY <1>2, <1>4, <2>1, <2>2, <2>3, LeadsStruct
  <2> QED  BY <2>3, <2>4 DEF WriteShip, loc
<1> HIDE DEF ship
<1>6. <<a, b>> \in Seq(S) /\ Leads(<<a, b>>, 1, 2)
  <2>1. Change(a) = 0 /\ Change(b) = 1
    BY DEF Change, Field
  <2>2. a \in S /\ b \in S
    BY <1>2
  <2> HIDE DEF a, b
  <2>3. Leads(<<a>>, 1, 1 + Change(a)) /\ Leads(<<b>>, 1, 1 + Change(b))
    BY <2>1, LeadsOne
  <2>4. Leads(<<a>>, 1, 1) /\ Leads(<<b>>, 1, 2)
    BY <2>1, <2>3
  <2>5. <<a>> \in Seq(S) /\ <<b>> \in Seq(S)
    BY <2>2
  <2>6. Leads(<<a>> \o <<b>>, 1, 2)
    BY <2>4, <2>5, LeadsOn
  <2>7. <<a>> \o <<b>> = <<a, b>>
    BY <2>2, Pair, <2>5, AppendIsConcat
  <2>8. <<a, b>> \in Seq(S)
    BY <2>2
  <2> QED  BY <2>6, <2>7, <2>8
<1> DEFINE head == <<a, b>>
<1>7. head \in Seq(S) /\ Leads(head, 1, 2)
  BY <1>6
<1> HIDE DEF head
<1>8. <<Stop>> \in Seq(S) /\ Leads(<<Stop>>, 1, 0)
  <2>1. 1 + Change(Stop) = 0
    BY DEF Change, Stop
  <2>2. Leads(<<Stop>>, 1, 0)
    BY <2>1, LeadsOne
  <2> QED  BY <1>2, <2>2
<1>9. head \o ship \in Seq(S) /\ Leads(head \o ship, 1, 1)
  BY <1>5, <1>7, ConcatProperties, LeadsOn
<1>10. /\ head \o ship \o <<Stop>> \in Seq(S)
       /\ Leads(head \o ship \o <<Stop>>, 1, 0)
  BY <1>8, <1>9, ConcatProperties, LeadsOn
<1> QED  BY <1>1, <1>10 DEF Framed, ForwardFrame, head, ship

-----------------------------------------------------------------------------
(* What is left of a frame ends the structures that are open: those read   *)
(* by a read(), one inside the other, and those skip() is in.              *)
FInv ==
  /\ Framed(frame) /\ depth \in Nat /\ outcome \in Outcomes
  /\ outcome = "arrived" => readers = <<>> /\ depth = 0 /\ Leads(frame, 1, 0)
  /\ outcome \in {"reading", "skipping"} =>
       Leads(frame, Len(readers) + depth, 0)
  /\ outcome = "skipping" => readers = <<>>
  /\ outcome = "called" => depth = 0
  /\ FrameConsumed

LEMMA TokenTaken ==
  ASSUME FInv, outcome \in {"reading", "skipping"}, frame # <<>>,
         frame' = Tail(frame)
  PROVE  /\ Framed(frame') /\ IsToken(Head(frame))
         /\ Leads(frame', Len(readers) + depth + Change(Head(frame)), 0)
<1>1. PICK S : /\ frame \in Seq(S)
               /\ \A token \in S : IsToken(token)
  BY DEF FInv, Framed
<1>2. Tail(frame) \in Seq(S) /\ Head(frame) \in S
  BY <1>1, HeadTailProperties
<1>3. Leads(frame, Len(readers) + depth, 0)
  BY DEF FInv
<1>4. Leads(Tail(frame), Len(readers) + depth + Change(Head(frame)), 0)
  BY <1>1, <1>3, LeadsTail
<1> QED  BY <1>1, <1>2, <1>4 DEF Framed

LEMMA NothingOpen ==
  ASSUME NEW f, Framed(f), Leads(f, 0, 0)
  PROVE  f = <<>>
<1>1. PICK S : f \in Seq(S)
  BY DEF Framed
<1> QED  BY <1>1, LeadsEnd

LEMMA LenAppend ==
  ASSUME NEW S, NEW s \in Seq(S), NEW e
  PROVE  Len(Append(s, e)) = Len(s) + 1
<1> DEFINE T == S \cup {e}
<1>1. \A i \in 1 .. Len(s) : s[i] \in T
  OBVIOUS
<1>2. s = [i \in 1 .. Len(s) |-> s[i]] /\ Len(s) \in Nat
  OBVIOUS
<1>3. e \in T
  OBVIOUS
<1> HIDE DEF T
<1>4. s \in Seq(T)
  BY <1>1, <1>2
<1> QED  BY <1>3, <1>4, AppendProperties

(* The token is a field that read() takes itself.                          *)
LEMMA ReadFieldFrame ==
  ASSUME UInv, FInv, ReadField
  PROVE  FInv'
<1>1. /\ outcome = "reading" /\ outcome' = outcome /\ frame # <<>>
      /\ frame' = Tail(frame) /\ depth = 0 /\ depth' = depth
      /\ Head(frame).kind = "field" /\ Head(frame).type # "struct"
      /\ readers' = Seen(readers, Head(frame).id)
      /\ Head(frame).id \in DOMAIN Fields(Inner.struct)
  BY DEF ReadField, Turn, IsKnown
<1>2. readers # <<>> /\ readers \in Readers /\ Head(frame).id \in Nat
  BY <1>1, InnerReader DEF UInv, HandlerFit
<1>3. Len(readers') = Len(readers) /\ Len(readers) \in Nat
  BY <1>1, <1>2, SeenReaders, LenProperties DEF Readers
<1>4. Framed(frame') /\ Leads(frame', Len(readers) + depth + 0, 0)
  BY <1>1, TokenTaken DEF Change
<1>5. Leads(frame', Len(readers') + depth', 0)
  BY <1>1, <1>3, <1>4
<1> QED  BY <1>1, <1>4, <1>5 DEF FInv, FrameConsumed, Framed, Leads, Heights

(* The token begins a structure that is read.                              *)
LEMMA ReadStructFrame ==
  ASSUME UInv, FInv, ReadStruct
  PROVE  FInv'
<1>1. /\ outcome = "reading" /\ outcome' = outcome /\ frame # <<>>
      /\ frame' = Tail(frame) /\ depth = 0 /\ depth' = depth
      /\ Head(frame).kind = "field" /\ Head(frame).type = "struct"
      /\ \E e : readers' = Append(readers, e)
  BY DEF ReadStruct, Turn, IsKnown
<1>2. Len(readers) \in Nat /\ \E S : readers \in Seq(S)
  BY LenProperties DEF UInv, Nested, Readers
<1>3. Len(readers') = Len(readers) + 1
  BY <1>1, <1>2, LenAppend
<1>4. Framed(frame') /\ Leads(frame', Len(readers) + depth + 1, 0)
  BY <1>1, TokenTaken DEF Change
<1>5. Leads(frame', Len(readers') + depth', 0)
  BY <1>1, <1>2, <1>3, <1>4
<1> QED  BY <1>1, <1>4, <1>5 DEF FInv, FrameConsumed, Framed, Leads, Heights

(* skip() takes the token.                                                 *)
LEMMA SkipFrame ==
  ASSUME UInv, FInv, SkipField \/ Skip
  PROVE  FInv'
<1>1. /\ outcome \in {"reading", "skipping"} /\ outcome' = outcome
      /\ frame # <<>> /\ frame' = Tail(frame) /\ readers' = readers
  BY DEF SkipField, Skip, Turn
<1>2. depth \in Nat /\ Len(readers) \in Nat
  BY LenProperties DEF FInv, UInv, Nested, Readers
<1>3. /\ Framed(frame') /\ IsToken(Head(frame))
      /\ Leads(frame', Len(readers) + depth + Change(Head(frame)), 0)
  BY <1>1, TokenTaken
<1>4. depth' = depth + Change(Head(frame)) /\ depth' \in Nat
  <2>1. CASE SkipField
    <3>1. /\ depth = 0 /\ Head(frame).kind = "field"
          /\ depth' = IF Head(frame).type = "struct" THEN 1 ELSE 0
      BY <2>1 DEF SkipField, Turn
    <3> QED  BY <3>1 DEF Change
  <2>2. CASE Skip
    <3>1. /\ depth > 0
          /\ depth' = CASE Head(frame).kind = "stop"   -> depth - 1
                        [] Head(frame).type = "struct" -> depth + 1
                        [] OTHER                       -> depth
      BY <2>2 DEF Skip
    <3>2. Head(frame).kind = "stop" => Head(frame).type # "struct"
      BY <1>3 DEF IsToken
    <3> QED  BY <1>2, <3>1, <3>2 DEF Change
  <2> QED  BY <2>1, <2>2
<1>5. Leads(frame', Len(readers') + depth', 0)
  <2>1. Len(readers) + depth' = Len(readers) + depth + Change(Head(frame))
    BY <1>2, <1>4 DEF Change
  <2> QED  BY <1>1, <1>3, <2>1
<1> QED  BY <1>1, <1>3, <1>4, <1>5 DEF FInv, FrameConsumed, Framed, Leads, Heights

(* The token ends the innermost structure.                                 *)
LEMMA StructEndsFrame ==
  ASSUME UInv, FInv, StructEnds
  PROVE  FInv'
<1>1. /\ outcome = "reading" /\ frame # <<>> /\ frame' = Tail(frame)
      /\ depth = 0 /\ depth' = depth /\ Head(frame).kind = "stop"
  BY DEF StructEnds, Turn
<1>2. readers # <<>> /\ Len(readers) \in 1 .. 3 /\ readers \in Readers
  BY <1>1, InnerReader DEF UInv, HandlerFit
<1>3. Framed(frame') /\ Leads(frame', Len(readers) + depth + (-1), 0)
  BY <1>1, TokenTaken DEF Change
<1>4. CASE Len(readers) = 1
  <2>1. readers' = <<>> /\ outcome' = "called"
    BY <1>4 DEF StructEnds
  <2>2. Leads(frame', 0, 0)
    <3>1. Len(readers) + depth + (-1) = 0
      BY <1>1, <1>4
    <3> QED  BY <1>3, <3>1
  <2>3. frame' = <<>>
    BY <1>3, <2>2, NothingOpen
  <2>4. outcome' \in Outcomes /\ depth' \in Nat
    BY <1>1, <2>1 DEF Outcomes
  <2> QED  BY <1>1, <1>3, <2>1, <2>3, <2>4 DEF FInv, FrameConsumed, Framed
<1>5. CASE Len(readers) \in 2 .. 3
  <2> DEFINE rs == Front(readers)
             id == Last(Inner.path)
  <2>1. readers' = Seen(rs, id) /\ outcome' = outcome
    BY <1>5 DEF StructEnds
  <2>2. id \in Nat
    BY <1>5, StructRead DEF StructEnds
  <2>3. rs \in Readers /\ Len(rs) = Len(readers) - 1
    <3> DEFINE R == [struct : Methods \cup {"Ship", "Location"},
                     path : {<<>>, << 2 >>, <<2, 9>>}, seen : SUBSET Nat]
               L == Len(readers)
    <3>1. readers \in Seq(R)
      BY <1>2 DEF Readers
    <3> HIDE DEF R
    <3>2. \A k \in 1 .. L - 1 : readers[k] \in R
      BY <3>1
    <3>3. L \in 2 .. 3
      BY <1>5
    <3> HIDE DEF L
    <3>4. SubSeq(readers, 1, L - 1) \in Seq(R)
      BY <3>2, <3>3, SubSeqProperties
    <3>5. Len(SubSeq(readers, 1, L - 1)) = L - 1
      BY <3>2, <3>3, SubSeqProperties
    <3> QED  BY <3>4, <3>5 DEF Front, Readers, R, L
  <2> HIDE DEF rs, id
  <2>4. Len(rs) # 0
    BY <1>5, <2>3
  <2>5. rs # <<>>
    BY <2>4, EmptySeq
  <2>6. Len(readers') = Len(readers) - 1
    BY <2>1, <2>2, <2>3, <2>5, SeenReaders
  <2>7. Len(readers) + depth + (-1) = Len(readers') + depth'
    BY <1>1, <1>5, <2>6
  <2>8. Leads(frame', Len(readers') + depth', 0)
    BY <1>3, <2>7
  <2> QED  BY <1>1, <1>3, <2>1, <2>8 DEF FInv, FrameConsumed, Framed, Leads, Heights
<1> QED  BY <1>2, <1>4, <1>5

(* The steps that begin, or end without a handler.                         *)
LEMMA DispatchFrame ==
  ASSUME UInv, FInv, DispatchKnown \/ DispatchUnknown \/ UnknownSkipped
                     \/ StructThrows
  PROVE  FInv'
<1>1. CASE DispatchKnown
  <2>1. /\ outcome = "arrived" /\ outcome' = "reading" /\ depth' = depth
        /\ frame' = frame /\ readers' = <<Reader(method, <<>>)>>
    BY <1>1 DEF DispatchKnown
  <2>2. Len(readers') + depth' = 1
    BY <2>1 DEF FInv
  <2>3. Leads(frame', Len(readers') + depth', 0)
    BY <2>1, <2>2 DEF FInv
  <2>4. outcome' \in Outcomes
    BY <2>1 DEF Outcomes
  <2> QED  BY <2>1, <2>3, <2>4 DEF FInv, FrameConsumed, Framed, Leads, Heights
<1>2. CASE DispatchUnknown
  <2>1. /\ outcome = "arrived" /\ outcome' = "skipping" /\ depth' = 1
        /\ frame' = frame /\ readers' = readers
    BY <1>2 DEF DispatchUnknown
  <2>2. readers = <<>> /\ Len(<<>>) = 0
    BY <2>1 DEF FInv
  <2>3. Len(readers') + depth' = 1
    BY <2>1, <2>2
  <2>4. Leads(frame', Len(readers') + depth', 0)
    BY <2>1, <2>3 DEF FInv
  <2>5. outcome' \in Outcomes
    BY <2>1 DEF Outcomes
  <2> QED  BY <2>1, <2>2, <2>4, <2>5 DEF FInv, FrameConsumed, Framed, Leads, Heights
<1>3. CASE UnknownSkipped
  <2>1. /\ outcome = "skipping" /\ outcome' \in {"replied", "crashed"}
        /\ depth = 0 /\ depth' = depth /\ frame' = frame
    BY <1>3 DEF UnknownSkipped
  <2>2. Len(readers) + depth = 0
    BY <2>1 DEF FInv
  <2>3. frame = <<>>
    BY <2>1, <2>2, NothingOpen DEF FInv
  <2>4. outcome' \in Outcomes
    BY <2>1 DEF Outcomes
  <2> QED  BY <2>1, <2>3, <2>4 DEF FInv, FrameConsumed, Framed
<1>4. CASE StructThrows
  <2>1. /\ outcome = "reading" /\ outcome' = "thrown" /\ depth' = depth
        /\ frame # <<>> /\ frame' = Tail(frame)
    BY <1>4 DEF StructThrows, Turn
  <2>2. Framed(frame')
    BY <2>1, TokenTaken
  <2>3. outcome' \in Outcomes
    BY <2>1 DEF Outcomes
  <2> QED  BY <2>1, <2>2, <2>3 DEF FInv, FrameConsumed, Framed
<1> QED  BY <1>1, <1>2, <1>3, <1>4

LEMMA ForwardFrameStep ==
  ASSUME UInv, FInv, Forward
  PROVE  FInv'
<1>1. /\ outcome = "called" /\ outcome' = "arrived" /\ depth' = depth
      /\ readers' = readers /\ frame' = ForwardFrame
  BY DEF Forward, ForwardFrame
<1>2. readers = <<>> /\ depth = 0
  BY <1>1 DEF FInv, UInv, HandlerFit
<1> DEFINE f == ForwardFrame
<1>3. Framed(f) /\ Leads(f, 1, 0)
  BY ForwardLeads
<1> HIDE DEF f
<1>4. frame' = f
  BY <1>1 DEF f
<1>5. outcome' \in Outcomes
  BY <1>1 DEF Outcomes
<1> QED  BY <1>1, <1>2, <1>3, <1>4, <1>5 DEF FInv, FrameConsumed, Framed, Leads, Heights

(* The frame is that of a call.                                            *)
LEMMA TailOfWhole ==
  ASSUME NEW S, NEW b \in S, NEW s \in Seq(S)
  PROVE  Tail(<<b>> \o s) = s
<1> DEFINE u == <<b>>
           f == u \o s
<1>1. u \in Seq(S) /\ Len(u) = 1
  OBVIOUS
<1> HIDE DEF u
<1>2. /\ f \in Seq(S) /\ Len(f) = 1 + Len(s) /\ Len(s) \in Nat
      /\ \A i \in 1 .. 1 + Len(s) : f[i] = IF i <= 1 THEN u[i] ELSE s[i - 1]
  <2>1. /\ f \in Seq(S) /\ Len(f) = Len(u) + Len(s)
        /\ \A i \in 1 .. Len(u) + Len(s) :
             f[i] = IF i <= Len(u) THEN u[i] ELSE s[i - Len(u)]
    BY <1>1, ConcatProperties
  <2>2. Len(s) \in Nat
    BY LenProperties
  <2> QED  BY <1>1, <2>1, <2>2
<1> HIDE DEF f
<1>3. Len(f) # 0
  BY <1>2
<1>4. f # <<>>
  BY <1>3, EmptySeq
<1> DEFINE t == Tail(f)
<1>5. /\ t \in Seq(S) /\ Len(t) = Len(f) - 1
      /\ \A i \in 1 .. Len(t) : t[i] = f[i + 1]
  BY <1>2, <1>4, HeadTailProperties
<1> HIDE DEF t
<1>6. Len(t) = Len(s) /\ \A i \in 1 .. Len(t) : t[i] = s[i]
  <2>1. Len(t) = Len(s)
    BY <1>2, <1>5
  <2>2. ASSUME NEW i \in 1 .. Len(t) PROVE t[i] = s[i]
    <3>1. i + 1 \in 1 .. 1 + Len(s) /\ ~(i + 1 <= 1) /\ (i + 1) - 1 = i
      BY <1>2, <2>1
    <3> QED  BY <1>2, <1>5, <3>1
  <2> QED  BY <2>1, <2>2
<1>7. t = s
  BY <1>5, <1>6, SeqEqual
<1> QED  BY <1>7 DEF t, f, u

LEMMA ReceiveFrame ==
  ASSUME SInv, FInv, Deliver
  PROVE  FInv'
<1>1. /\ wire # <<>> /\ wire \in Seq(Seq(Tokens))
      /\ frame' = Tail(Head(wire)) /\ readers' = <<>> /\ depth' = 0
      /\ outcome' = "arrived"
  BY DEF Deliver, Receive, SInv, Types
<1>2. Head(wire) = wire[1] /\ 1 \in 1 .. Len(wire)
  BY <1>1, LenProperties, EmptySeq, HeadTailProperties
<1>3. PICK n \in Calls : wire[1] = <<Begin(n)>> \o n.frame
  BY <1>2 DEF SInv, WireWhole, Whole
<1>4. n.frame \in Seq(ArgTokens) /\ WellFormed(n.frame)
  BY ScriptsAssumption
<1>5. n.frame \in Seq(Tokens) /\ Begin(n) \in Tokens
  BY <1>4 DEF Tokens
<1> DEFINE f == n.frame
           b == Begin(n)
<1>6. Tail(<<b>> \o f) = f
  BY <1>5, TailOfWhole
<1>7. frame' = f
  BY <1>1, <1>2, <1>3, <1>6
<1>8. Leads(f, 1, 0)
  BY <1>4, WellFormedLeads
<1>9. Framed(f)
  <2> DEFINE T == {f[i] : i \in 1 .. Len(f)}
  <2>1. f \in Seq(T)
    BY <1>4
  <2>2. DOMAIN f = 1 .. Len(f)
    BY <1>4
  <2>3. \A token \in T : IsToken(token)
    BY <1>4, <2>2 DEF WellFormed, IsToken
  <2> HIDE DEF T
  <2> QED  BY <2>1, <2>3 DEF Framed
<1> HIDE DEF f
<1>10. outcome' \in Outcomes
  BY <1>1 DEF Outcomes
<1> QED  BY <1>1, <1>7, <1>8, <1>9, <1>10
         DEF FInv, FrameConsumed, Framed, Leads, Heights

LEMMA InitFInv == CInit => FInv
<1> SUFFICES ASSUME CInit PROVE FInv
  OBVIOUS
<1>1. outcome = "waiting" /\ frame = <<>> /\ depth = 0
  BY DEF CInit, Init
<1>2. Framed(<<>>)
  <2> DEFINE T == {}
  <2>1. <<>> \in Seq(T) /\ \A token \in T : IsToken(token)
    BY EmptySeq
  <2> HIDE DEF T
  <2> QED  BY <2>1 DEF Framed
<1> QED  BY <1>1, <1>2 DEF FInv, FrameConsumed, Outcomes

LEMMA NextFInv ==
  SInv /\ UInv /\ FInv /\ [Next]_<<vars, senderVars, wire, calls, taken>> => FInv'
<1> SUFFICES ASSUME SInv, UInv, FInv,
                    [Next]_<<vars, senderVars, wire, calls, taken>>
             PROVE  FInv'
  OBVIOUS
<1>1. ASSUME UNCHANGED vars PROVE FInv'
  BY <1>1 DEF vars, FInv, FrameConsumed, Framed, Leads, Heights
<1>2. ASSUME NEW t \in Threads,
             SendStarts(t) \/ WriteArgs(t) \/ Flush(t) \/ Commit(t)
      PROVE  FInv'
  BY <1>1, <1>2 DEF SendStarts, Starts, WriteArgs, Flush, Commit
<1>3. ASSUME Process PROVE FInv'
  BY <1>3, DispatchFrame, ReadFieldFrame, ReadStructFrame, SkipFrame,
     StructEndsFrame, ForwardFrameStep DEF Process
<1> QED  BY <1>1, <1>2, <1>3, ReceiveFrame DEF Next

(* Whatever version of the interface the peer has, a frame that does not   *)
(* make read() throw is consumed to its last token, by read() and skip()   *)
(* together; nothing is left over that the next message would begin with.  *)
THEOREM FrameConsumedCorrect == Spec => []FrameConsumed
<1>1. SInv /\ UInv /\ FInv /\ [Next]_<<vars, senderVars, wire, calls, taken>>
        => (SInv /\ UInv /\ FInv)'
  BY NextSInv, NextUInv, NextFInv
<1>2. FInv => FrameConsumed
  BY DEF FInv
<1> QED  BY <1>1, <1>2, InitSInv, InitUInv, InitFInv, PTL DEF Spec

-----------------------------------------------------------------------------
(* Types.                                                                  *)
TInv ==
  /\ sync_ \in Threads \cup {NoThread}
  /\ \A o \in object : o.path \in Paths(method)

LEMMA LocationPaths == \A k \in Nat : Append(<<2, 9>>, k) = <<2, 9, k>>
<1>1. ASSUME NEW k \in Nat PROVE Append(<<2, 9>>, k) = <<2, 9, k>>
  <2>1. 2 \in Nat /\ 9 \in Nat
    OBVIOUS
  <2> QED  BY <2>1, Triple
<1> QED  BY <1>1

(* Where the field that is read goes.                                      *)
LEMMA WhereRead ==
  ASSUME UInv, readers # <<>>, NEW id \in DOMAIN Fields(Inner.struct)
  PROVE  /\ id \in Nat /\ Len(readers) \in 1 .. 3
         /\ Len(readers) = 1 =>
              Inner.struct = method /\ Append(Inner.path, id) = <<id>>
         /\ Len(readers) = 2 =>
              /\ Inner.struct = "Ship" /\ Append(Inner.path, id) = <<2, id>>
              /\ method \in ShipMethods
         /\ Len(readers) = 3 =>
              /\ Inner.struct = "Location" /\ Append(Inner.path, id) = <<2, 9, id>>
              /\ method \in ShipMethods
<1> DEFINE r == Inner
<1>1. /\ Len(readers) \in 1 .. 3 /\ r = readers[Len(readers)] /\ id \in Nat
  BY InnerReader
<1>2. Append(<<>>, id) = <<id>>
  OBVIOUS
<1>3. Append(<< 2 >>, id) = <<2, id>>
  BY <1>1, ShipPaths
<1>4. Append(<<2, 9>>, id) = <<2, 9, id>>
  BY <1>1, LocationPaths
<1> HIDE DEF r
<1>5. Len(readers) = 1 => r.struct = method /\ r.path = <<>>
  BY <1>1 DEF UInv, Nested
<1>6. Len(readers) = 2 => /\ r.struct = "Ship" /\ r.path = << 2 >>
                           /\ method \in ShipMethods
  BY <1>1 DEF UInv, Nested
<1>7. Len(readers) = 3 => /\ r.struct = "Location" /\ r.path = <<2, 9>>
                           /\ method \in ShipMethods
  BY <1>1 DEF UInv, Nested
<1> QED  BY <1>1, <1>2, <1>3, <1>4, <1>5, <1>6, <1>7 DEF r

LEMMA PathRead ==
  ASSUME UInv, readers # <<>>, NEW id \in DOMAIN Fields(Inner.struct),
         Fields(Inner.struct)[id].type # "struct"
  PROVE  Append(Inner.path, id) \in Paths(method)
<1>1. id \in BaseIds(Inner.struct)
  BY DEF BaseIds
<1>2. CASE Len(readers) = 1
  BY <1>1, <1>2, WhereRead DEF Paths
<1>3. CASE Len(readers) = 2
  BY <1>1, <1>3, WhereRead DEF Paths, ShipMethods
<1>4. CASE Len(readers) = 3
  BY <1>1, <1>4, WhereRead DEF Paths, ShipMethods
<1>5. Len(readers) \in 1 .. 3
  BY InnerReader
<1> QED  BY <1>2, <1>3, <1>4, <1>5

LEMMA InitTInv == CInit => TInv
  BY DEF CInit, Init, TInv

LEMMA NextTInv ==
  UInv /\ TInv /\ [Next]_<<vars, senderVars, wire, calls, taken>> => TInv'
<1> SUFFICES ASSUME UInv, TInv,
                    [Next]_<<vars, senderVars, wire, calls, taken>>
             PROVE  TInv'
  OBVIOUS
<1>1. ASSUME UNCHANGED <<sync_, object, method>> PROVE TInv'
  BY <1>1 DEF TInv
<1>2. ASSUME UNCHANGED <<sync_>>, object' = {} PROVE TInv'
  BY <1>2 DEF TInv
<1>3. ASSUME NEW t \in Threads,
             SendStarts(t) \/ WriteArgs(t) \/ Flush(t) \/ Commit(t)
      PROVE  TInv'
  <2>1. sync_' \in {sync_, t, NoThread} /\ object' = object /\ method' = method
    BY <1>3 DEF SendStarts, Starts, WriteArgs, Flush, Commit, vars
  <2> QED  BY <2>1 DEF TInv
<1>4. ASSUME Deliver PROVE TInv'
  BY <1>2, <1>4 DEF Deliver, Receive, senderVars
<1>5. ASSUME ReadField, UNCHANGED senderVars PROVE TInv'
  <2> DEFINE id == Head(frame).id
             p == Append(Inner.path, id)
  <2>1. /\ outcome = "reading" /\ method' = method /\ sync_' = sync_
        /\ id \in DOMAIN Fields(Inner.struct)
        /\ Fields(Inner.struct)[id].type # "struct"
        /\ object' = {o \in object : o.path # p}
                       \cup {[path |-> p, val |-> Head(frame).val]}
    BY <1>5 DEF ReadField, Turn, IsKnown, Path, senderVars
  <2>2. readers # <<>>
    BY <2>1 DEF UInv, HandlerFit
  <2>3. p \in Paths(method)
    BY <2>1, <2>2, PathRead
  <2> HIDE DEF p, id
  <2> QED  BY <2>1, <2>3 DEF TInv
<1>6. ASSUME Process, UNCHANGED senderVars PROVE TInv'
  <2>1. CASE Forward
    BY <1>2, <1>6, <2>1 DEF Forward, senderVars
  <2>2. CASE ReadField
    BY <1>5, <1>6, <2>2
  <2>3. CASE DispatchKnown \/ DispatchUnknown \/ UnknownSkipped
    BY <1>1, <1>6, <2>3
    DEF DispatchKnown, DispatchUnknown, UnknownSkipped, senderVars
  <2>4. CASE ReadStruct \/ SkipField \/ Skip
    BY <1>1, <1>6, <2>4 DEF ReadStruct, SkipField, Skip, Turn, senderVars
  <2>5. CASE StructEnds \/ StructThrows
    BY <1>1, <1>6, <2>5 DEF StructEnds, StructThrows, Turn, senderVars
  <2> QED  BY <1>6, <2>1, <2>2, <2>3, <2>4, <2>5 DEF Process
<1>7. ASSUME UNCHANGED <<vars, senderVars, wire, calls, taken>> PROVE TInv'
  BY <1>1, <1>7 DEF vars, senderVars
<1> QED  BY <1>3, <1>4, <1>6, <1>7 DEF Next

LEMMA InvTypeOK == SInv /\ UInv /\ FInv /\ TInv => TypeOK
<1> SUFFICES ASSUME SInv, UInv, FInv, TInv PROVE TypeOK
  OBVIOUS
<1>1. at \in DOMAIN ProcessMap /\ Len(readers) <= 3
  BY DEF UInv, Nested
<1>2. \A i \in DOMAIN frame : frame[i].kind \in {"field", "stop"}
  <2>1. PICK S : frame \in Seq(S) /\ \A token \in S : IsToken(token)
    BY DEF FInv, Framed
  <2>2. \A i \in DOMAIN frame : frame[i] \in S
    BY <2>1
  <2> QED  BY <2>1, <2>2 DEF IsToken
<1>3. ASSUME NEW i \in DOMAIN readers
      PROVE  readers[i].seen \subseteq DOMAIN Fields(readers[i].struct)
  <2>1. i \in 1 .. Len(readers)
    BY DEF UInv, Nested, Readers
  <2>2. ReadBy(object, readers[i])
    BY <2>1 DEF UInv, SeenRead
  <2> QED  BY <2>2 DEF ReadBy, ReadAt
<1>4. depth \in Nat /\ outcome \in Outcomes
  BY DEF FInv
<1>5. phase \in [Threads -> {"idle", "args", "flushed"}]
  BY DEF SInv, Types
<1>6. sync_ \in Threads \cup {NoThread} /\ \A o \in object : o.path \in Paths(method)
  BY DEF TInv
<1> QED  BY <1>1, <1>2, <1>3, <1>4, <1>5, <1>6 DEF TypeOK

(* The state stays within its types: no structure inside a location is     *)
(* read, a flag is only set for a field there is, and nothing is read into *)
(* arguments where their method has no field.                              *)
THEOREM TypeCorrect == Spec => []TypeOK
<1>1. SInv /\ UInv /\ FInv /\ TInv
        /\ [Next]_<<vars, senderVars, wire, calls, taken>>
        => (SInv /\ UInv /\ FInv /\ TInv)'
  BY NextSInv, NextUInv, NextFInv, NextTInv
<1> QED  BY <1>1, InitSInv, InitUInv, InitFInv, InitTInv, InvTypeOK, PTL DEF Spec

-----------------------------------------------------------------------------
(* A ship that is passed on. Reading a token takes a read() from one state *)
(* to the next: the structures it is in, and what it has read; and reading *)
(* a sequence of tokens takes it through a run of states.                  *)
State(rs, o) == [readers |-> rs, object |-> o]

Stored(o, path, val) == {x \in o : x.path # path} \cup {[path |-> path, val |-> val]}

TakesLeaf(x, token, y) ==
  LET r == Last(x.readers)
      f == Fields(r.struct)[token.id]
  IN  /\ token.kind = "field" /\ token.id \in DOMAIN Fields(r.struct)
      /\ token.type = f.type /\ f.type # "struct"
      /\ y = State(Seen(x.readers, token.id),
                   Stored(x.object, Append(r.path, token.id), token.val))

TakesOpen(x, token, y) ==
  LET r == Last(x.readers)
      f == Fields(r.struct)[token.id]
  IN  /\ token.kind = "field" /\ token.id \in DOMAIN Fields(r.struct)
      /\ token.type = f.type /\ f.type = "struct"
      /\ y = State(Append(x.readers, Reader(f.of, Append(r.path, token.id))),
                   x.object)

TakesStop(x, token, y) ==
  LET r == Last(x.readers)
  IN  /\ token.kind = "stop" /\ RequiredIds(r.struct) \subseteq r.seen
      /\ y = State(IF Len(x.readers) = 1 THEN <<>>
                     ELSE Seen(Front(x.readers), Last(r.path)), x.object)

Takes(x, token, y) ==
  TakesLeaf(x, token, y) \/ TakesOpen(x, token, y) \/ TakesStop(x, token, y)

Along(f, h) ==
  /\ h = [i \in 0 .. Len(f) |-> h[i]]
  /\ \A i \in 1 .. Len(f) : Takes(h[i - 1], f[i], h[i])

Runs(f, x, y) == \E h : Along(f, h) /\ h[0] = x /\ h[Len(f)] = y

LEMMA RunsEmpty ==
  ASSUME NEW x
  PROVE  Runs(<<>>, x, x)
<1> DEFINE h == [i \in 0 .. 0 |-> x]
<1>1. Len(<<>>) = 0
  OBVIOUS
<1>2. h = [i \in 0 .. 0 |-> h[i]] /\ h[0] = x /\ 1 .. 0 = {}
  OBVIOUS
<1> HIDE DEF h
<1>3. Along(<<>>, h)
  BY <1>1, <1>2 DEF Along
<1> QED  BY <1>1, <1>2, <1>3 DEF Runs

LEMMA RunsOne ==
  ASSUME NEW x, NEW token, NEW y, Takes(x, token, y)
  PROVE  Runs(<<token>>, x, y)
<1> DEFINE h == [i \in 0 .. 1 |-> IF i = 0 THEN x ELSE y]
<1>1. Len(<<token>>) = 1 /\ <<token>>[1] = token
  OBVIOUS
<1>2. h = [i \in 0 .. 1 |-> h[i]] /\ h[0] = x /\ h[1] = y
  OBVIOUS
<1> HIDE DEF h
<1>3. \A i \in 1 .. 1 : i = 1 /\ i - 1 = 0
  OBVIOUS
<1>4. Along(<<token>>, h)
  BY <1>1, <1>2, <1>3 DEF Along
<1> QED  BY <1>1, <1>2, <1>4 DEF Runs

LEMMA RunsOn ==
  ASSUME NEW S, NEW f \in Seq(S), NEW g \in Seq(S), NEW x, NEW y, NEW z,
         Runs(f, x, y), Runs(g, y, z)
  PROVE  Runs(f \o g, x, z)
<1>1. PICK a : Along(f, a) /\ a[0] = x /\ a[Len(f)] = y
  BY DEF Runs
<1>2. PICK b : Along(g, b) /\ b[0] = y /\ b[Len(g)] = z
  BY DEF Runs
<1> DEFINE m == Len(f)
           n == Len(g)
           u == f \o g
           h == [i \in 0 .. m + n |-> IF i <= m THEN a[i] ELSE b[i - m]]
<1>3. /\ m \in Nat /\ n \in Nat /\ Len(u) = m + n
      /\ \A i \in 1 .. m + n : u[i] = IF i <= m THEN f[i] ELSE g[i - m]
  BY ConcatProperties, LenProperties
<1>4. /\ \A i \in 1 .. m : Takes(a[i - 1], f[i], a[i])
      /\ \A i \in 1 .. n : Takes(b[i - 1], g[i], b[i])
      /\ a[m] = b[0] /\ a[0] = x /\ b[n] = z
  BY <1>1, <1>2 DEF Along
<1> HIDE DEF m, n, u
<1>5. ASSUME NEW i \in 0 .. m + n
      PROVE  /\ i <= m => h[i] = a[i]
             /\ i >= m => h[i] = b[i - m]
  <2>1. h[i] = IF i <= m THEN a[i] ELSE b[i - m]
    OBVIOUS
  <2>2. i = m => i - m = 0
    BY <1>3
  <2> QED  BY <1>3, <1>4, <2>1, <2>2
<1>6. h = [i \in 0 .. m + n |-> h[i]]
  OBVIOUS
<1> HIDE DEF h
<1>7. ASSUME NEW i \in 1 .. m + n
      PROVE  Takes(h[i - 1], u[i], h[i])
  <2>1. i \in 0 .. m + n /\ i - 1 \in 0 .. m + n
    BY <1>3
  <2>2. CASE i <= m
    <3>1. i \in 1 .. m /\ i - 1 <= m
      BY <1>3, <2>2
    <3>2. h[i] = a[i] /\ h[i - 1] = a[i - 1] /\ u[i] = f[i]
      BY <1>3, <1>5, <2>1, <2>2, <3>1
    <3> QED  BY <1>4, <3>1, <3>2
  <2>3. CASE ~(i <= m)
    <3>1. i - m \in 1 .. n /\ i >= m /\ i - 1 >= m /\ (i - 1) - m = (i - m) - 1
      BY <1>3, <2>3
    <3>2. h[i] = b[i - m] /\ h[i - 1] = b[(i - m) - 1] /\ u[i] = g[i - m]
      BY <1>3, <1>5, <2>1, <2>3, <3>1
    <3> QED  BY <1>4, <3>1, <3>2
  <2> QED  BY <2>2, <2>3
<1>8. Along(u, h)
  BY <1>3, <1>6, <1>7 DEF Along
<1>9. h[0] = x /\ h[Len(u)] = z
  <2>1. 0 \in 0 .. m + n /\ 0 <= m /\ m + n \in 0 .. m + n /\ m + n >= m
        /\ (m + n) - m = n
    BY <1>3
  <2> QED  BY <1>3, <1>4, <1>5, <2>1
<1>10. Runs(u, x, z)
  BY <1>8, <1>9 DEF Runs
<1> QED  BY <1>10 DEF u

LEMMA RunsTail ==
  ASSUME NEW S, NEW f \in Seq(S), f # <<>>, NEW x, NEW z, Runs(f, x, z)
  PROVE  \E y : Takes(x, Head(f), y) /\ Runs(Tail(f), y, z)
<1>1. PICK h : Along(f, h) /\ h[0] = x /\ h[Len(f)] = z
  BY DEF Runs
<1> DEFINE m == Len(f)
           t == Tail(f)
           g == [i \in 0 .. m - 1 |-> h[i + 1]]
<1>2. /\ m \in Nat /\ m > 0 /\ Len(t) = m - 1
      /\ \A i \in 1 .. m - 1 : t[i] = f[i + 1]
      /\ Head(f) = f[1]
  <2>1. m \in Nat /\ m # 0
    BY LenProperties, EmptySeq
  <2>2. /\ Len(t) = m - 1 /\ Head(f) = f[1]
        /\ \A i \in 1 .. Len(t) : t[i] = f[i + 1]
    BY HeadTailProperties
  <2> QED  BY <2>1, <2>2
<1>3. \A i \in 1 .. m : Takes(h[i - 1], f[i], h[i])
  BY <1>1 DEF Along
<1> HIDE DEF m, t
<1>4. 1 \in 1 .. m /\ 1 - 1 = 0
  BY <1>2
<1>5. Takes(x, Head(f), h[1])
  BY <1>1, <1>2, <1>3, <1>4
<1>6. ASSUME NEW i \in 1 .. m - 1
      PROVE  Takes(g[i - 1], t[i], g[i])
  <2>1. /\ i \in 0 .. m - 1 /\ i - 1 \in 0 .. m - 1 /\ i + 1 \in 1 .. m
        /\ (i - 1) + 1 = i /\ (i + 1) - 1 = i
    BY <1>2
  <2>2. g[i] = h[i + 1] /\ g[i - 1] = h[i] /\ t[i] = f[i + 1]
    BY <1>2, <2>1
  <2>3. Takes(h[(i + 1) - 1], f[i + 1], h[i + 1])
    BY <1>3, <2>1
  <2> QED  BY <2>1, <2>2, <2>3
<1>7. g[0] = h[1] /\ g[m - 1] = h[m]
  <2>1. 0 \in 0 .. m - 1 /\ m - 1 \in 0 .. m - 1 /\ 0 + 1 = 1 /\ (m - 1) + 1 = m
    BY <1>2
  <2> QED  BY <2>1
<1>8. g = [i \in 0 .. m - 1 |-> g[i]]
  OBVIOUS
<1> HIDE DEF g
<1>9. Along(t, g)
  BY <1>2, <1>6, <1>8 DEF Along
<1>10. Runs(t, h[1], z)
  BY <1>1, <1>2, <1>7, <1>9 DEF Runs, m
<1> QED  BY <1>5, <1>10 DEF t

LEMMA RunsNone ==
  ASSUME NEW x, NEW y, Runs(<<>>, x, y)
  PROVE  x = y
<1>1. Len(<<>>) = 0
  OBVIOUS
<1> QED  BY <1>1 DEF Runs

(* Pieces that lead from state to state.                                   *)
LEMMA RunsAlong ==
  ASSUME NEW S, NEW n \in Nat \ {0}, NEW p, Len(p) = n, NEW q,
         \A i \in 1 .. n : p[i] \in Seq(S) /\ Runs(p[i], q[i - 1], q[i])
  PROVE  FlattenSeq(p) \in Seq(S) /\ Runs(FlattenSeq(p), q[0], q[n])
<1> DEFINE flatten[i \in 1 .. Len(p)] ==
             IF i = 1 THEN p[i] ELSE flatten[i - 1] \o p[i]
           R(f) == Joining(f, p, n)
           I == {i \in Nat : i + 1 <= n => /\ flatten[i + 1] \in Seq(S)
                                           /\ Runs(flatten[i + 1], q[0], q[i + 1])}
<1>1. FlattenSeq(p) = flatten[n]
  BY DEF FlattenSeq
<1>2. R(flatten)
  <2>1. \E f : R(f)
    BY JoiningExists
  <2>2. flatten = CHOOSE f : R(f)
    BY DEF Joining
  <2> QED  BY <2>1, <2>2
<1> HIDE DEF flatten
<1>3. \A i \in 1 .. n :
        flatten[i] = IF i = 1 THEN p[i] ELSE flatten[i - 1] \o p[i]
  BY <1>2 DEF Joining
<1>4. 0 \in I
  <2>1. 1 \in 1 .. n /\ flatten[1] = p[1] /\ 1 - 1 = 0
    BY <1>3
  <2>2. p[1] \in Seq(S) /\ Runs(p[1], q[0], q[1])
    BY <2>1
  <2> QED  BY <2>1, <2>2
<1>5. ASSUME NEW i \in Nat, i \in I PROVE i + 1 \in I
  <2> SUFFICES ASSUME (i + 1) + 1 <= n
               PROVE  /\ flatten[(i + 1) + 1] \in Seq(S)
                      /\ Runs(flatten[(i + 1) + 1], q[0], q[(i + 1) + 1])
    OBVIOUS
  <2> DEFINE j == i + 1
  <2>1. j + 1 \in 1 .. n /\ j + 1 # 1 /\ (j + 1) - 1 = j
    OBVIOUS
  <2>2. flatten[j] \in Seq(S) /\ Runs(flatten[j], q[0], q[j])
    BY <1>5
  <2> HIDE DEF j
  <2>3. flatten[j + 1] = flatten[j] \o p[j + 1]
    BY <1>3, <2>1
  <2>4. p[j + 1] \in Seq(S) /\ Runs(p[j + 1], q[j], q[j + 1])
    BY <2>1
  <2>5. flatten[j] \o p[j + 1] \in Seq(S)
    BY <2>2, <2>4, ConcatProperties
  <2>6. Runs(flatten[j] \o p[j + 1], q[0], q[j + 1])
    BY <2>2, <2>4, RunsOn
  <2> QED  BY <2>3, <2>5, <2>6 DEF j
<1>6. Nat \subseteq I
  <2> HIDE DEF I
  <2> QED  BY <1>4, <1>5, SetInduction
<1>7. n - 1 \in Nat /\ (n - 1) + 1 = n /\ (n - 1) + 1 <= n
  OBVIOUS
<1>8. n - 1 \in I
  BY <1>6, <1>7
<1> QED  BY <1>1, <1>7, <1>8

(* A read() that is in structure s, at path, and has read the fields seen. *)
At(s, path, seen) == [struct |-> s, path |-> path, seen |-> seen]

LEMMA OneReader ==
  ASSUME NEW a
  PROVE  /\ Last(<<a>>) = a /\ Len(<<a>>) = 1
         /\ \A b : Append(<<a>>, b) = <<a, b>>
<1>1. Last(<<a>>) = a
  BY DEF Last
<1>2. ASSUME NEW b PROVE Append(<<a>>, b) = <<a, b>>
  <2> DEFINE T == {a, b}
  <2>1. a \in T /\ b \in T
    OBVIOUS
  <2> HIDE DEF T
  <2> QED  BY <2>1, Pair
<1> QED  BY <1>1, <1>2

LEMMA TwoReaders ==
  ASSUME NEW a, NEW b
  PROVE  /\ Last(<<a, b>>) = b /\ Len(<<a, b>>) = 2 /\ Front(<<a, b>>) = <<a>>
         /\ \A c : Append(<<a, b>>, c) = <<a, b, c>>
<1>1. Last(<<a, b>>) = b
  BY DEF Last
<1>2. Front(<<a, b>>) = <<a>>
  <2> DEFINE T == {a, b}
             u == <<a>>
             w == <<a, b>>
  <2>1. u \in Seq(T) /\ w \in Seq(T) /\ b \in T
    OBVIOUS
  <2>2. Len(u) = 1 /\ Len(w) = 2 /\ u[1] = a /\ w[1] = a /\ w[2] = b
    OBVIOUS
  <2> HIDE DEF T, u, w
  <2>3. IsAppended(w, u, b)
    BY <2>2 DEF IsAppended
  <2>4. Front(w) = u
    BY <2>1, <2>3, FrontIs
  <2> QED  BY <2>4 DEF u, w
<1>3. ASSUME NEW c PROVE Append(<<a, b>>, c) = <<a, b, c>>
  <2> DEFINE T == {a, b, c}
  <2>1. a \in T /\ b \in T /\ c \in T
    OBVIOUS
  <2> HIDE DEF T
  <2> QED  BY <2>1, Triple
<1> QED  BY <1>1, <1>2, <1>3

LEMMA ThreeReaders ==
  ASSUME NEW a, NEW b, NEW c
  PROVE  /\ Last(<<a, b, c>>) = c /\ Len(<<a, b, c>>) = 3
         /\ Front(<<a, b, c>>) = <<a, b>>
<1>1. Last(<<a, b, c>>) = c
  BY DEF Last
<1>2. Front(<<a, b, c>>) = <<a, b>>
  <2> DEFINE T == {a, b, c}
             u == <<a, b>>
             w == <<a, b, c>>
  <2>1. u \in Seq(T) /\ w \in Seq(T) /\ c \in T
    OBVIOUS
  <2>2. /\ Len(u) = 2 /\ u[1] = a /\ u[2] = b
        /\ Len(w) = 3 /\ w[1] = a /\ w[2] = b /\ w[3] = c
    OBVIOUS
  <2> HIDE DEF T, u, w
  <2>3. IsAppended(w, u, c)
    BY <2>2 DEF IsAppended
  <2>4. Front(w) = u
    BY <2>1, <2>3, FrontIs
  <2> QED  BY <2>4 DEF u, w
<1> QED  BY <1>1, <1>2

LEMMA SeenOne ==
  ASSUME NEW s, NEW path, NEW seen, NEW id
  PROVE  Seen(<<At(s, path, seen)>>, id) = <<At(s, path, seen \cup {id})>>
<1> DEFINE r == At(s, path, seen)
           e == [r EXCEPT !.seen = @ \cup {id}]
<1>1. e = At(s, path, seen \cup {id})
  BY DEF At
<1>2. Seen(<<r>>, id) = [<<r>> EXCEPT ![1] = e]
  BY DEF Seen
<1> HIDE DEF r, e
<1>3. [<<r>> EXCEPT ![1] = e] = <<e>>
  OBVIOUS
<1> QED  BY <1>1, <1>2, <1>3 DEF r

LEMMA SeenTwo ==
  ASSUME NEW a, NEW s, NEW path, NEW seen, NEW id
  PROVE  Seen(<<a, At(s, path, seen)>>, id) = <<a, At(s, path, seen \cup {id})>>
<1> DEFINE r == At(s, path, seen)
           e == [r EXCEPT !.seen = @ \cup {id}]
<1>1. e = At(s, path, seen \cup {id})
  BY DEF At
<1>2. Seen(<<a, r>>, id) = [<<a, r>> EXCEPT ![2] = e]
  BY DEF Seen
<1> HIDE DEF r, e
<1>3. [<<a, r>> EXCEPT ![2] = e] = <<a, e>>
  OBVIOUS
<1> QED  BY <1>1, <1>2, <1>3 DEF r

LEMMA SeenThree ==
  ASSUME NEW a, NEW b, NEW s, NEW path, NEW seen, NEW id
  PROVE  Seen(<<a, b, At(s, path, seen)>>, id)
           = <<a, b, At(s, path, seen \cup {id})>>
<1> DEFINE r == At(s, path, seen)
           e == [r EXCEPT !.seen = @ \cup {id}]
<1>1. e = At(s, path, seen \cup {id})
  BY DEF At
<1>2. Seen(<<a, b, r>>, id) = [<<a, b, r>> EXCEPT ![3] = e]
  BY DEF Seen
<1> HIDE DEF r, e
<1>3. [<<a, b, r>> EXCEPT ![3] = e] = <<a, b, e>>
  OBVIOUS
<1> QED  BY <1>1, <1>2, <1>3 DEF r

(* What the server has read of a ship, field by field: it has the value of *)
(* each field that it is going to write, and of no other.                  *)
Given(path) == {o \in object : o.path = path}
Entry(path) == [path |-> path, val |-> ValueAt(path)]

AtField(path, i) ==
  IF i = 9 THEN \E k \in 1 .. 2 : path = <<2, 9, k>> ELSE path = <<2, i>>

ShipFits ==
  /\ \A o \in object : o.path[1] = 2 <=> \E i \in 1 .. 11 : AtField(o.path, i)
  /\ \A i \in 1 .. 11 : i # 9 =>
       Given(<<2, i>>) = IF IsWritten(Ship[i], <<2, i>>)
                           THEN {Entry(<<2, i>>)} ELSE {}
  /\ \A k \in 1 .. 2 :
       Given(<<2, 9, k>>) = IF IsWritten(Ship[9], <<2, 9>>)
                              THEN {Entry(<<2, 9, k>>)} ELSE {}

(* The other client when it has read the first j fields, and when it has   *)
(* read k fields of the location.                                          *)
Written(j) == {i \in 1 .. j : IsWritten(Ship[i], <<2, i>>)}
Part(j) == {o \in object : \E i \in 1 .. j : AtField(o.path, i)}
Author == {[path |-> <<1>>, val |-> UserName]}
InArgs == At("on_subscribeShip", <<>>, {1})
InShip(j) == At("Ship", << 2 >>, Written(j))

AfterShip(j) == State(<<InArgs, InShip(j)>>, Author \cup Part(j))

InLocation(k) == At("Location", <<2, 9>>, 1 .. k)
LocationPart(k) == {o \in object : \E i \in 1 .. k : o.path = <<2, 9, i>>}

AfterLocation(k) ==
  State(<<InArgs, InShip(8), InLocation(k)>>, Author \cup Part(8) \cup LocationPart(k))

LEMMA StoredNew ==
  ASSUME NEW o, NEW path, NEW val, \A x \in o : x.path # path
  PROVE  Stored(o, path, val) = o \cup {[path |-> path, val |-> val]}
BY DEF Stored

LEMMA PathsDiffer ==
  /\ \A i \in Nat : <<1>> # <<2, i>> /\ \A k \in Nat : <<1>> # <<2, 9, k>>
  /\ \A i, j \in Nat : <<2, i>> = <<2, j>> => i = j
  /\ \A i, j \in Nat : <<2, 9, i>> = <<2, 9, j>> => i = j
  /\ \A i, k \in Nat : <<2, i>> # <<2, 9, k>>
<1>1. \A i, j \in Nat : <<2, i>> = <<2, j>> => i = j
  OBVIOUS
<1>2. \A i, j \in Nat : <<2, 9, i>> = <<2, 9, j>> => i = j
  OBVIOUS
<1>3. \A i, k \in Nat : <<2, i>> # <<2, 9, k>>
  <2> SUFFICES ASSUME NEW i \in Nat, NEW k \in Nat PROVE <<2, i>> # <<2, 9, k>>
    OBVIOUS
  <2>1. Len(<<2, i>>) = 2 /\ Len(<<2, 9, k>>) = 3
    OBVIOUS
  <2> QED  BY <2>1
<1>4. \A i \in Nat : <<1>> # <<2, i>>
  <2> SUFFICES ASSUME NEW i \in Nat PROVE <<1>> # <<2, i>>
    OBVIOUS
  <2>1. Len(<<1>>) = 1 /\ Len(<<2, i>>) = 2
    OBVIOUS
  <2> QED  BY <2>1
<1>5. \A k \in Nat : <<1>> # <<2, 9, k>>
  <2> SUFFICES ASSUME NEW k \in Nat PROVE <<1>> # <<2, 9, k>>
    OBVIOUS
  <2>1. Len(<<1>>) = 1 /\ Len(<<2, 9, k>>) = 3
    OBVIOUS
  <2> QED  BY <2>1
<1> QED  BY <1>1, <1>2, <1>3, <1>4, <1>5

LEMMA FieldApart ==
  ASSUME NEW i \in Nat, NEW j \in Nat, i # j, NEW path, AtField(path, i)
  PROVE  ~AtField(path, j) /\ path # <<1>>
BY PathsDiffer DEF AtField

LEMMA PartNext ==
  ASSUME NEW j \in 1 .. 11
  PROVE  /\ Part(j) = Part(j - 1) \cup {o \in object : AtField(o.path, j)}
         /\ Written(j) = Written(j - 1)
                           \cup (IF IsWritten(Ship[j], <<2, j>>) THEN {j} ELSE {})
         /\ \A o \in Part(j - 1) : ~AtField(o.path, j)
<1>1. 1 .. j = (1 .. j - 1) \cup {j} /\ j \notin 1 .. j - 1
  OBVIOUS
<1>2. Part(j) = Part(j - 1) \cup {o \in object : AtField(o.path, j)}
  BY <1>1 DEF Part
<1>3. Written(j) = Written(j - 1)
                     \cup (IF IsWritten(Ship[j], <<2, j>>) THEN {j} ELSE {})
  BY <1>1 DEF Written
<1>4. ASSUME NEW o \in Part(j - 1) PROVE ~AtField(o.path, j)
  <2>1. PICK i \in 1 .. j - 1 : AtField(o.path, i)
    BY DEF Part
  <2> QED  BY <1>1, <2>1, FieldApart
<1> QED  BY <1>2, <1>3, <1>4

(* A field of the ship.                                                    *)
LEMMA ShipLeaf ==
  ASSUME ShipFits, NEW j \in 1 .. 11, j # 9, IsWritten(Ship[j], <<2, j>>)
  PROVE  Takes(AfterShip(j - 1),
               Field(j, Ship[j].type, ValueAt(Append(<< 2 >>, j))), AfterShip(j))
<1> DEFINE x == AfterShip(j - 1)
           token == Field(j, Ship[j].type, ValueAt(Append(<< 2 >>, j)))
           old == Author \cup Part(j - 1)
           p == <<2, j>>
<1>1. Append(<< 2 >>, j) = p
  BY ShipPaths
<1>2. /\ token.kind = "field" /\ token.id = j /\ token.type = Ship[j].type
      /\ token.val = ValueAt(p)
  BY <1>1 DEF Field
<1>3. Last(x.readers) = InShip(j - 1) /\ x.object = old
      /\ Seen(x.readers, j) = <<InArgs, InShip(j)>>
  <2>1. Last(<<InArgs, InShip(j - 1)>>) = InShip(j - 1)
    BY TwoReaders
  <2>2. Seen(<<InArgs, InShip(j - 1)>>, j)
          = <<InArgs, At("Ship", << 2 >>, Written(j - 1) \cup {j})>>
    BY SeenTwo DEF InShip
  <2>3. Written(j) = Written(j - 1) \cup {j}
    BY PartNext
  <2> QED  BY <2>1, <2>2, <2>3 DEF AfterShip, State, InShip
<1>4. InShip(j - 1).struct = "Ship" /\ InShip(j - 1).path = << 2 >>
  BY DEF InShip, At
<1>5. /\ j \in DOMAIN Fields("Ship") /\ Fields("Ship")[j] = Ship[j]
      /\ Ship[j].type # "struct"
  BY ShipFields
<1>6. Stored(old, p, ValueAt(p)) = Author \cup Part(j)
  <2>1. \A o \in old : o.path # p
    <3>1. \A o \in Author : o.path # p
      BY PathsDiffer DEF Author
    <3>2. \A o \in Part(j - 1) : o.path # p
      BY PartNext DEF AtField
    <3> QED  BY <3>1, <3>2
  <2>2. {o \in object : AtField(o.path, j)} = {Entry(p)}
    BY DEF ShipFits, AtField, Given
  <2>3. Part(j) = Part(j - 1) \cup {Entry(p)}
    BY <2>2, PartNext
  <2>4. Stored(old, p, ValueAt(p)) = old \cup {[path |-> p, val |-> ValueAt(p)]}
    BY <2>1, StoredNew
  <2> QED  BY <2>3, <2>4 DEF Entry
<1> HIDE DEF token, x, old, p
<1>7. AfterShip(j) = State(Seen(x.readers, j),
                           Stored(x.object, p, token.val))
  BY <1>2, <1>3, <1>6 DEF AfterShip
<1>8. TakesLeaf(x, token, AfterShip(j))
  BY <1>1, <1>2, <1>3, <1>4, <1>5, <1>7 DEF TakesLeaf
<1> QED  BY <1>8 DEF Takes, x, token

(* A field that is left out.                                               *)
LEMMA ShipGap ==
  ASSUME ShipFits, NEW j \in 1 .. 11, ~IsWritten(Ship[j], <<2, j>>)
  PROVE  AfterShip(j) = AfterShip(j - 1)
<1>1. {o \in object : AtField(o.path, j)} = {}
  <2>1. CASE j = 9
    <3>1. \A k \in 1 .. 2 : Given(<<2, 9, k>>) = {}
      BY <2>1 DEF ShipFits
    <3> QED  BY <2>1, <3>1 DEF AtField, Given
  <2>2. CASE j # 9
    BY <2>2 DEF ShipFits, AtField, Given
  <2> QED  BY <2>1, <2>2
<1>2. /\ Part(j) = Part(j - 1) \cup {o \in object : AtField(o.path, j)}
      /\ Written(j) = Written(j - 1)
  BY PartNext
<1>3. Part(j) = Part(j - 1) \cup {}
  BY <1>1, <1>2, Zenon
<1>4. Part(j) = Part(j - 1)
  BY <1>3
<1> QED  BY <1>2, <1>4 DEF AfterShip, InShip

(* The location of the ship, if it is written.                             *)
LEMMA LocationOpens ==
  Takes(AfterShip(8), Field(9, "struct", 0), AfterLocation(0))
<1> DEFINE x == AfterShip(8)
           token == Field(9, "struct", 0)
<1>1. token.kind = "field" /\ token.id = 9 /\ token.type = "struct"
  BY DEF Field
<1>2. /\ Last(x.readers) = InShip(8) /\ x.object = Author \cup Part(8)
      /\ Append(x.readers, InLocation(0)) = <<InArgs, InShip(8), InLocation(0)>>
  <2>1. Last(<<InArgs, InShip(8)>>) = InShip(8)
    BY TwoReaders
  <2>2. Append(<<InArgs, InShip(8)>>, InLocation(0))
          = <<InArgs, InShip(8), InLocation(0)>>
    BY TwoReaders
  <2> QED  BY <2>1, <2>2 DEF AfterShip, State
<1>3. InShip(8).struct = "Ship" /\ InShip(8).path = << 2 >>
  BY DEF InShip, At
<1>4. Reader("Location", <<2, 9>>) = InLocation(0)
  <2>1. 1 .. 0 = {}
    OBVIOUS
  <2> QED  BY <2>1 DEF Reader, InLocation, At
<1>5. Append(<< 2 >>, 9) = <<2, 9>>
  BY ShipPaths
<1>6. /\ 9 \in DOMAIN Fields("Ship") /\ Fields("Ship")[9] = Ship[9]
      /\ Ship[9].type = "struct" /\ Ship[9].of = "Location"
  BY ShipFields
<1>7. AfterLocation(0)
        = State(<<InArgs, InShip(8), InLocation(0)>>, Author \cup Part(8))
  <2>1. LocationPart(0) = {}
    BY DEF LocationPart
  <2> QED  BY <2>1 DEF AfterLocation
<1> HIDE DEF token, x
<1>8. AfterLocation(0) = State(Append(x.readers, Reader("Location", <<2, 9>>)),
                               x.object)
  BY <1>2, <1>4, <1>7
<1>9. TakesOpen(x, token, AfterLocation(0))
  BY <1>1, <1>2, <1>3, <1>5, <1>6, <1>8 DEF TakesOpen
<1> QED  BY <1>9 DEF Takes, x, token

LEMMA LocationLeaf ==
  ASSUME ShipFits, IsWritten(Ship[9], <<2, 9>>), NEW k \in 1 .. 2
  PROVE  Takes(AfterLocation(k - 1),
               Field(k, Location[k].type, ValueAt(Append(<<2, 9>>, k))),
               AfterLocation(k))
<1> DEFINE x == AfterLocation(k - 1)
           token == Field(k, Location[k].type, ValueAt(Append(<<2, 9>>, k)))
           p == <<2, 9, k>>
           old == Author \cup Part(8) \cup LocationPart(k - 1)
<1>1. Append(<<2, 9>>, k) = p
  BY LocationPaths
<1>2. /\ token.kind = "field" /\ token.id = k /\ token.type = Location[k].type
      /\ token.val = ValueAt(p)
  BY <1>1 DEF Field
<1>3. /\ Last(x.readers) = InLocation(k - 1) /\ x.object = old
      /\ Seen(x.readers, k) = <<InArgs, InShip(8), InLocation(k)>>
  <2>1. Last(<<InArgs, InShip(8), InLocation(k - 1)>>) = InLocation(k - 1)
    BY ThreeReaders
  <2>2. Seen(<<InArgs, InShip(8), InLocation(k - 1)>>, k)
          = <<InArgs, InShip(8), At("Location", <<2, 9>>, (1 .. k - 1) \cup {k})>>
    BY SeenThree DEF InLocation
  <2>3. At("Location", <<2, 9>>, (1 .. k - 1) \cup {k}) = InLocation(k)
    <3>1. 1 .. k = (1 .. k - 1) \cup {k}
      OBVIOUS
    <3> QED  BY <3>1 DEF InLocation
  <2> QED  BY <2>1, <2>2, <2>3 DEF AfterLocation, State
<1>4. InLocation(k - 1).struct = "Location" /\ InLocation(k - 1).path = <<2, 9>>
  BY DEF InLocation, At
<1>5. /\ k \in DOMAIN Fields("Location") /\ Fields("Location")[k] = Location[k]
      /\ Location[k].type # "struct"
  BY LocationFields
<1>6. Stored(old, p, ValueAt(p)) = Author \cup Part(8) \cup LocationPart(k)
  <2>1. \A o \in old : o.path # p
    <3>1. \A o \in Author : o.path # p
      BY PathsDiffer DEF Author
    <3>2. \A o \in Part(8) : o.path # p
      <4>1. AtField(p, 9)
        BY DEF AtField
      <4>2. \A i \in 1 .. 8 : ~AtField(p, i)
        BY <4>1, FieldApart
      <4> QED  BY <4>2 DEF Part
    <3>3. \A o \in LocationPart(k - 1) : o.path # p
      <4>1. \A i \in 1 .. k - 1 : i \in Nat /\ i # k
        OBVIOUS
      <4> QED  BY <4>1, PathsDiffer DEF LocationPart
    <3> QED  BY <3>1, <3>2, <3>3
  <2>2. {o \in object : o.path = p} = {Entry(p)}
    BY DEF ShipFits, Given
  <2>3. LocationPart(k) = LocationPart(k - 1) \cup {Entry(p)}
    <3>1. 1 .. k = (1 .. k - 1) \cup {k}
      OBVIOUS
    <3>2. LocationPart(k) = LocationPart(k - 1) \cup {o \in object : o.path = p}
      BY <3>1 DEF LocationPart
    <3> QED  BY <2>2, <3>2
  <2>4. Stored(old, p, ValueAt(p)) = old \cup {[path |-> p, val |-> ValueAt(p)]}
    BY <2>1, StoredNew
  <2> QED  BY <2>3, <2>4 DEF Entry
<1>7. AfterLocation(k) = State(<<InArgs, InShip(8), InLocation(k)>>,
                               Author \cup Part(8) \cup LocationPart(k))
  BY DEF AfterLocation
<1> HIDE DEF token, x, old, p
<1>8. AfterLocation(k) = State(Seen(x.readers, k),
                               Stored(x.object, p, token.val))
  BY <1>2, <1>3, <1>6, <1>7
<1>9. TakesLeaf(x, token, AfterLocation(k))
  BY <1>1, <1>2, <1>3, <1>4, <1>5, <1>8 DEF TakesLeaf
<1> QED  BY <1>9 DEF Takes, x, token

LEMMA LocationStops ==
  ASSUME IsWritten(Ship[9], <<2, 9>>)
  PROVE  Takes(AfterLocation(2), Stop, AfterShip(9))
<1> DEFINE x == AfterLocation(2)
           rs == <<InArgs, InShip(8), InLocation(2)>>
           all == Author \cup Part(8) \cup LocationPart(2)
<1>1. x.readers = rs /\ x.object = all
  BY DEF AfterLocation, State
<1>2. Last(rs) = InLocation(2) /\ Len(rs) = 3 /\ Front(rs) = <<InArgs, InShip(8)>>
  BY ThreeReaders
<1>3. /\ InLocation(2).struct = "Location" /\ InLocation(2).path = <<2, 9>>
      /\ InLocation(2).seen = 1 .. 2
  BY DEF InLocation, At
<1>4. RequiredIds("Location") \subseteq 1 .. 2
  BY LocationFields DEF RequiredIds
<1>5. Last(<<2, 9>>) = 9
  BY DEF Last
<1>6. 9 \in 1 .. 11 /\ 9 - 1 = 8
  OBVIOUS
<1>7. Seen(<<InArgs, InShip(8)>>, 9) = <<InArgs, InShip(9)>>
  <2>1. Seen(<<InArgs, InShip(8)>>, 9)
          = <<InArgs, At("Ship", << 2 >>, Written(8) \cup {9})>>
    BY SeenTwo DEF InShip
  <2>2. Written(9) = Written(8) \cup {9}
    BY <1>6, PartNext
  <2> QED  BY <2>1, <2>2 DEF InShip
<1>8. Part(9) = Part(8) \cup LocationPart(2)
  <2>1. Part(9) = Part(8) \cup {o \in object : AtField(o.path, 9)}
    BY <1>6, PartNext
  <2> QED  BY <2>1 DEF AtField, LocationPart
<1>9. AfterShip(9) = State(<<InArgs, InShip(9)>>, all)
  BY <1>8 DEF AfterShip
<1> HIDE DEF x, rs, all
<1>10. AfterShip(9) = State(IF Len(x.readers) = 1 THEN <<>>
                              ELSE Seen(Front(x.readers), 9), x.object)
  BY <1>1, <1>2, <1>7, <1>9
<1>11. Stop.kind = "stop"
  BY DEF Stop
<1>12. TakesStop(x, Stop, AfterShip(9))
  BY <1>1, <1>2, <1>3, <1>4, <1>5, <1>10, <1>11 DEF TakesStop
<1> QED  BY <1>12 DEF Takes, x

(* What is written of a structure takes a read() through the states q, one *)
(* after each field, and out of the structure.                             *)
FieldRuns(S, s, path, nested, x, id, y) ==
  LET f == Fields(s)[id]
      open == Field(id, "struct", 0)
      leaf == Field(id, f.type, ValueAt(Append(path, id)))
  IN  /\ open \in S /\ leaf \in S
      /\ ~IsWritten(f, Append(path, id)) => y = x
      /\ IsWritten(f, Append(path, id)) =>
           IF f.type = "struct"
             THEN \E z : Takes(x, open, z) /\ Runs(nested, z, y)
             ELSE Takes(x, leaf, y)

LEMMA RunsStruct ==
  ASSUME NEW S, NEW s, NEW n \in Nat \ {0}, DOMAIN Fields(s) = 1 .. n,
         NEW path, NEW nested \in Seq(S), Stop \in S, NEW q, NEW z,
         \A id \in 1 .. n : FieldRuns(S, s, path, nested, q[id - 1], id, q[id]),
         Takes(q[n], Stop, z)
  PROVE  /\ WriteStruct(s, path, nested) \in Seq(S)
         /\ Runs(WriteStruct(s, path, nested), q[0], z)
<1> DEFINE open(id) == Field(id, "struct", 0)
           leaf(id) == Field(id, Fields(s)[id].type, ValueAt(Append(path, id)))
           written(id) ==
             LET f == Fields(s)[id]
                 p == Append(path, id)
             IN  IF ~IsWritten(f, p) THEN <<>>
                 ELSE IF f.type = "struct" THEN <<open(id)>> \o nested
                 ELSE <<leaf(id)>>
           p == [id \in 1 .. n |-> written(id)]
<1>1. WriteStruct(s, path, nested) = FlattenSeq(p) \o <<Stop>>
  BY DEF WriteStruct
<1>2. ASSUME NEW id \in 1 .. n
      PROVE  p[id] \in Seq(S) /\ Runs(p[id], q[id - 1], q[id])
  <2>1. p[id] = written(id)
    OBVIOUS
  <2> USE DEF FieldRuns
  <2>2. CASE ~IsWritten(Fields(s)[id], Append(path, id))
    <3>1. p[id] = <<>> /\ q[id] = q[id - 1]
      BY <2>1, <2>2
    <3> QED  BY <3>1, RunsEmpty, EmptySeq
  <2>3. CASE /\ IsWritten(Fields(s)[id], Append(path, id))
             /\ Fields(s)[id].type = "struct"
    <3> DEFINE o == open(id)
    <3>1. p[id] = <<o>> \o nested
      BY <2>1, <2>3
    <3>2. o \in S
      OBVIOUS
    <3>3. PICK y : Takes(q[id - 1], o, y) /\ Runs(nested, y, q[id])
      BY <2>3
    <3> HIDE DEF o, p
    <3>4. <<o>> \in Seq(S) /\ Runs(<<o>>, q[id - 1], y)
      BY <3>2, <3>3, RunsOne
    <3>5. <<o>> \o nested \in Seq(S)
      BY <3>4, ConcatProperties
    <3>6. Runs(<<o>> \o nested, q[id - 1], q[id])
      BY <3>3, <3>4, RunsOn
    <3> QED  BY <3>1, <3>5, <3>6
  <2>4. CASE /\ IsWritten(Fields(s)[id], Append(path, id))
             /\ Fields(s)[id].type # "struct"
    <3> DEFINE l == leaf(id)
    <3>1. p[id] = <<l>>
      BY <2>1, <2>4
    <3>2. l \in S /\ Takes(q[id - 1], l, q[id])
      BY <2>4
    <3> HIDE DEF l, p
    <3>3. <<l>> \in Seq(S) /\ Runs(<<l>>, q[id - 1], q[id])
      BY <3>2, RunsOne
    <3> QED  BY <3>1, <3>3
  <2> QED  BY <2>2, <2>3, <2>4
<1>3. Len(p) = n
  OBVIOUS
<1> HIDE DEF p
<1> DEFINE u == FlattenSeq(p)
<1>4. u \in Seq(S) /\ Runs(u, q[0], q[n])
  BY <1>2, <1>3, RunsAlong
<1>5. <<Stop>> \in Seq(S) /\ Runs(<<Stop>>, q[n], z)
  BY RunsOne
<1> HIDE DEF u
<1>6. u \o <<Stop>> \in Seq(S)
  BY <1>4, <1>5, ConcatProperties
<1>7. Runs(u \o <<Stop>>, q[0], z)
  BY <1>4, <1>5, RunsOn
<1> QED  BY <1>1, <1>6, <1>7 DEF u

LEMMA LocationRuns ==
  ASSUME ShipFits, IsWritten(Ship[9], <<2, 9>>)
  PROVE  Runs(WriteLocation(Append(<< 2 >>, 9)), AfterLocation(0), AfterShip(9))
<1> DEFINE q == [k \in 0 .. 2 |-> AfterLocation(k)]
           S == ForwardTokens
           path == Append(<< 2 >>, 9)
<1>1. path = <<2, 9>>
  BY ShipPaths
<1>2. \A k \in 1 .. 2 : q[k] = AfterLocation(k) /\ q[k - 1] = AfterLocation(k - 1)
  OBVIOUS
<1>3. q[0] = AfterLocation(0) /\ q[2] = AfterLocation(2)
  OBVIOUS
<1>4. /\ Stop \in S
      /\ \A id \in 1 .. 2 :
           /\ Field(id, "struct", 0) \in S
           /\ Field(id, Location[id].type, ValueAt(Append(path, id))) \in S
  BY ForwardTokensHave
<1> HIDE DEF q, S, path
<1>5. ASSUME NEW id \in 1 .. 2
      PROVE  FieldRuns(S, "Location", path, <<>>, q[id - 1], id, q[id])
  <2>1. Takes(AfterLocation(id - 1),
              Field(id, Location[id].type, ValueAt(Append(<<2, 9>>, id))),
              AfterLocation(id))
    BY LocationLeaf
  <2> QED  BY <1>1, <1>2, <1>4, <2>1, LocationFields DEF IsWritten, FieldRuns
<1>6. Takes(q[2], Stop, AfterShip(9))
  BY <1>3, LocationStops
<1>7. <<>> \in Seq(S) /\ DOMAIN Fields("Location") = 1 .. 2 /\ 2 \in Nat \ {0}
  BY LocationFields, EmptySeq
<1>8. Runs(WriteStruct("Location", path, <<>>), q[0], AfterShip(9))
  BY <1>4, <1>5, <1>6, <1>7, RunsStruct
<1> QED  BY <1>3, <1>8 DEF WriteLocation, path

LEMMA LocationSeq == WriteLocation(Append(<< 2 >>, 9)) \in Seq(ForwardTokens)
<1> DEFINE S == ForwardTokens
           path == Append(<< 2 >>, 9)
<1>1. /\ Stop \in S
      /\ \A id \in 1 .. 2 :
           /\ Field(id, "struct", 0) \in S
           /\ Field(id, Location[id].type, ValueAt(Append(path, id))) \in S
  BY ForwardTokensHave
<1> HIDE DEF S, path
<1>2. <<>> \in Seq(S) /\ DOMAIN Fields("Location") = 1 .. 2
  BY LocationFields, EmptySeq
<1>3. \A id \in 1 .. 2 :
        /\ Fields("Location")[id] = Location[id] /\ Location[id].type # "struct"
  BY LocationFields
<1>4. 1 \in Nat \ {0} /\ 2 \in Nat \ {0}
  OBVIOUS
<1>5. \A id \in 1 .. 2 :
        /\ Field(id, "struct", 0) \in S
        /\ Field(id, Fields("Location")[id].type, ValueAt(Append(path, id))) \in S
        /\ Fields("Location")[id].type = "struct" => Leads(<<>>, 1 + 1, 1)
  BY <1>1, <1>3
<1>6. WriteStruct("Location", path, <<>>) \in Seq(S)
  BY <1>1, <1>2, <1>4, <1>5, LeadsStruct
<1> QED  BY <1>6 DEF WriteLocation, S, path

(* The states before and after the ship.                                   *)
Before == State(<<Reader("on_subscribeShip", <<>>)>>, {})
After  == State(<<>>, Author \cup Part(11))

LEMMA ShipRuns ==
  ASSUME ShipFits
  PROVE  /\ WriteShip(<< 2 >>) \in Seq(ForwardTokens)
         /\ Runs(WriteShip(<< 2 >>), AfterShip(0),
                 State(<<At("on_subscribeShip", <<>>, {1, 2})>>,
                       Author \cup Part(11)))
<1> DEFINE q == [j \in 0 .. 11 |-> AfterShip(j)]
           S == ForwardTokens
           loc == WriteLocation(Append(<< 2 >>, 9))
           z == State(<<At("on_subscribeShip", <<>>, {1, 2})>>,
                      Author \cup Part(11))
<1>1. \A j \in 1 .. 11 : q[j] = AfterShip(j) /\ q[j - 1] = AfterShip(j - 1)
  OBVIOUS
<1>2. q[0] = AfterShip(0) /\ q[11] = AfterShip(11)
  OBVIOUS
<1>3. /\ Stop \in S
      /\ \A id \in 1 .. 11 :
           /\ Field(id, "struct", 0) \in S
           /\ Field(id, Ship[id].type, ValueAt(Append(<< 2 >>, id))) \in S
  BY ForwardTokensHave
<1>4. loc \in Seq(S)
  BY LocationSeq
<1> HIDE DEF S
<1>5. ASSUME NEW j \in 1 .. 11
      PROVE  FieldRuns(S, "Ship", << 2 >>, loc, q[j - 1], j, q[j])
  <2>1. Append(<< 2 >>, j) = <<2, j>>
    BY ShipPaths
  <2> HIDE DEF q, loc
  <2>2. CASE ~IsWritten(Ship[j], <<2, j>>)
    <3>1. AfterShip(j) = AfterShip(j - 1)
      BY <2>2, ShipGap
    <3> QED  BY <1>1, <1>3, <2>1, <2>2, <3>1, ShipFields DEF FieldRuns
  <2>3. CASE IsWritten(Ship[j], <<2, j>>) /\ j # 9
    <3>1. Takes(AfterShip(j - 1),
                Field(j, Ship[j].type, ValueAt(Append(<< 2 >>, j))), AfterShip(j))
      BY <2>3, ShipLeaf
    <3>2. Ship[j].type # "struct"
      BY <2>3, ShipFields
    <3> QED  BY <1>1, <1>3, <2>1, <2>3, <3>1, <3>2, ShipFields DEF FieldRuns
  <2>4. CASE IsWritten(Ship[j], <<2, j>>) /\ j = 9
    <3>1. 9 - 1 = 8
      OBVIOUS
    <3>2. Takes(AfterShip(8), Field(9, "struct", 0), AfterLocation(0))
      BY LocationOpens
    <3>3. Runs(loc, AfterLocation(0), AfterShip(9))
      BY <2>4, LocationRuns DEF loc
    <3>4. q[9] = AfterShip(9) /\ q[9 - 1] = AfterShip(8)
      BY <1>1, <2>4, <3>1
    <3>5. \E y : Takes(q[9 - 1], Field(9, "struct", 0), y) /\ Runs(loc, y, q[9])
      BY <3>2, <3>3, <3>4
    <3>6. Ship[9].type = "struct"
      BY ShipFields
    <3> QED  BY <1>3, <2>1, <2>4, <3>5, <3>6, ShipFields DEF FieldRuns
  <2> QED  BY <2>2, <2>3, <2>4
<1> HIDE DEF q, loc
<1>6. Takes(q[11], Stop, z)
  <2> DEFINE x == AfterShip(11)
             rs == <<InArgs, InShip(11)>>
             all == Author \cup Part(11)
  <2>1. x.readers = rs /\ x.object = all
    BY DEF AfterShip, State
  <2>2. Last(rs) = InShip(11) /\ Len(rs) = 2 /\ Front(rs) = <<InArgs>>
    BY TwoReaders
  <2>3. /\ InShip(11).struct = "Ship" /\ InShip(11).path = << 2 >>
        /\ InShip(11).seen = Written(11)
    BY DEF InShip, At
  <2>4. RequiredIds("Ship") \subseteq Written(11)
    BY ShipFields DEF RequiredIds, Written, IsWritten
  <2>5. Last(<< 2 >>) = 2
    BY DEF Last
  <2>6. Seen(<<InArgs>>, 2) = <<At("on_subscribeShip", <<>>, {1, 2})>>
    <3>1. {1} \cup {2} = {1, 2}
      OBVIOUS
    <3> QED  BY <3>1, SeenOne DEF InArgs
  <2> HIDE DEF x, rs, all
  <2>7. z = State(IF Len(x.readers) = 1 THEN <<>>
                    ELSE Seen(Front(x.readers), 2), x.object)
    BY <2>1, <2>2, <2>6 DEF all
  <2>8. Stop.kind = "stop"
    BY DEF Stop
  <2> HIDE DEF z
  <2>9. TakesStop(x, Stop, z)
    BY <2>1, <2>2, <2>3, <2>4, <2>5, <2>7, <2>8 DEF TakesStop
  <2> QED  BY <1>2, <2>9 DEF Takes, x
<1> HIDE DEF z
<1>7. /\ DOMAIN Fields("Ship") = 1 .. 11 /\ 11 \in Nat \ {0}
      /\ Fields("Ship") = Ship
  BY ShipFields
<1>8. /\ WriteStruct("Ship", << 2 >>, loc) \in Seq(S)
      /\ Runs(WriteStruct("Ship", << 2 >>, loc), q[0], z)
  BY <1>3, <1>4, <1>5, <1>6, <1>7, RunsStruct
<1> QED  BY <1>2, <1>8 DEF WriteShip, loc, z, S

(* The whole frame: whoever reads it has the author and the ship.          *)
LEMMA SubscribeFields ==
  /\ DOMAIN Fields("on_subscribeShip") = 1 .. 2
  /\ Fields("on_subscribeShip")[1].type = "string"
  /\ Fields("on_subscribeShip")[2].type = "struct"
  /\ Fields("on_subscribeShip")[2].of = "Ship"
<1>1. Fields("on_subscribeShip") = <<Required("string"), Struct("required", "Ship")>>
  BY DEF Fields, ServerArgs, ClientArgs
<1> QED  BY <1>1 DEF Required, Struct

LEMMA ArgsOpen ==
  /\ Takes(Before, Field(1, "string", UserName), State(<<InArgs>>, Author))
  /\ Takes(State(<<InArgs>>, Author), Field(2, "struct", 0), AfterShip(0))
<1> DEFINE m == "on_subscribeShip"
           r == At(m, <<>>, {})
           x == State(<<r>>, {})
           y == State(<<InArgs>>, Author)
           a == Field(1, "string", UserName)
           b == Field(2, "struct", 0)
<1>1. Before = x
  BY DEF Before, Reader, At
<1>2. /\ a.kind = "field" /\ a.id = 1 /\ a.type = "string" /\ a.val = UserName
      /\ b.kind = "field" /\ b.id = 2 /\ b.type = "struct"
  BY DEF Field
<1>3. r.struct = m /\ r.path = <<>> /\ InArgs.struct = m /\ InArgs.path = <<>>
  BY DEF At, InArgs
<1>4. Append(<<>>, 1) = <<1>> /\ Append(<<>>, 2) = << 2 >>
  OBVIOUS
<1>5. Takes(Before, a, y)
  <2>1. Last(x.readers) = r /\ x.object = {} /\ Seen(x.readers, 1) = <<InArgs>>
    <3>1. Last(<<r>>) = r /\ Seen(<<r>>, 1) = <<At(m, <<>>, {} \cup {1})>>
      BY OneReader, SeenOne
    <3>2. {} \cup {1} = {1}
      OBVIOUS
    <3> QED  BY <3>1, <3>2 DEF State, InArgs
  <2>2. Stored({}, <<1>>, UserName) = Author
    BY DEF Stored, Author
  <2> HIDE DEF x, a, r
  <2>3. y = State(Seen(x.readers, 1), Stored(x.object, <<1>>, a.val))
    BY <1>2, <2>1, <2>2
  <2> HIDE DEF y
  <2>4. /\ 1 \in DOMAIN Fields(r.struct) /\ Fields(r.struct)[1].type = "string"
        /\ r.path = <<>>
    BY <1>3, SubscribeFields
  <2> HIDE DEF m
  <2>5. /\ Last(x.readers) = r /\ a.kind = "field" /\ a.id = 1
        /\ a.type = "string" /\ Append(r.path, a.id) = <<1>>
    BY <1>2, <1>4, <2>1, <2>4
  <2>6. TakesLeaf(x, a, y)
    BY <2>3, <2>4, <2>5 DEF TakesLeaf
  <2> QED  BY <1>1, <2>6 DEF Takes
<1>6. Takes(y, b, AfterShip(0))
  <2>1. /\ Last(y.readers) = InArgs /\ y.object = Author
        /\ Append(y.readers, InShip(0)) = <<InArgs, InShip(0)>>
    <3>1. Last(<<InArgs>>) = InArgs
      BY OneReader
    <3>2. Append(<<InArgs>>, InShip(0)) = <<InArgs, InShip(0)>>
      BY OneReader
    <3> QED  BY <3>1, <3>2 DEF State
  <2>2. Reader("Ship", << 2 >>) = InShip(0)
    <3>1. Written(0) = {}
      BY DEF Written
    <3> QED  BY <3>1 DEF Reader, InShip, At
  <2>3. AfterShip(0) = State(<<InArgs, InShip(0)>>, Author)
    <3>1. Part(0) = {}
      BY DEF Part
    <3> QED  BY <3>1 DEF AfterShip
  <2> HIDE DEF y, b
  <2>4. AfterShip(0) = State(Append(y.readers, Reader("Ship", << 2 >>)), y.object)
    BY <2>1, <2>2, <2>3
  <2>5. /\ 2 \in DOMAIN Fields(InArgs.struct) /\ InArgs.path = <<>>
        /\ Fields(InArgs.struct)[2].type = "struct"
        /\ Fields(InArgs.struct)[2].of = "Ship"
    BY <1>3, SubscribeFields
  <2>6. /\ Last(y.readers) = InArgs /\ b.kind = "field" /\ b.id = 2
        /\ b.type = "struct" /\ Append(InArgs.path, b.id) = << 2 >>
    BY <1>2, <1>4, <2>1, <2>5
  <2>7. TakesOpen(y, b, AfterShip(0))
    BY <2>4, <2>5, <2>6 DEF TakesOpen
  <2> QED  BY <2>7 DEF Takes
<1> QED  BY <1>5, <1>6

LEMMA ArgsStop ==
  Takes(State(<<At("on_subscribeShip", <<>>, {1, 2})>>, Author \cup Part(11)),
        Stop, After)
<1> DEFINE r == At("on_subscribeShip", <<>>, {1, 2})
           x == State(<<r>>, Author \cup Part(11))
<1>1. x.object = Author \cup Part(11) /\ Last(x.readers) = r /\ Len(x.readers) = 1
  <2>1. Last(<<r>>) = r /\ Len(<<r>>) = 1
    BY OneReader
  <2> QED  BY <2>1 DEF State
<1>2. RequiredIds(r.struct) \subseteq r.seen
  <2>1. r.struct = "on_subscribeShip" /\ r.seen = {1, 2} /\ 1 .. 2 = {1, 2}
    BY DEF At
  <2> QED  BY <2>1, SubscribeFields DEF RequiredIds
<1>3. Stop.kind = "stop"
  BY DEF Stop
<1> HIDE DEF x
<1>4. After = State(<<>>, x.object)
  BY <1>1 DEF After
<1>5. TakesStop(x, Stop, After)
  BY <1>1, <1>2, <1>3, <1>4 DEF TakesStop
<1> QED  BY <1>5 DEF Takes, x

LEMMA ForwardRuns ==
  ASSUME ShipFits
  PROVE  /\ Runs(ForwardFrame, Before, After)
         /\ {o \in After.object : o.path[1] = 2} = {o \in object : o.path[1] = 2}
<1> DEFINE S == ForwardTokens
           a == Field(1, "string", UserName)
           b == Field(2, "struct", 0)
           ship == WriteShip(<< 2 >>)
           x == State(<<InArgs>>, Author)
           z == State(<<At("on_subscribeShip", <<>>, {1, 2})>>,
                      Author \cup Part(11))
<1>1. a \in S /\ b \in S /\ Stop \in S
  BY ForwardTokensHave
<1>2. Takes(Before, a, x) /\ Takes(x, b, AfterShip(0)) /\ Takes(z, Stop, After)
  BY ArgsOpen, ArgsStop
<1>3. ship \in Seq(S) /\ Runs(ship, AfterShip(0), z)
  BY ShipRuns
<1>4. {o \in After.object : o.path[1] = 2} = {o \in object : o.path[1] = 2}
  <2>1. After.object = Author \cup Part(11)
    BY DEF After, State
  <2>2. \A o \in Author : o.path[1] # 2
    <3>1. <<1>>[1] = 1
      OBVIOUS
    <3> QED  BY <3>1 DEF Author
  <2>3. \A o \in object : o.path[1] = 2 <=> o \in Part(11)
    BY DEF ShipFits, Part
  <2>4. Part(11) \subseteq object
    BY DEF Part
  <2> QED  BY <2>1, <2>2, <2>3, <2>4
<1> HIDE DEF S, a, b, ship, x, z
<1>5. /\ <<a>> \in Seq(S) /\ <<b>> \in Seq(S) /\ <<Stop>> \in Seq(S)
      /\ <<a, b>> \in Seq(S)
  BY <1>1
<1>6. Runs(<<a>>, Before, x) /\ Runs(<<b>>, x, AfterShip(0)) /\ Runs(<<Stop>>, z, After)
  BY <1>2, RunsOne
<1>7. Runs(<<a>> \o <<b>>, Before, AfterShip(0))
  BY <1>5, <1>6, RunsOn
<1>8. <<a>> \o <<b>> = <<a, b>>
  BY <1>1, <1>5, Pair, AppendIsConcat
<1> DEFINE head == <<a, b>>
<1>9. head \in Seq(S) /\ Runs(head, Before, AfterShip(0))
  BY <1>5, <1>7, <1>8
<1> HIDE DEF head
<1>10. head \o ship \in Seq(S)
  BY <1>3, <1>9, ConcatProperties
<1>11. Runs(head \o ship, Before, z)
  BY <1>3, <1>9, RunsOn
<1>12. Runs(head \o ship \o <<Stop>>, Before, After)
  BY <1>5, <1>6, <1>10, <1>11, RunsOn
<1> QED  BY <1>4, <1>12 DEF ForwardFrame, head, a, b, ship

-----------------------------------------------------------------------------
(* What the server has read when it passes a ship on fits: there is one    *)
(* value at a path, and the flag of an optional field is set when it has a *)
(* value, that of the location when the location is complete.              *)
OneValue ==
  /\ \A x, y \in object : x.path = y.path => x = y
  /\ \A x \in object : x = [path |-> x.path, val |-> x.val]

ShipFlags(o, flags) ==
  \A id \in 1 .. 11 :
    Ship[id].need = "optional" /\ Got(o, <<2, id>>) => <<2, id>> \in flags

LocationFlag(o, flags, n) ==
  \A k \in 1 .. 2 : Got(o, <<2, 9, k>>) => <<2, 9>> \in flags \/ n = 3

GInv == /\ OneValue /\ ShipFlags(object, isset)
        /\ LocationFlag(object, isset, Len(readers))

LEMMA GivenOne ==
  ASSUME OneValue, NEW path, Got(object, path)
  PROVE  Given(path) = {Entry(path)}
<1>1. PICK x \in object : x.path = path
  BY DEF Got
<1>2. \A o \in object : o.path = path => o = x
  BY <1>1 DEF OneValue
<1>3. (CHOOSE o \in object : o.path = path) = x
  BY <1>1, <1>2
<1>4. Entry(path) = x
  BY <1>1, <1>3 DEF Entry, ValueAt, OneValue
<1> QED  BY <1>1, <1>2, <1>4 DEF Given

LEMMA GivenNone ==
  ASSUME NEW path, ~Got(object, path)
  PROVE  Given(path) = {}
BY DEF Given, Got

LEMMA ShipMethodArgs ==
  ASSUME NEW m \in ShipMethods
  PROVE  m \in Methods /\ BaseIds(m) = {1}
<1>1. m \in Methods
  BY DEF ShipMethods, Methods, ServerArgs, ClientArgs
<1>2. Fields(m) = <<Required("string"), Struct("required", "Ship")>>
  BY DEF ShipMethods, Fields, ServerArgs, ClientArgs
<1> DEFINE f == <<Required("string"), Struct("required", "Ship")>>
<1>3. DOMAIN f = 1 .. 2 /\ f[1].type # "struct" /\ f[2].type = "struct"
  BY DEF Required, Struct
<1> HIDE DEF f
<1>4. BaseIds(m) = {id \in 1 .. 2 : f[id].type # "struct"}
  BY <1>2, <1>3 DEF BaseIds, f
<1> QED  BY <1>1, <1>3, <1>4

LEMMA PathsOfShip ==
  ASSUME method \in ShipMethods, NEW path \in Paths(method)
  PROVE  path[1] = 2 <=> \E i \in 1 .. 11 : AtField(path, i)
<1>1. Paths(method) = {<<i>> : i \in BaseIds(method)}
                        \cup {<<2, i>> : i \in BaseIds("Ship")}
                        \cup {<<2, 9, i>> : i \in BaseIds("Location")}
  BY DEF Paths, ShipMethods
<1>2. CASE path = <<1>>
  <2>1. path[1] # 2
    BY <1>2
  <2>2. \A i \in 1 .. 11 : ~AtField(path, i)
    BY <1>2, FieldApart, PathsDiffer DEF AtField
  <2> QED  BY <2>1, <2>2
<1>3. CASE \E i \in BaseIds("Ship") : path = <<2, i>>
  <2>1. PICK i \in BaseIds("Ship") : path = <<2, i>>
    BY <1>3
  <2>2. i \in 1 .. 11 /\ i # 9
    BY <2>1, ShipFields DEF BaseIds
  <2>3. path[1] = 2 /\ AtField(path, i)
    BY <2>1, <2>2 DEF AtField
  <2> QED  BY <2>2, <2>3
<1>4. CASE \E k \in BaseIds("Location") : path = <<2, 9, k>>
  <2>1. PICK k \in 1 .. 2 : path = <<2, 9, k>>
    BY <1>4, LocationFields DEF BaseIds
  <2>2. path[1] = 2 /\ AtField(path, 9)
    BY <2>1 DEF AtField
  <2> QED  BY <2>2
<1> QED  BY <1>1, <1>2, <1>3, <1>4, ShipMethodArgs

LEMMA ShipIsFit ==
  ASSUME UInv, TInv, GInv, outcome = "called", method \in ShipMethods
  PROVE  ShipFits
<1>1. /\ Filled(object, "Ship", << 2 >>) /\ FlagRead(object, isset)
      /\ readers = <<>>
  BY DEF UInv, HandlerFit
<1>2. \A o \in object : o.path[1] = 2 <=> \E i \in 1 .. 11 : AtField(o.path, i)
  BY PathsOfShip DEF TInv
<1>3. ASSUME NEW i \in 1 .. 11, i # 9
      PROVE  Given(<<2, i>>) = IF IsWritten(Ship[i], <<2, i>>)
                                 THEN {Entry(<<2, i>>)} ELSE {}
  <2>1. /\ Append(<< 2 >>, i) = <<2, i>> /\ Fields("Ship")[i] = Ship[i]
        /\ i \in DOMAIN Fields("Ship") /\ Ship[i].type # "struct"
        /\ Ship[i].need \in {"required", "optional"}
    BY <1>3, ShipPaths, ShipFields
  <2>2. CASE IsWritten(Ship[i], <<2, i>>)
    <3>1. Got(object, <<2, i>>)
      <4>1. Ship[i].need = "required" => Got(object, <<2, i>>)
        BY <1>1, <2>1 DEF Filled, RequiredIds
      <4>2. <<2, i>> \in isset => Got(object, <<2, i>>)
        BY <1>1, <2>1 DEF FlagRead, ReadAt
      <4> QED  BY <2>2, <4>1, <4>2 DEF IsWritten
    <3> QED  BY <2>2, <3>1, GivenOne DEF GInv
  <2>3. CASE ~IsWritten(Ship[i], <<2, i>>)
    <3>1. ~Got(object, <<2, i>>)
      BY <2>1, <2>3 DEF IsWritten, GInv, ShipFlags
    <3> QED  BY <2>3, <3>1, GivenNone
  <2> QED  BY <2>2, <2>3
<1>4. ASSUME NEW k \in 1 .. 2
      PROVE  Given(<<2, 9, k>>) = IF IsWritten(Ship[9], <<2, 9>>)
                                    THEN {Entry(<<2, 9, k>>)} ELSE {}
  <2>1. Ship[9].need # "required"
    BY DEF Ship, Struct
  <2>2. CASE IsWritten(Ship[9], <<2, 9>>)
    <3>1. <<2, 9>> \in isset /\ 9 \in 1 .. 11
      BY <2>1, <2>2 DEF IsWritten
    <3>2. ReadAt(object, "Ship", << 2 >>, 9)
      BY <1>1, <3>1 DEF FlagRead
    <3>3. Filled(object, "Location", <<2, 9>>)
      BY <3>2, ShipFields, ShipPaths DEF ReadAt
    <3>4. Append(<<2, 9>>, k) = <<2, 9, k>>
      BY LocationPaths
    <3>5. k \in RequiredIds("Location") /\ Fields("Location")[k].type # "struct"
      BY LocationFields DEF RequiredIds
    <3>6. Got(object, <<2, 9, k>>)
      BY <3>3, <3>4, <3>5 DEF Filled
    <3> QED  BY <2>2, <3>6, GivenOne DEF GInv
  <2>3. CASE ~IsWritten(Ship[9], <<2, 9>>)
    <3>1. Len(readers) # 3
      BY <1>1
    <3>2. ~Got(object, <<2, 9, k>>)
      BY <2>3, <3>1 DEF IsWritten, GInv, LocationFlag
    <3> QED  BY <2>3, <3>2, GivenNone
  <2> QED  BY <2>2, <2>3
<1> QED  BY <1>2, <1>3, <1>4 DEF ShipFits

LEMMA ReadFieldGiven ==
  ASSUME UInv, GInv, ReadField
  PROVE  GInv'
<1> DEFINE id == Head(frame).id
           p == Append(Inner.path, id)
           e == [path |-> p, val |-> Head(frame).val]
           r == Inner
<1>1. /\ outcome = "reading" /\ readers' = Seen(readers, id)
      /\ id \in DOMAIN Fields(r.struct) /\ Fields(r.struct)[id].type # "struct"
      /\ object' = {o \in object : o.path # p} \cup {e}
      /\ isset' = IsSet(r, id)
  BY DEF ReadField, Turn, IsKnown, Path
<1>2. readers # <<>>
  BY <1>1 DEF UInv, HandlerFit
<1>3. /\ id \in Nat /\ Len(readers) \in 1 .. 3
      /\ Len(readers) = 1 => p = <<id>>
      /\ Len(readers) = 2 => r.struct = "Ship" /\ p = <<2, id>>
      /\ Len(readers) = 3 => p = <<2, 9, id>>
  BY <1>1, <1>2, WhereRead
<1>4. Len(readers') = Len(readers)
  BY <1>1, <1>2, <1>3, SeenReaders DEF UInv, Nested
<1>5. e.path = p /\ e = [path |-> e.path, val |-> e.val]
  OBVIOUS
<1>6. isset \subseteq isset'
        /\ (Fields(r.struct)[id].need = "optional" => p \in isset')
  BY <1>1 DEF IsSet
<1>7. \A path : Got(object', path) => Got(object, path) \/ path = p
  BY <1>1, <1>5 DEF Got
<1> HIDE DEF id, p, e, r
<1>8. OneValue'
  BY <1>1, <1>5 DEF GInv, OneValue
<1>9. ShipFlags(object', isset')
  <2> SUFFICES ASSUME NEW i \in 1 .. 11, Ship[i].need = "optional", p = <<2, i>>
               PROVE  p \in isset'
    BY <1>6, <1>7 DEF GInv, ShipFlags
  <2>1. Len(readers) = 2
    <3>1. \A j \in Nat : <<j>> # <<2, i>> /\ <<2, 9, j>> # <<2, i>>
      BY PathsDiffer
    <3> QED  BY <1>3, <3>1
  <2>2. r.struct = "Ship" /\ id = i
    BY <1>3, <2>1, PathsDiffer
  <2> QED  BY <1>6, <2>2, ShipFields
<1>10. LocationFlag(object', isset', Len(readers'))
  <2> SUFFICES ASSUME NEW k \in 1 .. 2, p = <<2, 9, k>>
               PROVE  Len(readers) = 3
    BY <1>4, <1>6, <1>7 DEF GInv, LocationFlag
  <2>1. \A j \in Nat : <<j>> # <<2, 9, k>> /\ <<2, j>> # <<2, 9, k>>
    BY PathsDiffer
  <2> QED  BY <1>3, <2>1
<1> QED  BY <1>8, <1>9, <1>10 DEF GInv

LEMMA FrontReaders ==
  ASSUME readers \in Readers, Len(readers) \in 2 .. 3
  PROVE  Last(Front(readers)) = readers[Len(readers) - 1]
<1> DEFINE R == [struct : Methods \cup {"Ship", "Location"},
                 path : {<<>>, << 2 >>, <<2, 9>>}, seen : SUBSET Nat]
           L == Len(readers)
<1>1. readers \in Seq(R)
  BY DEF Readers
<1> HIDE DEF R
<1>2. \A k \in 1 .. L - 1 : readers[k] \in R
  BY <1>1
<1>3. L \in 2 .. 3
  OBVIOUS
<1> HIDE DEF L
<1>4. /\ Len(SubSeq(readers, 1, L - 1)) = L - 1
      /\ \A k \in 1 .. L - 1 : SubSeq(readers, 1, L - 1)[k] = readers[k]
  BY <1>2, <1>3, SubSeqProperties
<1>5. L - 1 \in 1 .. L - 1
  BY <1>3
<1> QED  BY <1>4, <1>5 DEF Front, Last, L

LEMMA StructEndsGiven ==
  ASSUME UInv, GInv, StructEnds
  PROVE  GInv'
<1> DEFINE L == Len(readers)
           id == Last(Inner.path)
           rs == Front(readers)
<1>1. outcome = "reading" /\ object' = object
  BY DEF StructEnds, Turn
<1>2. readers # <<>>
  BY <1>1 DEF UInv, HandlerFit
<1>3. L \in 1 .. 3 /\ readers \in Readers /\ Inner = readers[L]
  BY <1>2, InnerReader
<1>4. OneValue'
  BY <1>1 DEF GInv, OneValue
<1>5. isset \subseteq isset' /\ (L = 3 => <<2, 9>> \in isset')
  <2>1. CASE L = 1
    BY <2>1 DEF StructEnds
  <2>2. CASE L \in 2 .. 3
    <3>1. isset' = IsSet(Last(rs), id)
      BY <2>2 DEF StructEnds
    <3>2. isset \subseteq isset'
      BY <3>1 DEF IsSet
    <3>3. ASSUME L = 3 PROVE <<2, 9>> \in isset'
      <4>1. Inner.path = <<2, 9>> /\ readers[2].struct = "Ship"
            /\ readers[2].path = << 2 >>
        BY <1>3, <3>3 DEF UInv, Nested
      <4>2. Last(<<2, 9>>) = 9
        BY DEF Last
      <4>3. Last(rs) = readers[2]
        BY <1>3, <3>3, FrontReaders
      <4>4. Ship[9].need = "optional" /\ Fields("Ship") = Ship
        BY ShipFields DEF Ship, Struct
      <4> QED  BY <3>1, <4>1, <4>2, <4>3, <4>4, ShipPaths DEF IsSet
    <3> QED  BY <3>2, <3>3
  <2> QED  BY <1>3, <2>1, <2>2
<1>6. ShipFlags(object', isset')
  BY <1>1, <1>5 DEF GInv, ShipFlags
<1>7. LocationFlag(object', isset', Len(readers'))
  BY <1>1, <1>5 DEF GInv, LocationFlag
<1> QED  BY <1>4, <1>6, <1>7 DEF GInv

LEMMA ReadStructGiven ==
  ASSUME UInv, GInv, ReadStruct
  PROVE  GInv'
<1>1. outcome = "reading" /\ object' = object /\ isset' = isset
  BY DEF ReadStruct, Turn
<1>2. readers # <<>>
  BY <1>1 DEF UInv, HandlerFit
<1>3. Len(readers) # 3
  <2>1. SUFFICES ASSUME Len(readers) = 3 PROVE FALSE
    OBVIOUS
  <2>2. Inner.struct = "Location"
    BY <1>2, <2>1, InnerReader DEF UInv, Nested
  <2>3. /\ Head(frame).id \in DOMAIN Fields("Location")
        /\ Fields("Location")[Head(frame).id].type = "struct"
    BY <2>2 DEF ReadStruct, IsKnown
  <2> QED  BY <2>3, LocationFields
<1> QED  BY <1>1, <1>3 DEF GInv, OneValue, ShipFlags, LocationFlag

LEMMA NextGInv ==
  UInv /\ FInv /\ GInv /\ [Next]_<<vars, senderVars, wire, calls, taken>> => GInv'
<1> SUFFICES ASSUME UInv, FInv, GInv,
                    [Next]_<<vars, senderVars, wire, calls, taken>>
             PROVE  GInv'
  OBVIOUS
<1>1. ASSUME UNCHANGED <<readers, object, isset>> PROVE GInv'
  BY <1>1 DEF GInv, OneValue
<1>2. ASSUME object' = {} PROVE GInv'
  BY <1>2 DEF GInv, OneValue, ShipFlags, LocationFlag, Got
<1>3. ASSUME NEW t \in Threads,
             SendStarts(t) \/ WriteArgs(t) \/ Flush(t) \/ Commit(t)
      PROVE  GInv'
  BY <1>1, <1>3 DEF SendStarts, Starts, WriteArgs, Flush, Commit, vars
<1>4. ASSUME Deliver PROVE GInv'
  BY <1>2, <1>4 DEF Deliver, Receive
<1>5. ASSUME Process PROVE GInv'
  <2>1. CASE DispatchKnown
    <3>1. outcome = "arrived" /\ object' = object /\ isset' = isset
      BY <2>1 DEF DispatchKnown
    <3>2. Len(readers) # 3
      BY <3>1 DEF FInv
    <3> QED  BY <3>1, <3>2 DEF GInv, OneValue, LocationFlag
  <2>2. CASE Forward
    BY <1>2, <2>2 DEF Forward
  <2>3. CASE DispatchUnknown \/ UnknownSkipped \/ SkipField \/ Skip \/ StructThrows
    BY <1>1, <2>3
    DEF DispatchUnknown, UnknownSkipped, SkipField, Skip, StructThrows
  <2>4. CASE ReadField \/ ReadStruct \/ StructEnds
    BY <2>4, ReadFieldGiven, ReadStructGiven, StructEndsGiven
  <2> QED  BY <1>5, <2>1, <2>2, <2>3, <2>4 DEF Process
<1>6. ASSUME UNCHANGED vars PROVE GInv'
  BY <1>1, <1>6 DEF vars
<1> QED  BY <1>3, <1>4, <1>5, <1>6 DEF Next

-----------------------------------------------------------------------------
(* What is left of the frame in which a ship is passed on takes the read() *)
(* of the other client to the end, with the ship that was posted.          *)
WillHave(f, x, ship) ==
  \E y : /\ Runs(f, x, y) /\ y.readers = <<>>
         /\ {o \in y.object : o.path[1] = 2} = ship

OnItsWay ==
  /\ at = "client" /\ method = "on_subscribeShip" /\ depth = 0
  /\ outcome \in {"arrived", "reading", "called"}
  /\ outcome = "arrived" => object = {} /\ WillHave(frame, Before, posted)
  /\ outcome = "reading" => WillHave(frame, State(readers, object), posted)
  /\ outcome = "called" => {o \in object : o.path[1] = 2} = posted

RInv == posted # {} => OnItsWay

LEMMA RInvForwarded == RInv => ForwardedUnchanged
  BY DEF RInv, OnItsWay, ForwardedUnchanged

(* A turn of the loop takes the token that the run takes.                  *)
LEMMA TurnTakes ==
  ASSUME FInv, RInv, posted # {}, outcome = "reading", frame # <<>>
  PROVE  \E y : /\ Takes(State(readers, object), Head(frame), y)
                /\ WillHave(Tail(frame), y, posted)
<1>1. PICK S : frame \in Seq(S)
  BY DEF FInv, Framed
<1>2. PICK z : /\ Runs(frame, State(readers, object), z) /\ z.readers = <<>>
               /\ {o \in z.object : o.path[1] = 2} = posted
  BY DEF RInv, OnItsWay, WillHave
<1>3. PICK y : /\ Takes(State(readers, object), Head(frame), y)
               /\ Runs(Tail(frame), y, z)
  BY <1>1, <1>2, RunsTail
<1>4. WillHave(Tail(frame), y, posted)
  BY <1>2, <1>3 DEF WillHave
<1> QED  BY <1>3, <1>4

LEMMA TurnStep ==
  ASSUME FInv, FInv', RInv, posted # {}, outcome = "reading",
         ReadField \/ ReadStruct \/ SkipField \/ StructEnds \/ StructThrows
  PROVE  RInv'
<1> DEFINE x == State(readers, object)
           token == Head(frame)
           r == Inner
<1>1. /\ frame # <<>> /\ frame' = Tail(frame) /\ at' = at /\ method' = method
      /\ posted' = posted
  BY DEF ReadField, ReadStruct, SkipField, StructEnds, StructThrows, Turn
<1>2. PICK y : Takes(x, token, y) /\ WillHave(Tail(frame), y, posted)
  BY <1>1, TurnTakes
<1>3. /\ x.readers = readers /\ x.object = object /\ Last(x.readers) = r
  BY DEF State, Inner
<1>4. at = "client" /\ method = "on_subscribeShip" /\ depth = 0
  BY DEF RInv, OnItsWay
<1>5. ASSUME depth' = depth, outcome' = "reading", y = State(readers', object')
      PROVE  RInv'
  BY <1>1, <1>2, <1>4, <1>5 DEF RInv, OnItsWay
<1>6. CASE ReadField
  <2>1. /\ token.kind = "field" /\ token.id \in DOMAIN Fields(r.struct)
        /\ token.type = Fields(r.struct)[token.id].type /\ token.type # "struct"
        /\ object' = {o \in object : o.path # Append(r.path, token.id)}
             \cup {[path |-> Append(r.path, token.id), val |-> token.val]}
        /\ readers' = Seen(readers, token.id)
        /\ depth' = depth /\ outcome' = "reading"
    BY <1>6 DEF ReadField, Turn, IsKnown, Path
  <2> HIDE DEF x, token, r
  <2>2. TakesLeaf(x, token, y)
    BY <1>2, <1>3, <2>1 DEF Takes, TakesOpen, TakesStop
  <2>3. y = State(readers', object')
    BY <1>3, <2>1, <2>2 DEF TakesLeaf, Stored
  <2> QED  BY <1>5, <2>1, <2>3
<1>7. CASE ReadStruct
  <2>1. /\ token.kind = "field" /\ token.id \in DOMAIN Fields(r.struct)
        /\ token.type = Fields(r.struct)[token.id].type /\ token.type = "struct"
        /\ readers' = Append(readers,
             Reader(Fields(r.struct)[token.id].of, Append(r.path, token.id)))
        /\ object' = object /\ depth' = depth /\ outcome' = "reading"
    BY <1>7 DEF ReadStruct, Turn, IsKnown, Path
  <2> HIDE DEF x, token, r
  <2>2. TakesOpen(x, token, y)
    BY <1>2, <1>3, <2>1 DEF Takes, TakesLeaf, TakesStop
  <2>3. y = State(readers', object')
    BY <1>3, <2>1, <2>2 DEF TakesOpen
  <2> QED  BY <1>5, <2>1, <2>3
<1>8. ~SkipField
  <2>1. SUFFICES ASSUME SkipField PROVE FALSE
    OBVIOUS
  <2>2. token.kind = "field"
        /\ ~ (/\ token.id \in DOMAIN Fields(r.struct)
              /\ token.type = Fields(r.struct)[token.id].type)
    BY <2>1 DEF SkipField, Turn, IsKnown
  <2> HIDE DEF x, token, r
  <2> QED  BY <1>2, <1>3, <2>2 DEF Takes, TakesLeaf, TakesOpen, TakesStop
<1>9. ~StructThrows
  <2>1. SUFFICES ASSUME StructThrows PROVE FALSE
    OBVIOUS
  <2>2. token.kind = "stop" /\ ~ (RequiredIds(r.struct) \subseteq r.seen)
    BY <2>1 DEF StructThrows, Turn
  <2> HIDE DEF x, token, r
  <2> QED  BY <1>2, <1>3, <2>2 DEF Takes, TakesLeaf, TakesOpen, TakesStop
<1>10. CASE StructEnds
  <2>1. token.kind = "stop" /\ object' = object /\ depth' = depth
    BY <1>10 DEF StructEnds, Turn
  <2> HIDE DEF x, token, r
  <2>2. TakesStop(x, token, y)
    BY <1>2, <1>3, <2>1 DEF Takes, TakesLeaf, TakesOpen
  <2>3. y = State(IF Len(readers) = 1 THEN <<>>
                    ELSE Seen(Front(readers), Last(r.path)), object)
    BY <1>3, <2>2 DEF TakesStop
  <2>4. CASE Len(readers) = 1
    <3>1. outcome' = "called"
      BY <1>10, <2>4 DEF StructEnds
    <3>2. frame' = <<>>
      BY <3>1 DEF FInv, FrameConsumed
    <3>3. PICK z : /\ Runs(<<>>, y, z)
                   /\ {o \in z.object : o.path[1] = 2} = posted
      BY <1>1, <1>2, <3>2 DEF WillHave
    <3>4. y = z
      BY <3>3, RunsNone
    <3>5. y.object = object
      BY <2>3 DEF State
    <3>6. {o \in object' : o.path[1] = 2} = posted'
      BY <1>1, <2>1, <3>3, <3>4, <3>5
    <3> QED  BY <1>1, <1>4, <2>1, <3>1, <3>6 DEF RInv, OnItsWay
  <2>5. CASE Len(readers) # 1
    <3>1. outcome' = "reading" /\ readers' = Seen(Front(readers), Last(r.path))
      BY <1>10, <2>5 DEF StructEnds, r
    <3>2. y = State(readers', object')
      BY <2>1, <2>3, <2>5, <3>1
    <3> QED  BY <1>5, <2>1, <3>1, <3>2
  <2> QED  BY <2>4, <2>5
<1> QED  BY <1>6, <1>7, <1>8, <1>9, <1>10

(* It starts when the server passes the ship on.                           *)
LEMMA ForwardRun ==
  ASSUME UInv, FInv, TInv, GInv, Forward
  PROVE  RInv'
<1>1. /\ outcome = "called" /\ method = "postShip"
      /\ at' = "client" /\ method' = "on_subscribeShip" /\ depth' = depth
      /\ outcome' = "arrived" /\ object' = {} /\ frame' = ForwardFrame
      /\ posted' = {o \in object : o.path[1] = 2}
  BY DEF Forward, ForwardFrame
<1>2. depth = 0 /\ method \in ShipMethods
  BY <1>1 DEF FInv, ShipMethods
<1>3. ShipFits
  BY <1>1, <1>2, ShipIsFit
<1> DEFINE y == After
           ship == {o \in object : o.path[1] = 2}
<1>4. /\ Runs(ForwardFrame, Before, y) /\ y.readers = <<>>
      /\ {o \in y.object : o.path[1] = 2} = ship
  BY <1>3, ForwardRuns DEF After, State
<1> HIDE DEF y, ship
<1>5. WillHave(ForwardFrame, Before, ship)
  BY <1>4 DEF WillHave
<1>6. WillHave(frame', Before, posted')
  BY <1>1, <1>5 DEF ship
<1> QED  BY <1>1, <1>2, <1>6 DEF RInv, OnItsWay

LEMMA NextRInv ==
  UInv /\ FInv /\ FInv' /\ TInv /\ GInv /\ RInv
    /\ [Next]_<<vars, senderVars, wire, calls, taken>> => RInv'
<1> SUFFICES ASSUME UInv, FInv, FInv', TInv, GInv, RInv,
                    [Next]_<<vars, senderVars, wire, calls, taken>>
             PROVE  RInv'
  OBVIOUS
<1>1. ASSUME UNCHANGED vars PROVE RInv'
  BY <1>1 DEF vars, RInv, OnItsWay
<1>2. ASSUME posted' = {} PROVE RInv'
  BY <1>2 DEF RInv
<1>3. ASSUME NEW t \in Threads,
             SendStarts(t) \/ WriteArgs(t) \/ Flush(t) \/ Commit(t)
      PROVE  RInv'
  BY <1>1, <1>3 DEF SendStarts, Starts, WriteArgs, Flush, Commit
<1>4. ASSUME Deliver PROVE RInv'
  BY <1>2, <1>4 DEF Deliver, Receive
<1>5. ASSUME Process PROVE RInv'
  <2>1. CASE Forward
    BY <2>1, ForwardRun
  <2>2. CASE posted = {} /\ ~Forward
    <3>1. posted' = posted
      BY <1>5, <2>2 DEF Process, DispatchKnown, DispatchUnknown, UnknownSkipped,
         ReadField, ReadStruct, SkipField, Skip, StructEnds, StructThrows
    <3> QED  BY <1>2, <2>2, <3>1
  <2>3. CASE posted # {} /\ ~Forward
    <3>1. /\ at = "client" /\ method = "on_subscribeShip" /\ depth = 0
          /\ outcome \in {"arrived", "reading", "called"}
      BY <2>3 DEF RInv, OnItsWay
    <3>2. CASE DispatchKnown
      <4>1. /\ outcome = "arrived" /\ outcome' = "reading" /\ object' = object
            /\ readers' = <<Reader(method, <<>>)>>
            /\ frame' = frame /\ at' = at /\ method' = method
            /\ depth' = depth /\ posted' = posted
        BY <3>2 DEF DispatchKnown
      <4>2. object = {} /\ WillHave(frame, Before, posted)
        BY <2>3, <4>1 DEF RInv, OnItsWay
      <4>3. State(readers', object') = Before
        BY <3>1, <4>1, <4>2 DEF Before
      <4> QED  BY <3>1, <4>1, <4>2, <4>3 DEF RInv, OnItsWay
    <3>3. ~DispatchUnknown
      <4>1. method \in ProcessMap[at]
        BY <3>1 DEF ProcessMap, ClientArgs
      <4> QED  BY <4>1 DEF DispatchUnknown
    <3>4. ~UnknownSkipped /\ ~Skip
      BY <3>1 DEF UnknownSkipped, Skip
    <3>5. CASE ReadField \/ ReadStruct \/ SkipField \/ StructEnds \/ StructThrows
      <4>1. outcome = "reading"
        BY <3>5 DEF ReadField, ReadStruct, SkipField, StructEnds, StructThrows, Turn
      <4> QED  BY <2>3, <3>5, <4>1, TurnStep
    <3> QED  BY <1>5, <2>3, <3>2, <3>3, <3>4, <3>5 DEF Process
  <2> QED  BY <2>1, <2>2, <2>3
<1> QED  BY <1>1, <1>3, <1>4, <1>5 DEF Next

LEMMA InitGRInv == CInit => GInv /\ RInv
  BY DEF CInit, Init, GInv, RInv, OneValue, ShipFlags, LocationFlag, Got

(* What one client posts another one receives: every field that was read,  *)
(* with its value, and no other, whichever optional fields there are; and  *)
(* the frame in which the server passes a ship on never makes read() throw.*)
THEOREM ForwardedUnchangedCorrect == Spec => []ForwardedUnchanged
<1> DEFINE Inv == SInv /\ UInv /\ FInv /\ TInv /\ GInv /\ RInv
<1>1. CInit => Inv
  BY InitSInv, InitUInv, InitFInv, InitTInv, InitGRInv
<1>2. Inv /\ [Next]_<<vars, senderVars, wire, calls, taken>> => Inv'
  <2> SUFFICES ASSUME Inv, [Next]_<<vars, senderVars, wire, calls, taken>>
               PROVE  Inv'
    OBVIOUS
  <2>1. SInv' /\ UInv' /\ FInv' /\ TInv'
    BY NextSInv, NextUInv, NextFInv, NextTInv
  <2>2. GInv' /\ RInv'
    BY <2>1, NextGInv, NextRInv
  <2> QED  BY <2>1, <2>2
<1>3. Inv => ForwardedUnchanged
  BY RInvForwarded
<1> HIDE DEF Inv
<1> QED  BY <1>1, <1>2, <1>3, PTL DEF Spec
=============================================================================
