-------------------------- MODULE WriteQueueProofs --------------------------
(***************************************************************************)
(* What the operators of WriteQueue preserve and return.                   *)
(***************************************************************************)
EXTENDS WriteQueue, SequenceTheorems, TLAPS

(* The list of a new transport, or of one that was closed.                 *)
LEMMA EmptyQueueProperties ==
  ASSUME NEW M
  PROVE  /\ EmptyQueue \in Queues(M)
         /\ ListSize(EmptyQueue) = 0
BY EmptySeq DEF EmptyQueue, Queues, ListSize

(* The size of the list is 0 only when it holds no message, and 1 exactly  *)
(* when all it holds is in its first string.                               *)
LEMMA ListSizeProperties ==
  ASSUME NEW M, NEW q \in Queues(M)
  PROVE  /\ ListSize(q) \in Nat
         /\ ListSize(q) = 0 <=> q.msgs = <<>>
         /\ ListSize(q) = 1 <=> q.msgs # <<>> /\ q.front = Len(q.msgs)
<1>1. Len(q.msgs) \in Nat /\ q.front \in Nat /\ q.front <= Len(q.msgs)
  BY LenProperties DEF Queues
<1> QED  BY <1>1 DEF ListSize

(* push_back appends one message, outside the first string unless the list *)
(* was empty.                                                              *)
LEMMA PushBackProperties ==
  ASSUME NEW M, NEW q \in Queues(M), NEW m \in M
  PROVE  /\ PushBack(q, m) \in Queues(M)
         /\ PushBack(q, m).msgs = Append(q.msgs, m)
         /\ PushBack(q, m).msgs # <<>>
         /\ ListSize(PushBack(q, m)) = 1 <=> q.msgs = <<>>
<1>1. /\ q.msgs \in Seq(M) /\ q.front \in Nat /\ q.front <= Len(q.msgs)
      /\ Len(q.msgs) \in Nat /\ (q.front = 0 <=> q.msgs = <<>>)
      /\ q.msgs = <<>> <=> Len(q.msgs) = 0
  BY LenProperties, EmptySeq DEF Queues
<1>2. /\ Append(q.msgs, m) \in Seq(M)
      /\ Append(q.msgs, m) # <<>>
      /\ Len(Append(q.msgs, m)) = Len(q.msgs) + 1
  BY <1>1, AppendProperties
<1> QED  BY <1>1, <1>2 DEF PushBack, Queues, ListSize

(* Consolidating keeps the messages and their order.                       *)
LEMMA ConsolidateProperties ==
  ASSUME NEW M, NEW q \in Queues(M)
  PROVE  /\ Consolidate(q) \in Queues(M)
         /\ Consolidate(q).msgs = q.msgs
<1>1. /\ q \in [msgs : Seq(M), front : Nat]
      /\ Len(q.msgs) \in Nat /\ (q.msgs = <<>> <=> Len(q.msgs) = 0)
  BY LenProperties, EmptySeq DEF Queues
<1> QED  BY <1>1 DEF Consolidate, Queues

(* The list is its first string followed by the rest.                      *)
LEMMA FrontAndRest ==
  ASSUME NEW M, NEW q \in Queues(M)
  PROVE  /\ FrontString(q) \in Seq(M)
         /\ Rest(q) \in Seq(M)
         /\ FrontString(q) \o Rest(q) = q.msgs
<1>1. /\ q.msgs \in Seq(M) /\ Len(q.msgs) \in Nat
      /\ q.front \in 0 .. Len(q.msgs)
  BY LenProperties DEF Queues
<1>2. \A i \in 1 .. Len(q.msgs) : q.msgs[i] \in M
  BY <1>1, ElementOfSeq
<1>3. FrontString(q) \in Seq(M)
  BY <1>1, <1>2, SubSeqProperties DEF FrontString
<1>4. Rest(q) \in Seq(M)
  BY <1>1, <1>2, SubSeqProperties DEF Rest
<1>5. FrontString(q) \o Rest(q) = SubSeq(q.msgs, 1, Len(q.msgs))
  <2> DEFINE s == q.msgs
             k == q.front
  <2>1. s \in Seq(M) /\ Len(s) \in Nat /\ k \in 0 .. Len(s)
    BY <1>1
  <2> HIDE DEF s, k
  <2>2. /\ 1 \in 1 .. Len(s) + 1
        /\ k \in 1 - 1 .. Len(s)
        /\ Len(s) \in k .. Len(s)
    BY <2>1
  <2>3. SubSeq(s, 1, k) \o SubSeq(s, k + 1, Len(s)) = SubSeq(s, 1, Len(s))
    BY <2>1, <2>2, ConcatAdjacentSubSeq
  <2> QED  BY <2>3 DEF FrontString, Rest, s, k
<1> QED  BY <1>1, <1>3, <1>4, <1>5, SubSeqFull

(* pop_front leaves the rest, as a list whose first string is one message. *)
LEMMA PopFrontProperties ==
  ASSUME NEW M, NEW q \in Queues(M)
  PROVE  /\ PopFront(q) \in Queues(M)
         /\ PopFront(q).msgs = Rest(q)
<1>1. Rest(q) \in Seq(M) /\ Len(Rest(q)) \in Nat
  BY FrontAndRest, LenProperties
<1>2. Rest(q) = <<>> <=> Len(Rest(q)) = 0
  BY <1>1, EmptySeq
<1> QED  BY <1>1, <1>2 DEF PopFront, Queues

(* The rest of the list, element by element.                               *)
LEMMA RestElements ==
  ASSUME NEW M, NEW q \in Queues(M)
  PROVE  /\ Rest(q) \in Seq(M)
         /\ Len(Rest(q)) = Len(q.msgs) - q.front
         /\ \A i \in 1 .. Len(q.msgs) - q.front :
              Rest(q)[i] = q.msgs[q.front + i]
<1> DEFINE s == q.msgs
           a == q.front + 1
           b == Len(q.msgs)
<1>1. /\ s \in Seq(M) /\ b \in Nat /\ b = Len(s)
      /\ a \in Int /\ a = q.front + 1 /\ q.front \in 0 .. b
  BY LenProperties DEF Queues
<1>2. Rest(q) = SubSeq(s, a, b)
  BY DEF Rest
<1> HIDE DEF s, a, b
<1>3. \A i \in a .. b : s[i] \in M
  BY <1>1, ElementOfSeq
<1>4. /\ SubSeq(s, a, b) \in Seq(M)
      /\ Len(SubSeq(s, a, b)) = IF a <= b THEN b - a + 1 ELSE 0
      /\ \A i \in 1 .. b - a + 1 : SubSeq(s, a, b)[i] = s[a + i - 1]
  <2>1. a \in Int /\ b \in Int
    BY <1>1
  <2>2. SubSeq(s, a, b) \in Seq(M)
    BY <2>1, <1>3, SubSeqProperties
  <2>3. Len(SubSeq(s, a, b)) = IF a <= b THEN b - a + 1 ELSE 0
    BY <2>1, <1>3, SubSeqProperties
  <2>4. \A i \in 1 .. b - a + 1 : SubSeq(s, a, b)[i] = s[a + i - 1]
    BY <2>1, <1>3, SubSeqProperties
  <2> QED  BY <2>2, <2>3, <2>4
<1>5. Len(Rest(q)) = b - q.front
  BY <1>1, <1>2, <1>4
<1>6. ASSUME NEW i \in 1 .. b - q.front
      PROVE  Rest(q)[i] = s[q.front + i]
  <2>1. i \in 1 .. b - a + 1 /\ a + i - 1 = q.front + i
    BY SMTT(30), <1>1
  <2> QED  BY <1>2, <1>4, <2>1
<1> QED  BY <1>2, <1>4, <1>5, <1>6 DEF s, b

(* What is pushed while the first string is under way goes to the rest.    *)
LEMMA RestOfPushBack ==
  ASSUME NEW M, NEW q \in Queues(M), NEW m \in M, q.msgs # <<>>
  PROVE  Rest(PushBack(q, m)) = Append(Rest(q), m)
<1> DEFINE n == Len(q.msgs)
           p == PushBack(q, m)
<1>1. /\ q.msgs \in Seq(M) /\ n \in Nat \ {0} /\ q.front \in 1 .. n
      /\ p.front = q.front /\ p.msgs = Append(q.msgs, m)
  BY LenProperties, EmptySeq DEF Queues, PushBack
<1>2. /\ p.msgs \in Seq(M) /\ Len(p.msgs) = n + 1
      /\ \A i \in 1 .. n : p.msgs[i] = q.msgs[i]
      /\ p.msgs[n + 1] = m
  BY <1>1, AppendProperties
<1>3. /\ Rest(q) \in Seq(M) /\ Len(Rest(q)) = n - q.front
      /\ \A i \in 1 .. n - q.front : Rest(q)[i] = q.msgs[q.front + i]
  BY <1>1, RestElements DEF Queues
<1>4. /\ Rest(p) \in Seq(M) /\ Len(Rest(p)) = n + 1 - q.front
      /\ \A i \in 1 .. n + 1 - q.front : Rest(p)[i] = p.msgs[q.front + i]
  <2>1. p \in Queues(M)
    BY PushBackProperties
  <2>2. /\ Rest(p) \in Seq(M)
        /\ Len(Rest(p)) = Len(p.msgs) - p.front
        /\ \A i \in 1 .. Len(p.msgs) - p.front :
             Rest(p)[i] = p.msgs[p.front + i]
    <3> HIDE DEF p
    <3> QED  BY <2>1, RestElements
  <2>3. Len(p.msgs) = n + 1 /\ p.front = q.front /\ n \in Nat /\ q.front \in Nat
    BY <1>1, <1>2
  <2> HIDE DEF p, n
  <2>4. Len(p.msgs) - p.front = n + 1 - q.front
    BY <2>3
  <2> QED  BY <2>2, <2>3, <2>4
<1>5. /\ Append(Rest(q), m) \in Seq(M)
      /\ Len(Append(Rest(q), m)) = n - q.front + 1
      /\ \A i \in 1 .. n - q.front : Append(Rest(q), m)[i] = Rest(q)[i]
      /\ Append(Rest(q), m)[n - q.front + 1] = m
  <2>1. Len(Rest(q)) \in Nat
    BY <1>3, LenProperties
  <2> QED  BY <1>3, <2>1, AppendProperties
<1>6. ASSUME NEW i \in 1 .. n + 1 - q.front
      PROVE  Rest(p)[i] = Append(Rest(q), m)[i]
  <2> USE <1>1
  <2> HIDE DEF n, p
  <2>1. CASE i \in 1 .. n - q.front
    <3>1. q.front + i \in 1 .. n
      BY <2>1
    <3>2. Rest(p)[i] = q.msgs[q.front + i]
      BY <1>2, <1>4, <3>1
    <3> QED  BY <1>3, <1>5, <2>1, <3>2
  <2>2. CASE i = n - q.front + 1
    <3>1. q.front + i = n + 1
      BY <2>2
    <3> QED  BY <1>2, <1>4, <1>5, <2>2, <3>1
  <2>3. i \in 1 .. n - q.front \/ i = n - q.front + 1
    OBVIOUS
  <2> QED  BY <2>1, <2>2, <2>3
<1>7. Len(Rest(p)) = Len(Append(Rest(q), m))
  BY <1>1, <1>4, <1>5
<1> HIDE DEF n, p
<1>8. \A i \in 1 .. Len(Rest(p)) : Rest(p)[i] = Append(Rest(q), m)[i]
  BY <1>4, <1>6
<1>9. Rest(p) = Append(Rest(q), m)
  BY <1>4, <1>5, <1>7, <1>8, SeqEqual
<1> QED  BY <1>9 DEF p
=============================================================================
