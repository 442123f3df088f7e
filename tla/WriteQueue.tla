----------------------------- MODULE WriteQueue -----------------------------
(***************************************************************************)
(* The list outbound_messages_ of thrift_asio_transport                    *)
(* (source/include/thrift_asio_transport.hpp).                             *)
(*                                                                         *)
(* write() appends one string to the list.  async_write_one() replaces the *)
(* whole list by a single string, the concatenation of all of them, and    *)
(* gives that string to one async_write.  The completion handler removes   *)
(* the first string.                                                       *)
(*                                                                         *)
(* At the granularity of whole messages the list is therefore the sequence *)
(* msgs of the messages it holds, of which the first `front' make up its   *)
(* first string and every later one is a string of its own.                *)
(***************************************************************************)
EXTENDS Integers, Sequences

(* front is 0 exactly in the empty list.                                   *)
Queues(M) == {q \in [msgs : Seq(M), front : Nat] :
                /\ q.front <= Len(q.msgs)
                /\ q.front = 0 <=> q.msgs = <<>>}

EmptyQueue == [msgs |-> <<>>, front |-> 0]

(* outbound_messages_.size(): the first string counts once.                *)
ListSize(q) == IF q.msgs = <<>> THEN 0 ELSE 1 + Len(q.msgs) - q.front

(* Seeded fault for PushBack: push_front.                                  *)
PushFront(q, m) ==
  [msgs  |-> <<m>> \o q.msgs,
   front |-> IF q.msgs = <<>> THEN 1 ELSE q.front]

(* outbound_messages_.push_back({buf, buf+len}).                           *)
PushBack(q, m) ==
  [msgs  |-> Append(q.msgs, m),
   front |-> IF q.msgs = <<>> THEN 1 ELSE q.front]

(* Seeded fault for Consolidate: msg = x + msg, the newest string first.   *)
ConsolidateReversed(q) ==
  [msgs  |-> [i \in 1 .. Len(q.msgs) |-> q.msgs[Len(q.msgs) + 1 - i]],
   front |-> Len(q.msgs)]

(* outbound_messages_ = {msg}, msg being all the strings concatenated.     *)
Consolidate(q) == [q EXCEPT !.front = Len(q.msgs)]

(* outbound_messages_.front(): the messages in the first string.           *)
FrontString(q) == SubSeq(q.msgs, 1, q.front)

(* What follows the first string.                                          *)
Rest(q) == SubSeq(q.msgs, q.front + 1, Len(q.msgs))

(* Seeded faults for PopFront: clear(), and a count that is one too small. *)
PopAll(q) == EmptyQueue

PopFrontMiscounted(q) == [msgs |-> Rest(q), front |-> Len(Rest(q)) - 1]

(* outbound_messages_.pop_front() on a list that is not empty.             *)
PopFront(q) ==
  [msgs  |-> Rest(q),
   front |-> IF Rest(q) = <<>> THEN 0 ELSE 1]
=============================================================================
