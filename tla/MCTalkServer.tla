---------------------------- MODULE MCTalkServer ----------------------------
(***************************************************************************)
(* Instances of TalkServer for TLC: which calls the peers make in a run.   *)
(***************************************************************************)
EXTENDS TalkServerProps

CONSTANTS c1, c2, c3, ann, topic

(* Posts, one name to compete for, and calls that are answered directly.   *)
Chat ==
  {[call |-> "postShip", channel |-> topic],
   [call |-> "setUserName", name |-> ann],
   [call |-> "unsubscribe", topic |-> topic]}

(* Every call but unsubscribe; the empty name is asked for as well.        *)
Mixed ==
  {[call |-> "getVersion"],
   [call |-> "postShip", channel |-> topic],
   [call |-> "subscribe", topic |-> topic]} \cup
  [call : {"setUserName"}, name : {ann, NoName}]

PostOnly == {[call |-> "postShip", channel |-> topic]}

ConnsSymmetry == Permutations(Conns)
=============================================================================
