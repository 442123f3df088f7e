---------------------------- MODULE MCTalkSystem ----------------------------
(***************************************************************************)
(* An instance of TalkSystem for TLC.                                      *)
(***************************************************************************)
EXTENDS TalkSystem

CONSTANTS p1, p2, ann

SetUserName == [call : {"setUserName"}, name : Names]
=============================================================================
