---------------------------- MODULE MCClientConnWs ----------------------------
(***************************************************************************)
(* Instances of ClientConnWs for TLC.                                      *)
(***************************************************************************)
EXTENDS ClientConnWs

CONSTANTS s1, s2    \* application goroutines

TwoSenders == {s1, s2}

AnyResult  == {"reply", "undecodable", "error", "nil"}
=============================================================================
