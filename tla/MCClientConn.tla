---------------------------- MODULE MCClientConn ----------------------------
(***************************************************************************)
(* Instances of ClientConn for TLC.                                        *)
(***************************************************************************)
EXTENDS ClientConn

CONSTANTS s1, s2    \* application goroutines

TwoSenders == {s1, s2}

ReplyErrorOrNil == {"reply", "error", "nil"}
=============================================================================
