------------------------------ MODULE MCTopic -------------------------------
(* Two consumers: one takes one of the keys, the other one both.            *)
EXTENDS Topic

TwoKeys  == {"chat", "login"}
Bindings == <<{"chat"}, {"chat", "login"}>>
=============================================================================
