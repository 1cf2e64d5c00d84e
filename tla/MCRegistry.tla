----------------------------- MODULE MCRegistry -----------------------------
(* Small processes: two Apps that share a TCP server, as net.InitServer    *)
(* hands it out; two Apps that share the websocket server; and two whose   *)
(* failures fill both error channels: three services in one of them, and a *)
(* post task alone in the other.                                           *)
EXTENDS Registry

SharedTcp  == [services |-> <<<<"rpc", "tcp">>, <<"tcp">>>>, posts |-> <<1, 0>>]
SharedHttp == [services |-> <<<<"http">>, <<"http">>>>, posts |-> <<0, 0>>]
ManyFail   == [services |-> <<<<"rpc", "rpc2", "http">>>>, posts |-> <<1>>]

ThreeProcesses == {SharedTcp, SharedHttp, ManyFail}

Kinds == [s \in {"rpc", "rpc2", "tcp", "http"} |->
            IF s \in {"tcp", "http"} THEN s ELSE "rpc"]

AllMayFail == Failures

(* One App with an rpcx and a TCP server, in which nothing fails of itself. *)
OneTcp == {[services |-> <<<<"rpc", "tcp">>>>, posts |-> <<0>>]}

NoneFails == {}
=============================================================================
