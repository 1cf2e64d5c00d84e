------------------------------ MODULE MCBucket ------------------------------
(* A directory with and without its slash, and a file in it. *)
EXTENDS Objects

Slashed   == {<<"a">>, <<"a", "/">>}
FileNames1 == {<<"x">>}
=============================================================================
