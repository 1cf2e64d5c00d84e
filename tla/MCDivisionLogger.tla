-------------------------- MODULE MCDivisionLogger --------------------------
(* A directory with the log of the day before, and with backups that match *)
(* the name of each day the process lives through.                         *)
EXTENDS DivisionLogger

OldDirectory == {<<2>>, <<3, 1>>, <<4, 1>>, <<4, 2>>, <<4, 3>>}
OldLogs      == {<<1>>, <<2>>}
=============================================================================
