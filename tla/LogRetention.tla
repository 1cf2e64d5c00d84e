---------------------------- MODULE LogRetention ----------------------------
(***************************************************************************)
(* What one pass of the log mill decides, DivisionLogger.millRunOnce in    *)
(* zlog/lumberjack.go: which of the backups it found are removed and which *)
(* are compressed.  The name of a backup is a pair of days, of which the   *)
(* first is that of all names of the listing; it may be there as it was    *)
(* written, compressed (.gz), or both.                                     *)
(***************************************************************************)
EXTENDS Naturals, Sequences, FiniteSets, FiniteSetsExt, SequencesExt

(* timeFromName: the date that follows the prefix is the backup's. *)
Date(f) == f.name[2]

(* The loops that append to a new slice the elements at the indices I. *)
Picking(s, I) ==
  LET upto[n \in 0..Len(s)] ==
        IF n = 0 THEN <<>> ELSE IF n \in I THEN Append(upto[n - 1], s[n]) ELSE upto[n - 1]
  IN upto

Picked(s, I) == Picking(s, I)[Len(s)]

(* The backups of a listing, newest first: byFormatTime.  Both forms of    *)
(* one backup have the same time, and sort.Sort leaves them in any order.  *)
Forms(prefix, latest, zipFirst) ==
  [i \in 1..(2 * latest) |->
     LET d == latest - (i - 1) \div 2
     IN [name |-> <<prefix, d>>, gz |-> (i % 2 = 1) <=> d \in zipFirst]]

NewestFirst(files, prefix) ==
  LET days == {Date(f) : f \in files}
      All(zipFirst) == Forms(prefix, Max(days), zipFirst)
  IN IF files = {} THEN {<<>>}
     ELSE {Picked(All(zipFirst), {i \in 1..(2 * Max(days)) : All(zipFirst)[i] \in files}) :
             zipFirst \in SUBSET days}

(* Slip: both forms of a backup count. *)
PastFiles(files, maxBackups) ==
  IF maxBackups > 0 /\ maxBackups < Len(files)
  THEN {i \in 1..Len(files) : Cardinality({files[j] : j \in 1..i}) > maxBackups}
  ELSE {}

(* The loop over the backups that counts the distinct ones: those past the *)
(* first maxBackups are to be removed, the others remain.                  *)
Past(files, maxBackups) ==
  IF maxBackups > 0 /\ maxBackups < Len(files)
  THEN {i \in 1..Len(files) : Cardinality({files[j].name : j \in 1..i}) > maxBackups}
  ELSE {}

(* A day's log is named after its midnight, so it is MaxAge days old from  *)
(* the first moment of the day maxAge days later on.                       *)
TooOld(f, today, maxAge) == maxAge > 0 /\ Date(f) + maxAge <= today

(* The work of the pass, in order. *)
Plan(files, today, maxBackups, maxAge, compress) ==
  LET past == Past(files, maxBackups)
      aged == {i \in 1..Len(files) \ past : TooOld(files[i], today, maxAge)}
      kept == 1..Len(files) \ (past \cup aged)
  IN [remove   |-> Picked(files, past) \o Picked(files, aged),
      compress |-> Picked(files, {i \in kept : compress /\ ~files[i].gz})]
=============================================================================
