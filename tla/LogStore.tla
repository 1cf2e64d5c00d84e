------------------------------ MODULE LogStore ------------------------------
(***************************************************************************)
(* What the log directory promises to those who log through                *)
(* DivisionLogger (zlog/lumberjack.go) and to those who read the logs      *)
(* later: an acknowledged line stays, unless today's log is truncated      *)
(* today, and a backup stays, whole, until retention lets it go.           *)
(***************************************************************************)
EXTENDS Naturals, FiniteSets

CONSTANTS
  MaxBackups, MaxAge,   \* retention: how many backups stay, and how many days; 0 for all
  Backups               \* the backups there are: a series, and a day in it

VARIABLES
  day,                  \* today
  count,                \* how many lines were acknowledged
  kept,                 \* the lines in the directory, each with its day
  backups               \* the backups that are there in full

vars == <<day, count, kept, backups>>

Init == day \in Nat /\ count = 0 /\ kept = {} /\ backups = Backups

(* Only lines of today can be lost, when the log of today is opened as a   *)
(* new one: for a line, or by Rotate.                                      *)
OnlyTodays(lost) == \A l \in lost : l.day = day

Acknowledge ==
  /\ count' = count + 1
  /\ LET line == [n |-> count', day |-> day]
     IN line \in kept' /\ kept' \subseteq kept \cup {line}
  /\ OnlyTodays(kept \ kept')
  /\ UNCHANGED <<day, backups>>

Truncate ==
  /\ kept' \subseteq kept
  /\ OnlyTodays(kept \ kept')
  /\ UNCHANGED <<day, count, backups>>

(* A backup goes when it is too old, or when its series has MaxBackups     *)
(* newer ones.                                                             *)
MayGo(b) ==
  \/ MaxAge > 0 /\ b.day + MaxAge <= day
  \/ MaxBackups > 0
       /\ Cardinality({c \in Backups : c.series = b.series /\ c.day > b.day}) >= MaxBackups

Drop(b) ==
  /\ b \in backups /\ MayGo(b)
  /\ backups' = backups \ {b}
  /\ UNCHANGED <<day, count, kept>>

Midnight == day' = day + 1 /\ UNCHANGED <<count, kept, backups>>

Next == Acknowledge \/ Truncate \/ Midnight \/ \E b \in backups : Drop(b)

Spec == Init /\ [][Next]_vars
=============================================================================
