--------------------------- MODULE DivisionLogger ---------------------------
(***************************************************************************)
(* zlog/lumberjack.go: one DivisionLogger and its directory.  Write, Close *)
(* and Rotate run under the logger's mutex; the goroutine millRun, which   *)
(* they wake, takes no lock, and the two meet in the file system.  The     *)
(* day changes at any moment, and the process may be killed and restarted. *)
(*                                                                         *)
(* A file name is the sequence of the days in it.  The log of day d is     *)
(* <<d>>, for Filename is always given a date.  oldLogFiles looks for      *)
(* today's name with one more date: only <<today, d>> matches, a name      *)
(* this logger never writes.  Any name may also be there with .gz.         *)
(***************************************************************************)
EXTENDS LogRetention

CONSTANTS
  MaxBackups, MaxAge, Compress,   \* the logger's fields
  FirstDay, LastDay,              \* bound: the days the process lives through
  Existing,                       \* names in the directory when it first starts
  MaxWrites,                      \* bound: lines acknowledged
  MaxRestarts,                    \* bound: kills and restarts
  MaxFailures                     \* bound: failing calls of the mill to the file system

Days  == 1..LastDay
Logs  == {<<d>> : d \in Days}
Names == Logs \cup (Days \X Days)

ASSUME LoggerAssumption ==
  /\ MaxBackups \in Nat /\ MaxAge \in Nat /\ Compress \in BOOLEAN
  /\ FirstDay \in Nat \ {0} /\ LastDay \in Nat /\ FirstDay <= LastDay
  /\ Existing \subseteq Names
  /\ {MaxWrites, MaxRestarts, MaxFailures} \subseteq Nat

VARIABLES
  day,              \* currentTime
  restarts, failures, \* bounds: how often the process was killed, the mill failed
  present, zipped,  \* names there as written; names there as .gz: "none", "partial", "whole"
  lines,            \* the lines of the files, by name
  file,             \* l.file: 0, or the day in the name of the open file
  acked,            \* history: the lines Write acknowledged, each with its day
  millCh,           \* l.millCh holds a wake-up
  mill,             \* where millRun is; "off" before startMill
  prefix,           \* the day in the names it listed last
  found,            \* what oldLogFiles returned
  todo, work        \* removals, then compressions, still to do

disk    == <<present, zipped, lines>>
milling == <<mill, prefix, found, todo, work>>
vars    == <<day, restarts, failures, disk, file, acked, millCh, milling>>

Init ==
  /\ day = FirstDay /\ restarts = 0 /\ failures = 0
  /\ present = Existing /\ zipped = [n \in Names |-> "none"] /\ lines = [n \in Names |-> {}]
  /\ file = 0 /\ acked = {}
  /\ millCh = FALSE /\ mill = "off" /\ prefix = 0 /\ found = {}
  /\ todo = <<>> /\ work = <<>>

-----------------------------------------------------------------------------
(* Write, Close, Rotate.                                                   *)

(* mill(): starts the goroutine the first time; a wake-up that finds       *)
(* another one in the channel is dropped.                                  *)
Wake ==
  /\ millCh' = TRUE
  /\ mill' = IF mill = "off" THEN "recv" ELSE mill
  /\ UNCHANGED <<prefix, found, todo, work>>

Line == [n |-> Cardinality(acked) + 1, day |-> day]

Acknowledge(n, before) ==
  /\ Cardinality(acked) < MaxWrites
  /\ acked' = acked \cup {Line}
  /\ lines' = [lines EXCEPT ![n] = before \cup {Line}]
  /\ UNCHANGED <<day, restarts, failures, zipped>>

(* The file is open, whatever day it is of: nothing rotates it. *)
Write ==
  /\ file # 0
  /\ Acknowledge(<<file>>, lines[<<file>>])
  /\ UNCHANGED <<present, file, millCh, milling>>

(* openExistingOrNew, then the write: today's log is appended to ... *)
WriteReopens ==
  /\ file = 0 /\ <<day>> \in present
  /\ Acknowledge(<<day>>, lines[<<day>>])
  /\ file' = day /\ Wake
  /\ UNCHANGED present

(* ... or created ... *)
WriteCreates ==
  /\ file = 0 /\ <<day>> \notin present
  /\ Acknowledge(<<day>>, {})
  /\ present' = present \cup {<<day>>}
  /\ file' = day /\ Wake

(* ... or, if it cannot be opened for appending, opened as a new one,      *)
(* which truncates it ...                                                  *)
WriteTruncates ==
  /\ file = 0 /\ <<day>> \in present
  /\ Acknowledge(<<day>>, {})
  /\ file' = day /\ Wake
  /\ UNCHANGED present

(* ... or not opened at all, and Write returns the error. *)
WriteFails ==
  /\ file = 0
  /\ Wake
  /\ UNCHANGED <<day, restarts, failures, disk, file, acked>>

Close ==
  /\ file # 0
  /\ file' = 0
  /\ UNCHANGED <<day, restarts, failures, disk, acked, millCh, milling>>

(* close, openNew, mill: today's log is created, or truncated. *)
Rotate ==
  /\ present' = present \cup {<<day>>}
  /\ lines' = [lines EXCEPT ![<<day>>] = {}]
  /\ file' = day /\ Wake
  /\ UNCHANGED <<day, restarts, failures, zipped, acked>>

RotateFails ==
  /\ file' = 0
  /\ UNCHANGED <<day, restarts, failures, disk, acked, millCh, milling>>

-----------------------------------------------------------------------------
(* millRun.                                                                *)

Others == UNCHANGED <<day, restarts, file, acked>>
Millwork == Others /\ UNCHANGED failures

Failing == failures < MaxFailures /\ failures' = failures + 1 /\ Others

MillReceive ==
  /\ mill = "recv" /\ millCh
  /\ millCh' = FALSE
  /\ mill' = IF MaxBackups = 0 /\ MaxAge = 0 /\ ~Compress THEN "recv" ELSE "list"
  /\ Millwork /\ UNCHANGED <<disk, prefix, found, todo, work>>

Listed(names) ==
  [name : names \cap present, gz : {FALSE}]
    \cup [name : {n \in names : zipped[n] # "none"}, gz : {TRUE}]

OldLogFiles == Listed({day} \X Days)

MillList ==
  /\ mill = "list"
  /\ prefix' = day /\ found' = OldLogFiles
  /\ mill' = "plan"
  /\ Millwork /\ UNCHANGED <<disk, millCh, todo, work>>

MillListFails ==
  /\ Failing /\ mill = "list"
  /\ mill' = "recv"
  /\ UNCHANGED <<disk, millCh, prefix, found, todo, work>>

(* Another look at the clock, for MaxAge. *)
MillPlan ==
  /\ mill = "plan"
  /\ \E files \in NewestFirst(found, prefix) :
       LET plan == Plan(files, day, MaxBackups, MaxAge, Compress)
       IN /\ todo' = plan.remove
          /\ work' = [i \in 1..Len(plan.compress) |-> plan.compress[i].name]
  /\ found' = {} /\ mill' = "work"
  /\ Millwork /\ UNCHANGED <<disk, millCh, prefix>>

MillRemove ==
  /\ mill = "work" /\ todo # <<>>
  /\ LET f == Head(todo)
     IN IF f.gz THEN zipped' = [zipped EXCEPT ![f.name] = "none"] /\ UNCHANGED present
                ELSE present' = present \ {f.name} /\ UNCHANGED zipped
  /\ todo' = Tail(todo)
  /\ Millwork /\ UNCHANGED <<lines, millCh, mill, prefix, found, work>>

MillRemoveFails ==
  /\ Failing /\ mill = "work" /\ todo # <<>>
  /\ todo' = Tail(todo)
  /\ UNCHANGED <<disk, millCh, mill, prefix, found, work>>

(* compressLogFile: chown creates or truncates the destination, which is   *)
(* opened and truncated again ...                                          *)
Zips(n, form) == zipped' = [zipped EXCEPT ![n] = form]

(* Slip: the source is removed before it is copied. *)
CompressUnlinksFirst ==
  /\ mill = "work" /\ todo = <<>> /\ work # <<>>
  /\ Zips(Head(work), "partial")
  /\ present' = present \ {Head(work)}
  /\ mill' = "copy"
  /\ Millwork /\ UNCHANGED <<lines, millCh, prefix, found, todo, work>>

CompressBegin ==
  /\ mill = "work" /\ todo = <<>> /\ work # <<>>
  /\ Zips(Head(work), "partial")
  /\ mill' = "copy"
  /\ Millwork /\ UNCHANGED <<present, lines, millCh, prefix, found, todo, work>>

(* ... an error up to here leaves the destination as it is; the next file  *)
(* is taken up ...                                                         *)
CompressGivesUp ==
  /\ Failing /\ mill = "work" /\ todo = <<>> /\ work # <<>>
  /\ zipped' \in {zipped, [zipped EXCEPT ![Head(work)] = "partial"]}
  /\ work' = Tail(work)
  /\ UNCHANGED <<present, lines, millCh, mill, prefix, found, todo>>

(* ... the source is copied and the copy closed ... *)
CompressCopy ==
  /\ mill = "copy"
  /\ Zips(Head(work), "whole")
  /\ mill' = "unlink"
  /\ Millwork /\ UNCHANGED <<present, lines, millCh, prefix, found, todo, work>>

(* ... and removed ... *)
CompressUnlink ==
  /\ mill = "unlink"
  /\ present' = present \ {Head(work)}
  /\ work' = Tail(work) /\ mill' = "work"
  /\ Millwork /\ UNCHANGED <<zipped, lines, millCh, prefix, found, todo>>

(* ... unless one of these fails, which removes the copy. *)
CompressFails ==
  /\ Failing /\ mill \in {"copy", "unlink"}
  /\ Zips(Head(work), "none")
  /\ work' = Tail(work) /\ mill' = "work"
  /\ UNCHANGED <<present, lines, millCh, prefix, found, todo>>

(* Slip: the goroutine ends with its pass. *)
MillReturns ==
  /\ mill = "work" /\ todo = <<>> /\ work = <<>>
  /\ mill' = "exited"
  /\ Millwork /\ UNCHANGED <<disk, millCh, prefix, found, todo, work>>

MillDone ==
  /\ mill = "work" /\ todo = <<>> /\ work = <<>>
  /\ mill' = "recv"
  /\ Millwork /\ UNCHANGED <<disk, millCh, prefix, found, todo, work>>

Mill == MillReceive \/ MillList \/ MillPlan \/ MillRemove
          \/ CompressBegin \/ CompressCopy \/ CompressUnlink \/ MillDone
MillError == MillListFails \/ MillRemoveFails \/ CompressGivesUp \/ CompressFails

-----------------------------------------------------------------------------
Midnight ==
  /\ day < LastDay
  /\ day' = day + 1
  /\ UNCHANGED <<restarts, failures, disk, file, acked, millCh, milling>>

(* The process is killed and started again; the files stay as they are. *)
Restart ==
  /\ restarts < MaxRestarts /\ (file # 0 \/ mill # "off")
  /\ restarts' = restarts + 1
  /\ file' = 0 /\ millCh' = FALSE /\ mill' = "off"
  /\ found' = {} /\ todo' = <<>> /\ work' = <<>>
  /\ UNCHANGED <<day, failures, disk, acked, prefix>>

Next ==
  \/ Write \/ WriteReopens \/ WriteCreates \/ WriteTruncates \/ WriteFails
  \/ Close \/ Rotate \/ RotateFails
  \/ Mill \/ MillError \/ Midnight \/ Restart

Spec == Init /\ [][Next]_vars

(* Go runs the mill. *)
FairSpec == Spec /\ WF_vars(Mill)

-----------------------------------------------------------------------------
(* Properties.                                                             *)

(* Every variable keeps its type; a pass has nothing left over.            *)
TypeOK ==
  /\ day \in FirstDay..LastDay /\ restarts \in 0..MaxRestarts /\ failures \in 0..MaxFailures
  /\ present \subseteq Names /\ zipped \in [Names -> {"none", "partial", "whole"}]
  /\ acked \subseteq [n : 1..MaxWrites, day : Days] /\ lines \in [Names -> SUBSET acked]
  /\ file \in 0..day /\ (file # 0 => <<file>> \in present)
  /\ millCh \in BOOLEAN /\ prefix \in 0..day
  /\ mill \in {"off", "recv", "list", "plan", "work", "copy", "unlink"}
  /\ found \subseteq [name : Names, gz : BOOLEAN]
  /\ todo \in Seq([name : Names, gz : BOOLEAN]) /\ work \in Seq(Names)
  /\ mill \in {"off", "recv", "list", "plan"} => todo = <<>> /\ work = <<>>

(* The directory keeps the promises of LogStore, over Close and reopening, *)
(* midnight, failures and restarts, and whatever the mill does meanwhile:  *)
(* it never touches a file the logger may have open, drops no backup that  *)
(* retention keeps, and at no step of compressLogFile, nor after an error  *)
(* or a restart in the middle of it, is a partial copy all that is left.   *)
OldNames  == Existing \cap (Days \X Days)
Backup(n) == [series |-> n[1], day |-> n[2]]
Whole(n)  == n \in present \/ zipped[n] = "whole"
Kept      == UNION {lines[n] : n \in present}

Stored == INSTANCE LogStore WITH
  Backups <- {Backup(n) : n \in OldNames},
  count   <- Cardinality(acked),
  kept    <- Kept,
  backups <- {Backup(n) : n \in {m \in OldNames : Whole(m)}}

ImplementsStore == Stored!Spec

(* The inductive invariant.  A line is in a log that bears its day or an    *)
(* earlier one, so that what truncating today's log loses is of today       *)
(* (LinesDated).  Backups are never made, and what the mill found is what   *)
(* it may see under the prefix (Listing).  What is left of a pass may go by *)
(* LogStore's own rule, or is to be compressed: that is still there, no     *)
(* removal and no earlier compression takes it away, and its source goes    *)
(* only when the copy is whole (Planned).                                   *)
LinesDated ==
  /\ IsFiniteSet(acked)
  /\ \A l \in acked : l.n <= Cardinality(acked) /\ l.day <= day
  /\ \A n \in Names : \A l \in lines[n] : n \in Logs /\ n[1] <= l.day

Listing ==
  /\ \A n \in Days \X Days : n \in present \/ zipped[n] # "none" => n \in Existing
  /\ mill # "plan" => found = {}
  /\ \A f \in found : /\ f.name \in OldNames /\ f.name[1] = prefix
                      /\ f.gz \/ f.name \in present

Dismissed == {n \in OldNames : Stored!MayGo(Backup(n))}

Planned ==
  /\ \A i \in 1..Len(todo) : todo[i].name \in Dismissed
  /\ \A i \in 1..Len(work) :
       /\ work[i] \in OldNames \cap present
       /\ \A j \in 1..Len(work) : i # j => work[i] # work[j]
       /\ \A j \in 1..Len(todo) : todo[j].gz \/ todo[j].name # work[i]
  /\ mill \in {"copy", "unlink"} => work # <<>> /\ todo = <<>>
  /\ mill = "unlink" => zipped[work[1]] = "whole"

Inv == TypeOK /\ LinesDated /\ Listing /\ Planned

(* Each pass removes exactly the backups retention lets go, in whatever    *)
(* forms they are there and each once, and compresses the uncompressed     *)
(* ones that stay, whatever order the sort left them in (millRunOnce): the *)
(* newest MaxBackups that are not too old stay.                            *)
Newer(f) == {g.name : g \in {h \in found : Date(h) > Date(f)}}

Stays(f) ==
  /\ MaxBackups > 0 => Cardinality(Newer(f)) < MaxBackups
  /\ ~TooOld(f, day, MaxAge)

PlanIsDefinition ==
  [][mill = "plan" /\ mill' = "work" =>
       /\ ToSet(todo') = {f \in found : ~Stays(f)} /\ Len(todo') = Cardinality(ToSet(todo'))
       /\ ToSet(work') = {f.name : f \in {g \in found : Compress /\ ~g.gz /\ Stays(g)}}]_vars

(* Opening a log wakes the mill, and no wake-up is lost while it works:    *)
(* once failures and restarts are over, the backups it can recognise today *)
(* and that are too old are gone in the end, in every form.                *)
Doomed ==
  {n \in OldNames : n[1] = LastDay /\ MaxAge > 0 /\ n[2] + MaxAge <= LastDay}

Settled == failures = MaxFailures /\ restarts = MaxRestarts

OldBackupsGo ==
  day = LastDay /\ millCh /\ Settled
    ~> \A n \in Doomed : n \notin present /\ zipped[n] = "none"

(* lumberjack.go:93: files with an encoded timestamp older than MaxAge     *)
(* days are deleted; so none is left by a pass that has ended today.       *)
OldLogsDeleted ==
  MaxAge > 0 /\ mill = "recv" /\ ~millCh /\ prefix = day =>
    \A d \in Days : <<d>> \in present => d + MaxAge >= day
=============================================================================
