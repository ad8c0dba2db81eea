------------------------------ MODULE DebugLog ------------------------------
(***************************************************************************)
(* The log files (src/src/general/debug.c:51-231): every string that is    *)
(* put out goes to a file too; a file is given up for a new one after      *)
(* LOG_INTERVAL_TIME, and a new one makes the oldest go.  The directory is *)
(* shared by all runs of the program, the mutex only by the threads of     *)
(* one.  A file is named by the second in which it was made.               *)
(***************************************************************************)
EXTENDS Integers, FiniteSets

CONSTANTS
  Process,      \* the processes
  Interval,     \* LOG_INTERVAL_TIME, in the unit of the clock
  MaxFiles,     \* LOG_MAX_FILE_COUNT
  InitFiles,    \* what may be in the directory at the start
  Back,         \* how far the clock may be set back, once
  Start,        \* the time at the start
  MaxTime,      \* bound: the time
  MaxMessages   \* bound: messages in a behaviour

Time == 0 .. MaxTime
None == -1

ASSUME LogAssumption ==
  /\ Interval \in Nat /\ MaxFiles \in Nat \ {0} /\ MaxTime \in Nat /\ MaxMessages \in Nat
  /\ InitFiles \subseteq SUBSET Time /\ Back \subseteq Nat /\ Start \in Time

VARIABLES
  now,       \* the clock
  files,     \* the files in the directory
  pc,        \* pc[p]: "idle", "out", "check", "scan", "remove" or "put"
  left,      \* left[p]: strings of the message still to be put out
  c_time,    \* c_time[p]: the time of the string
  log_fp,    \* log_fp[p]: the file, None for NULL
  open,      \* open[p]: whether that file is open
  deadline,  \* deadline[p]
  pioneer,   \* pioneer[p]: the file to be removed, or None
  upset,     \* what has happened besides: the clock was set back, a file
             \*   was closed and then the directory was not there, a process
             \*   was killed, two made a new file at the same time, one was
             \*   made with an earlier name than a file that was there
  messages

vars == <<now, files, pc, left, c_time, log_fp, open, deadline, pioneer, upset, messages>>
record == <<log_fp, open, deadline>>
Upset == {"back", "dir", "killed", "together", "late"}

Init ==
  /\ now = Start /\ files \in InitFiles
  /\ pc = [p \in Process |-> "idle"] /\ left = [p \in Process |-> 0]
  /\ c_time = [p \in Process |-> 0]
  /\ log_fp = [p \in Process |-> None] /\ open = [p \in Process |-> FALSE]
  /\ deadline = [p \in Process |-> 0] /\ pioneer = [p \in Process |-> None]
  /\ upset = {} /\ messages = 0

Clock ==
  /\ \/ now' = now + 1 /\ UNCHANGED upset
     \/ "back" \notin upset /\ \E b \in Back : now' = now - b /\ upset' = upset \cup {"back"}
  /\ now' \in Time
  /\ UNCHANGED <<files, pc, left, c_time, record, pioneer, messages>>

Goto(p, from, to) == pc[p] = from /\ pc' = [pc EXCEPT ![p] = to]

(* debug_printf and debug_phex: a message is one or more strings, each of  *)
(* them handled by dbg_out_str.                                            *)
Message(p) ==
  /\ messages < MaxMessages /\ messages' = messages + 1
  /\ Goto(p, "idle", "out")
  /\ \E n \in 1 .. 2 : left' = [left EXCEPT ![p] = n]
  /\ UNCHANGED <<now, files, c_time, record, pioneer, upset>>

StringDone(p) ==
  /\ left' = [left EXCEPT ![p] = @ - 1]
  /\ pc' = [pc EXCEPT ![p] = IF left[p] = 1 THEN "idle" ELSE "out"]

(* dbg_out_str reads the time, then writes to stdout, and may be held up   *)
(* there for any time before it goes on with the file.                     *)
TakeTime(p) ==
  /\ Goto(p, "out", "check")
  /\ c_time' = [c_time EXCEPT ![p] = now]
  /\ UNCHANGED <<now, files, left, record, pioneer, upset, messages>>

(* Mutant: the file is never given up.                                     *)
NewFileFirst(p) == log_fp[p] = None

NewFile(p) == deadline[p] < c_time[p] \/ log_fp[p] = None

KeepFile(p) ==
  /\ Goto(p, "check", "put")
  /\ ~NewFile(p)
  /\ UNCHANGED <<now, files, left, c_time, record, pioneer, upset, messages>>

(* Mutant: a failing fopen leaves the old pointer.                         *)
FpAfterFailOld(p) == log_fp[p]

FpAfterFail(p) == None

MakesFile(p) == pc[p] \in {"scan", "remove"}

(* What is upset when p makes the file of its time.                        *)
Upsets(p) ==
  {u \in {"together", "late"} :
     \/ u = "together" /\ \E q \in Process \ {p} : MakesFile(q)
     \/ u = "late" /\ \E f \in files : f > c_time[p]}

(* The old file is closed and the new one opened.  When the directory is   *)
(* neither there nor can be made log_fp keeps its value, and is closed     *)
(* again the next time: what that does is one of Kill and nothing.         *)
OpenFile(p) ==
  /\ pc[p] = "check" /\ NewFile(p)
  /\ \/ /\ Goto(p, "check", "scan")
        /\ files' = files \cup {c_time[p]}
        /\ log_fp' = [log_fp EXCEPT ![p] = c_time[p]]
        /\ open' = [open EXCEPT ![p] = TRUE]
        /\ deadline' = [deadline EXCEPT ![p] = c_time[p] + Interval]
        /\ upset' = upset \cup Upsets(p)
        /\ UNCHANGED left
     \/ /\ upset' = upset \cup (IF log_fp[p] = None THEN {} ELSE {"dir"})
        /\ open' = [open EXCEPT ![p] = FALSE]
        /\ StringDone(p)
        /\ UNCHANGED <<files, log_fp, deadline>>
     \/ /\ log_fp' = [log_fp EXCEPT ![p] = FpAfterFail(p)]
        /\ open' = [open EXCEPT ![p] = FALSE]
        /\ StringDone(p)
        /\ UNCHANGED <<files, deadline, upset>>
  /\ UNCHANGED <<now, c_time, pioneer, messages>>

Earliest(S) == CHOOSE f \in S : \A g \in S : f <= g

(* Mutant: one file too many is kept.                                      *)
TooManyOneMore(n) == n > MaxFiles

TooMany(n) == n >= MaxFiles

(* Mutant: the last older file that readdir gives.                         *)
OldestLast(S) == CHOOSE f \in S : \A g \in S : f >= g

Oldest(S) == Earliest(S)

(* Counted are the files with an earlier name.                             *)
Scan(p) ==
  /\ Goto(p, "scan", "remove")
  /\ LET older == {f \in files : f < log_fp[p]}
     IN pioneer' = [pioneer EXCEPT ![p] = IF TooMany(Cardinality(older)) THEN Oldest(older) ELSE None]
  /\ UNCHANGED <<now, files, left, c_time, record, upset, messages>>

(* Mutant: the path of the file just made is removed.                      *)
RemoveCurrent(p) ==
  /\ Goto(p, "remove", "put")
  /\ files' = IF pioneer[p] = None THEN files ELSE files \ {log_fp[p]}
  /\ pioneer' = [pioneer EXCEPT ![p] = None]
  /\ UNCHANGED <<now, left, c_time, record, upset, messages>>

RemoveOldest(p) ==
  /\ Goto(p, "remove", "put")
  /\ files' = files \ {pioneer[p]}
  /\ pioneer' = [pioneer EXCEPT ![p] = None]
  /\ UNCHANGED <<now, left, c_time, record, upset, messages>>

Put(p) ==
  /\ pc[p] = "put"
  /\ StringDone(p)
  /\ UNCHANGED <<now, files, c_time, record, pioneer, upset, messages>>

(* A run of the program is over; the next one starts anew.                 *)
NewRun(p) ==
  /\ log_fp' = [log_fp EXCEPT ![p] = None]
  /\ open' = [open EXCEPT ![p] = FALSE]
  /\ deadline' = [deadline EXCEPT ![p] = 0]
  /\ UNCHANGED <<now, files, c_time, messages>>

Restart(p) ==
  /\ pc[p] = "idle" /\ log_fp[p] # None
  /\ NewRun(p)
  /\ UNCHANGED <<pc, left, pioneer, upset>>

(* The process is killed within a message, once in a behaviour.            *)
Kill(p) ==
  /\ "killed" \notin upset /\ upset' = upset \cup {"killed"}
  /\ pc[p] # "idle" /\ pc' = [pc EXCEPT ![p] = "idle"]
  /\ left' = [left EXCEPT ![p] = 0] /\ pioneer' = [pioneer EXCEPT ![p] = None]
  /\ NewRun(p)

Next ==
  \/ Clock
  \/ \E p \in Process :
       \/ Message(p) \/ TakeTime(p) \/ KeepFile(p) \/ OpenFile(p) \/ Scan(p) \/ RemoveOldest(p) \/ Put(p)
       \/ Restart(p) \/ Kill(p)

Spec == Init /\ [][Next]_vars

-----------------------------------------------------------------------------
LogTypeOK ==
  /\ now \in Time /\ files \subseteq Time
  /\ pc \in [Process -> {"idle", "out", "check", "scan", "remove", "put"}]
  /\ left \in [Process -> 0 .. 2]
  /\ c_time \in [Process -> Time]
  /\ log_fp \in [Process -> Time \cup {None}]
  /\ open \in [Process -> BOOLEAN]
  /\ pioneer \in [Process -> Time \cup {None}]
  /\ upset \subseteq Upset

(* "At most M files" (debug.h:23) whenever nobody is making one: as long   *)
(* as nobody is killed after making one, no two make one at the same time  *)
(* and each new one has the latest name.  Otherwise one too many is kept,  *)
(* for good.                                                               *)
AtMostFiles ==
  (\A p \in Process : ~MakesFile(p)) /\ upset \subseteq {"dir", "back"}
    => Cardinality(files) <= MaxFiles

(* "One file for N minutes" (debug.h:22): no string is put in a file made  *)
(* more than the interval before the string's time, whatever fails and     *)
(* however the clock is set; nor in one made after it, as long as the      *)
(* clock goes forward.                                                     *)
FileSpan ==
  \A p \in Process : pc[p] = "put" =>
    /\ c_time[p] <= log_fp[p] + Interval
    /\ "back" \notin upset => log_fp[p] <= c_time[p]

(* What is removed is the earliest of all files (debug.c:59), also when    *)
(* several processes make and remove at once or are killed on the way, as  *)
(* long as each new file has the latest name.  A process held up before    *)
(* fopen makes one with an earlier name, which another that has looked     *)
(* before does not see: then a later one may be removed.                   *)
OldestGoes ==
  [][\A f \in files \ files' : "late" \in upset \/ \A g \in files : f <= g]_vars

(* The latest log is never removed: whoever removes one leaves a later one *)
(* in the directory, however processes are held up, fail or are killed and *)
(* wherever the clock is set.                                              *)
NewestStays ==
  [][\A f \in files \ files' : \E g \in files' : f < g]_vars

(* log_fp is an open file or NULL ("the log file", debug.c:33) whenever    *)
(* dbg_out_str is entered, unless the directory was not there after the    *)
(* old file was closed (debug.c:82); and a string is only put in a file    *)
(* that is open.                                                           *)
FpIsOpen ==
  \A p \in Process : log_fp[p] # None /\ ~open[p] => "dir" \in upset /\ (pc[p] = "put" => "back" \in upset)

(* Only old logs are removed (debug.c:102): one that a process still has   *)
(* open goes only when there are MaxFiles later ones, made by others, as   *)
(* long as each new file has the latest name.                              *)
OpenIsKept ==
  [][\A p \in Process :
       open[p] /\ log_fp[p] \in files \ files' /\ "late" \notin upset =>
         Cardinality({g \in files : g > log_fp[p]}) >= MaxFiles]_vars
=============================================================================
