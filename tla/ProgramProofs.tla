--------------------------- MODULE ProgramProofs ---------------------------
(***************************************************************************)
(* Proofs about the two parts of the program that touch no register: the   *)
(* log files, for every number of processes that share the directory,      *)
(* every interval and every number of files kept, and the command line,    *)
(* for every set of command lines.                                         *)
(***************************************************************************)
EXTENDS DebugLog, CliConfig, FiniteSetTheorems, WellFoundedInduction, TLAPS

-----------------------------------------------------------------------------
(* THE LOG FILES.  They are named by their times.                          *)

LEMMA EarliestIsLeast ==
  ASSUME NEW S \in SUBSET Nat, S # {}
  PROVE  Earliest(S) \in S /\ \A g \in S : Earliest(S) <= g
<1>1. PICK x \in S : \A y \in S : ~(<<y, x>> \in OpToRel(<, Nat))
  BY NatLessThanWellFounded, WFMin
<1>2. ASSUME NEW y \in S PROVE x <= y
  <2>1. x \in Nat /\ y \in Nat OBVIOUS
  <2>2. ~(y < x) BY <1>1, <2>1 DEF OpToRel
  <2> QED BY <2>1, <2>2
<1> QED BY <1>1, <1>2 DEF Earliest

LEMMA FilesFinite ==
  ASSUME NEW S \in SUBSET Time
  PROVE  IsFiniteSet(S) /\ Cardinality(S) \in Nat
<1>1. IsFiniteSet(Time) BY FS_Interval, LogAssumption DEF Time
<1> QED BY <1>1, FS_Subset, FS_CardinalityType

LEMMA FewerFiles ==
  ASSUME NEW S \in SUBSET Time, NEW T \in SUBSET S
  PROVE  Cardinality(T) <= Cardinality(S)
BY FilesFinite, FS_Subset

(* One file more or less.                                                  *)
LEMMA OneFile ==
  ASSUME NEW S \in SUBSET Time, NEW f \in S
  PROVE  Cardinality(S) = Cardinality(S \ {f}) + 1
BY FilesFinite, FS_RemoveElement

-----------------------------------------------------------------------------
(* The invariant of one process and the directory.                         *)

Forward == "back" \notin upset
InOrder == "late" \notin upset
WithFile == {"scan", "remove", "put"}

(* A process within a message has a string left; one that has chosen a     *)
(* file has it open.                                                       *)
StringInv(p) ==
  /\ pc[p] # "idle" => left[p] >= 1
  /\ pc[p] \in {"scan", "remove"} => log_fp[p] # None /\ open[p]
  /\ open[p] => log_fp[p] # None
  /\ log_fp[p] # None /\ ~open[p] => "dir" \in upset

(* The file is kept for the interval.                                      *)
SpanInv(p) ==
  /\ log_fp[p] # None => deadline[p] = log_fp[p] + Interval
  /\ pc[p] \in WithFile => log_fp[p] # None /\ c_time[p] <= log_fp[p] + Interval

(* While the clock goes forward files are older than the strings, and a    *)
(* closed one is not even kept for the interval.                           *)
ForwardInv(p) ==
  Forward =>
    /\ log_fp[p] # None => log_fp[p] <= now
    /\ log_fp[p] # None /\ ~open[p] => deadline[p] < now /\ pc[p] \notin WithFile
    /\ pc[p] = "check" =>
         /\ c_time[p] <= now
         /\ log_fp[p] # None => log_fp[p] <= c_time[p]
         /\ log_fp[p] # None /\ ~open[p] => deadline[p] < c_time[p]
    /\ pc[p] \in WithFile => log_fp[p] <= c_time[p]

(* A file as late as that of p is there, and the one p will remove is an   *)
(* earlier one.                                                            *)
NewestInv(p) ==
  /\ log_fp[p] # None => \E g \in files : log_fp[p] <= g
  /\ pc[p] = "remove" /\ pioneer[p] # None => pioneer[p] < log_fp[p]

(* As long as files are made in the order of their names: the file just    *)
(* made is there, or a later one is all that is there; the one to be       *)
(* removed is the earliest, and MaxFiles are later, as long as it is       *)
(* there.                                                                  *)
Later(f) == {g \in files : g > f}

PioneerInv(p) ==
  InOrder =>
    /\ pc[p] = "scan" => log_fp[p] \in files \/ \A g \in files : log_fp[p] <= g
    /\ pc[p] = "remove" /\ pioneer[p] # None =>
         /\ \A g \in files : pioneer[p] <= g
         /\ pioneer[p] \in files => Cardinality(Later(pioneer[p])) >= MaxFiles

ProcInv(p) ==
  StringInv(p) /\ SpanInv(p) /\ ForwardInv(p) /\ NewestInv(p) /\ PioneerInv(p)

LogInv ==
  /\ LogTypeOK
  /\ deadline \in [Process -> Nat]
  /\ \A p \in Process : ProcInv(p)

(* As long as nothing but the directory and the clock is in the way, there *)
(* is one maker of a file at a time, its file is the latest, and without   *)
(* it or without the one to be removed there are not too many.             *)
CountInv ==
  upset \subseteq {"dir", "back"} =>
    /\ \A p \in Process : MakesFile(p) =>
         /\ \A f \in files : f <= log_fp[p]
         /\ \A q \in Process \ {p} : ~MakesFile(q)
         /\ pc[p] = "scan" => Cardinality(files \ {log_fp[p]}) <= MaxFiles
         /\ pc[p] = "remove" => Cardinality(files \ {pioneer[p]}) <= MaxFiles
    /\ (\A p \in Process : ~MakesFile(p)) => Cardinality(files) <= MaxFiles

(* The directory the first run finds.                                      *)
CleanStart == \A F \in InitFiles : Cardinality(F) <= MaxFiles

LEMMA LogInit == Init => LogInv
BY LogAssumption DEF Init, LogInv, LogTypeOK, Time, None, Upset, ProcInv, StringInv, SpanInv,
   ForwardInv, NewestInv, PioneerInv, WithFile

LEMMA CountInit == CleanStart /\ Init => CountInv
BY DEF CleanStart, Init, CountInv, MakesFile

-----------------------------------------------------------------------------
(* Nothing of a process that does not move changes.                        *)
Still(q) ==
  /\ pc'[q] = pc[q] /\ left'[q] = left[q] /\ c_time'[q] = c_time[q]
  /\ log_fp'[q] = log_fp[q] /\ open'[q] = open[q] /\ deadline'[q] = deadline[q]
  /\ pioneer'[q] = pioneer[q]

(* Time goes on, or it is noted that it went back.                         *)
Onward == upset \subseteq upset' /\ ("back" \notin upset' => now <= now')

(* No file goes, and one that comes has the latest name, or it is noted.   *)
MoreFiles ==
  \/ files' = files
  \/ \E c \in Time : /\ files' = files \cup {c}
                     /\ "late" \notin upset' => \A f \in files : f <= c

LEMMA StillString ==
  ASSUME NEW q \in Process, StringInv(q), Still(q), Onward
  PROVE  StringInv(q)'
BY DEF StringInv, Still, Onward

LEMMA StillSpan ==
  ASSUME NEW q \in Process, SpanInv(q), Still(q)
  PROVE  SpanInv(q)'
BY DEF SpanInv, Still

LEMMA StillForward ==
  ASSUME LogInv, now' \in Time, NEW q \in Process, Still(q), Onward
  PROVE  ForwardInv(q)'
<1> SUFFICES ASSUME Forward' PROVE ForwardInv(q)'
  BY DEF ForwardInv
<1>1. Forward /\ now <= now' BY DEF Forward, Onward
<1>2. now \in Int /\ now' \in Int /\ deadline[q] \in Int /\ c_time[q] \in Int
      /\ (log_fp[q] # None => log_fp[q] \in Int) /\ ForwardInv(q)
  BY DEF LogInv, LogTypeOK, Time, ProcInv
<1> QED BY <1>1, <1>2 DEF ForwardInv, Still

LEMMA StillNewest ==
  ASSUME NEW q \in Process, NewestInv(q), Still(q), MoreFiles
  PROVE  NewestInv(q)'
BY DEF NewestInv, Still, MoreFiles

(* A file made in order is later than those that others have made or will  *)
(* remove.                                                                 *)
LEMMA StillPioneer ==
  ASSUME LogInv, NEW q \in Process, Still(q), Onward, MoreFiles
  PROVE  PioneerInv(q)'
<1> SUFFICES ASSUME InOrder' PROVE PioneerInv(q)'
  BY DEF PioneerInv
<1>1. InOrder BY DEF InOrder, Onward
<1>2. PioneerInv(q) /\ NewestInv(q) /\ StringInv(q) /\ files \in SUBSET Time
  BY DEF LogInv, LogTypeOK, ProcInv
<1>3. CASE files' = files
  BY <1>2, <1>3 DEF PioneerInv, InOrder, Onward, Still, Later
<1>4. ASSUME NEW c \in Time, files' = files \cup {c}, \A f \in files : f <= c
      PROVE  PioneerInv(q)'
  <2>1. pc[q] \in {"scan", "remove"} => log_fp[q] \in Time /\ log_fp[q] <= c
    <3> SUFFICES ASSUME pc[q] \in {"scan", "remove"}
                 PROVE  log_fp[q] \in Time /\ log_fp[q] <= c
      OBVIOUS
    <3>1. log_fp[q] \in Time BY <1>2 DEF StringInv, LogInv, LogTypeOK
    <3>2. PICK g \in files : log_fp[q] <= g BY <1>2 DEF NewestInv, StringInv
    <3>3. log_fp[q] \in Nat /\ g \in Nat /\ c \in Nat /\ g <= c
      BY <1>2, <1>4, <3>1, <3>2, LogAssumption DEF Time
    <3> QED BY <3>1, <3>2, <3>3
  <2>2. pc[q] = "remove" => pioneer[q] \in Time \cup {None} BY DEF LogInv, LogTypeOK
  <2>3. \A t \in Time : t \in Nat BY LogAssumption DEF Time
  <2>4. files' \in SUBSET Time BY <1>2, <1>4
  <2>5. CASE pc'[q] = "scan"
    <3>1. log_fp[q] <= c /\ log_fp'[q] = log_fp[q] /\ pc[q] = "scan"
      BY <2>1, <2>5 DEF Still
    <3>2. log_fp[q] \in files \/ \A g \in files : log_fp[q] <= g
      BY <1>1, <1>2, <3>1 DEF PioneerInv
    <3> QED BY <1>4, <2>5, <3>1, <3>2 DEF PioneerInv
  <2>6. CASE pc'[q] = "remove" /\ pioneer'[q] # None
    <3> PICK f : f = pioneer[q] OBVIOUS
    <3>1. /\ f \in Time /\ f < log_fp[q] /\ (\A g \in files : f <= g)
          /\ f \in files => Cardinality(Later(f)) >= MaxFiles
      BY <1>1, <1>2, <2>2, <2>6 DEF PioneerInv, NewestInv, Still
    <3>2. f < c
      <4>1. f \in Nat /\ log_fp[q] \in Nat /\ c \in Nat /\ log_fp[q] <= c
        BY <2>1, <2>3, <2>6, <3>1 DEF Still
      <4> QED BY <3>1, <4>1
    <3>3. \A g \in files' : f <= g
      <4>1. f \in Nat /\ c \in Nat BY <2>3, <3>1
      <4> QED BY <1>4, <3>1, <3>2, <4>1
    <3>4. f \in files' => Cardinality(Later(f)') >= MaxFiles
      <4> SUFFICES ASSUME f \in files' PROVE Cardinality(Later(f)') >= MaxFiles
        OBVIOUS
      <4>1. f \in files
        <5>1. f \in Nat /\ c \in Nat BY <2>3, <3>1
        <5> QED BY <1>4, <3>2, <5>1
      <4>2. Later(f) \subseteq Later(f)' /\ Later(f)' \in SUBSET Time /\ Later(f) \in SUBSET Time
        BY <1>2, <1>4, <2>4 DEF Later
      <4>3. Cardinality(Later(f)) <= Cardinality(Later(f)') BY <4>2, FewerFiles
      <4>4. Cardinality(Later(f)) \in Nat /\ Cardinality(Later(f)') \in Nat
        BY <4>2, FilesFinite
      <4> QED BY <3>1, <4>1, <4>3, <4>4, LogAssumption
    <3>5. f = pioneer'[q] BY DEF Still
    <3> QED BY <2>6, <3>3, <3>4, <3>5 DEF PioneerInv, Later
  <2> QED BY <2>5, <2>6 DEF PioneerInv
<1> QED BY <1>3, <1>4 DEF MoreFiles, InOrder

LEMMA StillProc ==
  ASSUME LogInv, now' \in Time, NEW q \in Process, Still(q), Onward, MoreFiles
  PROVE  ProcInv(q)'
<1>1. StringInv(q) /\ SpanInv(q) /\ NewestInv(q) BY DEF LogInv, ProcInv
<1> QED
  BY <1>1, StillString, StillSpan, StillForward, StillNewest, StillPioneer DEF ProcInv

LEMMA StillInv ==
  ASSUME LogInv, LogTypeOK', deadline' \in [Process -> Nat], Onward, MoreFiles,
         NEW p \in Process, \A q \in Process \ {p} : Still(q), ProcInv(p)'
  PROVE  LogInv'
<1>1. now' \in Time BY DEF LogTypeOK
<1>2. ASSUME NEW q \in Process \ {p} PROVE ProcInv(q)'
  BY <1>1, StillProc
<1> QED BY <1>2 DEF LogInv

LEMMA TimeNat == \A t \in Time : t \in Nat
BY LogAssumption DEF Time

(* The types of one process's variables.                                   *)
LEMMA TypedAt ==
  ASSUME LogInv, NEW p \in Process
  PROVE  /\ pc[p] \in {"idle", "out", "check", "scan", "remove", "put"} /\ left[p] \in 0 .. 2
         /\ now \in Nat /\ now \in Time /\ c_time[p] \in Nat /\ c_time[p] \in Time
         /\ deadline[p] \in Nat
         /\ log_fp[p] \in Time \cup {None} /\ (log_fp[p] # None => log_fp[p] \in Nat)
         /\ open[p] \in BOOLEAN
         /\ pioneer[p] \in Time \cup {None} /\ (pioneer[p] # None => pioneer[p] \in Nat)
         /\ StringInv(p) /\ SpanInv(p) /\ ForwardInv(p) /\ NewestInv(p) /\ PioneerInv(p)
         /\ Interval \in Nat /\ MaxFiles \in Nat \ {0}
BY TimeNat, LogAssumption DEF LogInv, LogTypeOK, ProcInv

LEMMA ClockStep ==
  ASSUME LogInv, Clock PROVE LogInv'
<1>1. Onward /\ now' \in Time
  <2>1. now \in Nat BY TimeNat DEF LogInv, LogTypeOK
  <2> QED BY <2>1 DEF Clock, Onward
<1>2. LogTypeOK' /\ deadline' \in [Process -> Nat]
  BY <1>1 DEF Clock, record, LogInv, LogTypeOK, Upset
<1>3. ASSUME NEW q \in Process PROVE ProcInv(q)'
  <2>1. Still(q) /\ MoreFiles BY DEF Clock, record, Still, MoreFiles
  <2> QED BY <1>1, <2>1, StillProc
<1> QED BY <1>2, <1>3 DEF LogInv

LEMMA MessageStep ==
  ASSUME LogInv, NEW p \in Process, Message(p) PROVE LogInv'
<1>1. /\ pc' = [pc EXCEPT ![p] = "out"] /\ pc[p] = "idle"
      /\ \E n \in 1 .. 2 : left' = [left EXCEPT ![p] = n]
      /\ UNCHANGED <<now, files, c_time, log_fp, open, deadline, pioneer, upset>>
  BY DEF Message, Goto, record
<1>2. LogTypeOK' /\ deadline' \in [Process -> Nat] BY <1>1 DEF LogInv, LogTypeOK
<1>3. pc'[p] = "out" /\ left'[p] >= 1 /\ \A q \in Process \ {p} : Still(q)
  BY <1>1 DEF LogInv, LogTypeOK, Still
<1>4. Onward /\ MoreFiles BY <1>1, TypedAt DEF Onward, MoreFiles
<1>5. ProcInv(p)'
  BY <1>1, <1>3, TypedAt
     DEF ProcInv, StringInv, SpanInv, ForwardInv, NewestInv, PioneerInv, WithFile, Forward
<1> QED BY <1>2, <1>3, <1>4, <1>5, StillInv

LEMMA TakeTimeStep ==
  ASSUME LogInv, NEW p \in Process, TakeTime(p) PROVE LogInv'
<1>1. /\ pc' = [pc EXCEPT ![p] = "check"] /\ pc[p] = "out"
      /\ c_time' = [c_time EXCEPT ![p] = now]
      /\ UNCHANGED <<now, files, left, log_fp, open, deadline, pioneer, upset>>
  BY DEF TakeTime, Goto, record
<1>2. LogTypeOK' /\ deadline' \in [Process -> Nat] BY <1>1 DEF LogInv, LogTypeOK
<1>3. pc'[p] = "check" /\ c_time'[p] = now /\ \A q \in Process \ {p} : Still(q)
  BY <1>1 DEF LogInv, LogTypeOK, Still
<1>4. Onward /\ MoreFiles BY <1>1, TypedAt DEF Onward, MoreFiles
<1>5. StringInv(p)' /\ SpanInv(p)' /\ NewestInv(p)' /\ PioneerInv(p)'
  BY <1>1, <1>3, TypedAt DEF StringInv, SpanInv, NewestInv, PioneerInv, WithFile
<1>6. ForwardInv(p)'
  <2>1. now <= now BY TypedAt
  <2> QED BY <1>1, <1>3, <2>1, TypedAt DEF ForwardInv, Forward, WithFile
<1> QED BY <1>2, <1>3, <1>4, <1>5, <1>6, StillInv DEF ProcInv

LEMMA KeepFileStep ==
  ASSUME LogInv, NEW p \in Process, KeepFile(p) PROVE LogInv'
<1>1. /\ pc' = [pc EXCEPT ![p] = "put"] /\ pc[p] = "check" /\ ~NewFile(p)
      /\ UNCHANGED <<now, files, left, c_time, log_fp, open, deadline, pioneer, upset>>
  BY DEF KeepFile, Goto, record
<1>2. LogTypeOK' /\ deadline' \in [Process -> Nat] BY <1>1 DEF LogInv, LogTypeOK
<1>3. pc'[p] = "put" /\ \A q \in Process \ {p} : Still(q)
  BY <1>1 DEF LogInv, LogTypeOK, Still
<1>4. Onward /\ MoreFiles BY <1>1, TypedAt DEF Onward, MoreFiles
<1>5. StringInv(p)' /\ NewestInv(p)' /\ PioneerInv(p)'
  BY <1>1, <1>3, TypedAt DEF StringInv, NewestInv, PioneerInv
<1>6. log_fp[p] # None /\ c_time[p] <= deadline[p] BY <1>1, TypedAt DEF NewFile
<1>7. SpanInv(p)' BY <1>1, <1>6, TypedAt DEF SpanInv
<1>8. ForwardInv(p)'
  <2> SUFFICES ASSUME Forward PROVE ForwardInv(p)'
    BY <1>1 DEF ForwardInv, Forward
  <2>1. log_fp[p] <= now /\ log_fp[p] <= c_time[p]
    BY <1>1, <1>6, TypedAt DEF ForwardInv
  <2>2. open[p] \/ deadline[p] < c_time[p] BY <1>1, <1>6, TypedAt DEF ForwardInv
  <2>3. open[p] BY <1>6, <2>2, TypedAt
  <2> QED BY <1>1, <1>3, <2>1, <2>3 DEF ForwardInv
<1> QED BY <1>2, <1>3, <1>4, <1>5, <1>7, <1>8, StillInv DEF ProcInv

LEMMA LeftFits ==
  ASSUME LogInv, NEW p \in Process, StringDone(p), pc[p] # "idle"
  PROVE  /\ left' \in [Process -> 0 .. 2]
         /\ pc' \in [Process -> {"idle", "out", "check", "scan", "remove", "put"}]
         /\ pc'[p] \in {"idle", "out"}
         /\ pc'[p] # "idle" => left'[p] >= 1
         /\ \A q \in Process \ {p} : pc'[q] = pc[q] /\ left'[q] = left[q]
<1>1. left[p] \in 1 .. 2 BY TypedAt DEF StringInv
<1>2. left[p] - 1 \in 0 .. 2 /\ (left[p] # 1 => left[p] - 1 >= 1) BY <1>1
<1> QED BY <1>2 DEF StringDone, LogInv, LogTypeOK

LEMMA OpenFileStep ==
  ASSUME LogInv, NEW p \in Process, OpenFile(p) PROVE LogInv'
<1> DEFINE c == c_time[p]
<1>1. pc[p] = "check" /\ NewFile(p) /\ UNCHANGED <<now, c_time, pioneer>>
  BY DEF OpenFile
<1>2. CASE /\ Goto(p, "check", "scan")
           /\ files' = files \cup {c}
           /\ log_fp' = [log_fp EXCEPT ![p] = c]
           /\ open' = [open EXCEPT ![p] = TRUE]
           /\ deadline' = [deadline EXCEPT ![p] = c + Interval]
           /\ upset' = upset \cup Upsets(p)
           /\ UNCHANGED left
  <2>1. LogTypeOK'
    BY <1>1, <1>2, TypedAt DEF Goto, LogInv, LogTypeOK, Upset, Upsets
  <2>2. c + Interval \in Nat BY TypedAt
  <2>3. deadline' \in [Process -> Nat] BY <1>2, <2>2 DEF LogInv
  <2>4. Onward BY <1>1, <1>2, TypedAt DEF Onward
  <2>5. MoreFiles
    <3>1. ASSUME "late" \notin upset' PROVE \A f \in files : f <= c
      <4>1. \A f \in files : ~(f > c) BY <1>2, <3>1 DEF Upsets
      <4>2. c \in Nat /\ \A f \in files : f \in Nat
        BY TypedAt, TimeNat DEF LogInv, LogTypeOK
      <4> QED BY <4>1, <4>2
    <3>2. c \in Time BY TypedAt
    <3> QED BY <1>2, <3>1, <3>2 DEF MoreFiles
  <2>6. /\ pc'[p] = "scan" /\ c_time'[p] = c /\ log_fp'[p] = c /\ open'[p] = TRUE
        /\ deadline'[p] = c + Interval /\ left'[p] = left[p]
    BY <1>1, <1>2 DEF Goto, LogInv, LogTypeOK
  <2>7. \A q \in Process \ {p} : Still(q)
    BY <1>1, <1>2 DEF Goto, LogInv, LogTypeOK, Still
  <2>8. c # None /\ c <= c /\ c <= c + Interval /\ c \in files'
    BY <1>2, TypedAt DEF None
  <2>9. StringInv(p)' BY <1>1, <2>6, <2>8, TypedAt DEF StringInv
  <2>10. SpanInv(p)' BY <2>6, <2>8 DEF SpanInv
  <2>11. ForwardInv(p)'
    <3>1. Forward' => c <= now BY <1>1, <1>2, TypedAt DEF ForwardInv, Forward
    <3> QED BY <1>1, <2>6, <2>8, <3>1 DEF ForwardInv
  <2>12. NewestInv(p)' /\ PioneerInv(p)' BY <2>6, <2>8 DEF NewestInv, PioneerInv
  <2> QED
    BY <2>1, <2>3, <2>4, <2>5, <2>7, <2>9, <2>10, <2>11, <2>12, StillInv DEF ProcInv
<1>3. CASE /\ upset' = upset \cup (IF log_fp[p] = None THEN {} ELSE {"dir"})
           /\ open' = [open EXCEPT ![p] = FALSE]
           /\ StringDone(p)
           /\ UNCHANGED <<files, log_fp, deadline>>
  <2>1. LogTypeOK' /\ deadline' \in [Process -> Nat]
    BY <1>1, <1>3, LeftFits DEF LogInv, LogTypeOK, Upset
  <2>2. Onward /\ MoreFiles BY <1>1, <1>3, TypedAt DEF Onward, MoreFiles
  <2>3. open'[p] = FALSE BY <1>3 DEF LogInv, LogTypeOK
  <2>4. \A q \in Process \ {p} : Still(q)
    BY <1>1, <1>3, LeftFits DEF LogInv, LogTypeOK, Still
  <2>5. pc'[p] \in {"idle", "out"} /\ (pc'[p] # "idle" => left'[p] >= 1)
    BY <1>1, <1>3, LeftFits
  <2>6. StringInv(p)' BY <1>3, <2>3, <2>5 DEF StringInv
  <2>7. SpanInv(p)' /\ NewestInv(p)' /\ PioneerInv(p)'
    BY <1>3, <2>5, TypedAt DEF SpanInv, NewestInv, PioneerInv, WithFile
  <2>8. ForwardInv(p)'
    <3> SUFFICES ASSUME Forward, log_fp[p] # None
                 PROVE  log_fp[p] <= now /\ deadline[p] < now
      BY <1>1, <1>3, <2>2, <2>5 DEF ForwardInv, Forward, Onward, WithFile
    <3>1. log_fp[p] <= now /\ c <= now BY <1>1, TypedAt DEF ForwardInv
    <3>2. deadline[p] < c BY <1>1 DEF NewFile
    <3> QED BY <3>1, <3>2, TypedAt
  <2> QED BY <2>1, <2>2, <2>4, <2>6, <2>7, <2>8, StillInv DEF ProcInv
<1>4. CASE /\ log_fp' = [log_fp EXCEPT ![p] = FpAfterFail(p)]
           /\ open' = [open EXCEPT ![p] = FALSE]
           /\ StringDone(p)
           /\ UNCHANGED <<files, deadline, upset>>
  <2>1. LogTypeOK' /\ deadline' \in [Process -> Nat]
    BY <1>1, <1>4, LeftFits DEF LogInv, LogTypeOK, FpAfterFail
  <2>2. Onward /\ MoreFiles BY <1>1, <1>4, TypedAt DEF Onward, MoreFiles
  <2>3. open'[p] = FALSE /\ log_fp'[p] = None BY <1>4 DEF FpAfterFail, LogInv, LogTypeOK
  <2>4. \A q \in Process \ {p} : Still(q)
    BY <1>1, <1>4, LeftFits DEF LogInv, LogTypeOK, Still
  <2>5. pc'[p] \in {"idle", "out"} /\ (pc'[p] # "idle" => left'[p] >= 1)
    BY <1>1, <1>4, LeftFits
  <2>6. ProcInv(p)'
    BY <2>3, <2>5
       DEF ProcInv, StringInv, SpanInv, ForwardInv, NewestInv, PioneerInv, WithFile
  <2> QED BY <2>1, <2>2, <2>4, <2>6, StillInv
<1> QED BY <1>2, <1>3, <1>4 DEF OpenFile

LEMMA ScanStep ==
  ASSUME LogInv, NEW p \in Process, Scan(p) PROVE LogInv'
<1> DEFINE older == {f \in files : f < log_fp[p]}
<1>1. /\ pc[p] = "scan" /\ pc' = [pc EXCEPT ![p] = "remove"]
      /\ pioneer' = [pioneer EXCEPT
           ![p] = IF TooMany(Cardinality(older)) THEN Oldest(older) ELSE None]
      /\ UNCHANGED <<now, files, left, c_time, log_fp, open, deadline, upset>>
  BY DEF Scan, Goto, record
<1>2. files \in SUBSET Time /\ older \in SUBSET Time /\ older \in SUBSET Nat
  BY TimeNat DEF LogInv, LogTypeOK
<1>3. Cardinality(older) \in Nat /\ IsFiniteSet(older) BY <1>2, FilesFinite
<1>4. log_fp[p] \in Nat /\ log_fp[p] # None BY <1>1, TypedAt DEF StringInv
<1>5. ASSUME TooMany(Cardinality(older))
      PROVE  /\ Oldest(older) \in older /\ (\A g \in files : Oldest(older) <= g)
             /\ Cardinality(older) >= MaxFiles
  <2>1. Cardinality(older) >= MaxFiles /\ Cardinality(older) # 0
    BY <1>3, <1>5, LogAssumption DEF TooMany
  <2>2. older # {} BY <2>1, FS_EmptySet
  <2> HIDE DEF older
  <2>3. Oldest(older) \in older /\ \A g \in older : Oldest(older) <= g
    BY <1>2, <2>2, EarliestIsLeast DEF Oldest
  <2>4. ASSUME NEW g \in files, g \notin older PROVE Oldest(older) <= g
    <3>1. g \in Nat /\ ~(g < log_fp[p]) BY <1>2, <2>4, TimeNat DEF older
    <3>2. Oldest(older) \in Nat /\ Oldest(older) < log_fp[p] BY <1>2, <2>3 DEF older
    <3> QED BY <1>4, <3>1, <3>2
  <2> QED BY <2>1, <2>3, <2>4
<1>6. LogTypeOK' /\ deadline' \in [Process -> Nat]
  <2>1. pioneer' \in [Process -> Time \cup {None}]
    BY <1>1, <1>2, <1>5 DEF LogInv, LogTypeOK
  <2> QED BY <1>1, <2>1 DEF LogInv, LogTypeOK
<1>7. pc'[p] = "remove" /\ \A q \in Process \ {p} : Still(q)
  BY <1>1 DEF LogInv, LogTypeOK, Still
<1>8. Onward /\ MoreFiles BY <1>1, TypedAt DEF Onward, MoreFiles
<1>9. StringInv(p)' /\ SpanInv(p)' /\ ForwardInv(p)'
  BY <1>1, <1>7, TypedAt DEF StringInv, SpanInv, ForwardInv, WithFile, Forward
<1>9a. NewestInv(p)'
  <2>1. ASSUME pioneer'[p] # None PROVE pioneer'[p] < log_fp[p]
    <3>1. TooMany(Cardinality(older)) /\ pioneer'[p] = Oldest(older)
      BY <1>1, <2>1 DEF LogInv, LogTypeOK
    <3>2. Oldest(older) \in older BY <1>5, <3>1
    <3> QED BY <3>1, <3>2
  <2> QED BY <1>1, <2>1, TypedAt DEF NewestInv
<1>10. PioneerInv(p)'
  <2> SUFFICES ASSUME InOrder, pioneer'[p] # None
               PROVE  /\ \A g \in files : pioneer'[p] <= g
                      /\ Cardinality({g \in files : g > pioneer'[p]}) >= MaxFiles
    BY <1>1, <1>7 DEF PioneerInv, InOrder, Later
  <2>1. TooMany(Cardinality(older)) /\ pioneer'[p] = Oldest(older)
    BY <1>1 DEF LogInv, LogTypeOK
  <2> PICK x : x = Oldest(older) OBVIOUS
  <2>2. x \in older /\ (\A g \in files : x <= g) /\ Cardinality(older) >= MaxFiles
    BY <1>5, <2>1
  <2>3. log_fp[p] \in files
    <3>1. log_fp[p] \in files \/ \A g \in files : log_fp[p] <= g
      BY <1>1, TypedAt DEF PioneerInv
    <3>2. x \in files /\ x \in Nat /\ x < log_fp[p] BY <1>2, <2>2
    <3> QED BY <1>4, <3>1, <3>2
  <2> DEFINE L == {g \in files : g > x}
             B == older \ {x}
  <2>4. B \cup {log_fp[p]} \in SUBSET L
    <3>1. ASSUME NEW g \in B PROVE g > x
      <4>1. g \in Nat /\ x \in Nat /\ x <= g /\ g # x BY <1>2, <2>2
      <4> QED BY <4>1
    <3>2. log_fp[p] > x BY <1>2, <1>4, <2>2
    <3> QED BY <2>3, <3>1, <3>2
  <2>5. Cardinality(older) = Cardinality(B) + 1 BY <1>2, <2>2, OneFile
  <2>6. log_fp[p] \notin B BY <1>4
  <2>7. IsFiniteSet(B) /\ Cardinality(B) \in Nat BY <1>2, FilesFinite
  <2> HIDE DEF B
  <2>8. Cardinality(B \cup {log_fp[p]}) = Cardinality(B) + 1 BY <2>6, <2>7, FS_AddElement
  <2>9. L \in SUBSET Time BY <1>2
  <2> HIDE DEF L
  <2>10. Cardinality(B \cup {log_fp[p]}) <= Cardinality(L) /\ Cardinality(L) \in Nat
    BY <2>4, <2>9, FewerFiles, FilesFinite
  <2> HIDE DEF older
  <2>11. Cardinality(L) >= MaxFiles BY <1>3, <2>2, <2>5, <2>7, <2>8, <2>10, LogAssumption
  <2> QED BY <2>1, <2>2, <2>11 DEF older, L
<1> QED BY <1>6, <1>7, <1>8, <1>9, <1>9a, <1>10, StillInv DEF ProcInv

(* Removing the earliest file takes nothing away from what others have     *)
(* found.                                                                  *)
LEMMA RemoveStep ==
  ASSUME LogInv, NEW p \in Process, RemoveOldest(p) PROVE LogInv'
<1>1. /\ pc[p] = "remove" /\ pc' = [pc EXCEPT ![p] = "put"]
      /\ files' = files \ {pioneer[p]}
      /\ pioneer' = [pioneer EXCEPT ![p] = None]
      /\ UNCHANGED <<now, left, c_time, log_fp, open, deadline, upset>>
  BY DEF RemoveOldest, Goto, record
<1>2. LogTypeOK' /\ deadline' \in [Process -> Nat] BY <1>1 DEF LogInv, LogTypeOK
<1>3. pc'[p] = "put" /\ \A q \in Process \ {p} : Still(q)
  BY <1>1 DEF LogInv, LogTypeOK, Still
<1>4. Onward /\ now' \in Time BY <1>1, TypedAt DEF Onward
<1>5. StringInv(p)' /\ SpanInv(p)' /\ ForwardInv(p)' /\ PioneerInv(p)'
  BY <1>1, <1>3, TypedAt DEF StringInv, SpanInv, ForwardInv, PioneerInv, WithFile, Forward
<1>5a. ASSUME NEW q \in Process PROVE NewestInv(q)'
  <2>1. pc'[q] = "remove" => pc[q] = "remove" /\ pioneer'[q] = pioneer[q]
    BY <1>1 DEF LogInv, LogTypeOK
  <2>2. ASSUME log_fp[q] # None PROVE \E g \in files' : log_fp[q] <= g
    <3>1. PICK g \in files : log_fp[q] <= g BY <2>2, TypedAt DEF NewestInv
    <3>2. g \in Nat /\ log_fp[q] \in Nat BY <2>2, TimeNat, TypedAt DEF LogInv, LogTypeOK
    <3>3. CASE g # pioneer[p] BY <1>1, <3>1, <3>3
    <3>4. CASE g = pioneer[p]
      <4>1. g # None BY <3>2 DEF None
      <4>2. log_fp[p] # None /\ g < log_fp[p] BY <1>1, <3>4, <4>1, TypedAt DEF NewestInv, StringInv
      <4>3. PICK k \in files : log_fp[p] <= k BY <4>2, TypedAt DEF NewestInv
      <4>4. k \in Nat /\ log_fp[p] \in Nat BY <4>2, TimeNat, TypedAt DEF LogInv, LogTypeOK
      <4>5. k # pioneer[p] /\ log_fp[q] <= k BY <3>1, <3>2, <3>4, <4>2, <4>3, <4>4
      <4> QED BY <1>1, <4>5
    <3> QED BY <3>3, <3>4
  <2> QED BY <1>1, <2>1, <2>2, TypedAt DEF NewestInv
<1>6. ASSUME NEW q \in Process \ {p} PROVE PioneerInv(q)'
  <2> SUFFICES ASSUME InOrder PROVE PioneerInv(q)'
    BY <1>1 DEF PioneerInv, InOrder
  <2>1. Still(q) /\ PioneerInv(q) /\ PioneerInv(p) BY <1>3, TypedAt
  <2>2. files \in SUBSET Time /\ \A g \in files : g \in Nat
    BY TimeNat DEF LogInv, LogTypeOK
  <2>3. CASE pioneer[p] \notin files
    <3>1. MoreFiles BY <1>1, <2>3 DEF MoreFiles
    <3> QED BY <1>4, <3>1, <2>1, StillPioneer
  <2>4. CASE pioneer[p] \in files
    <3>1. pioneer[p] # None BY <2>2, <2>4 DEF None
    <3>2. \A g \in files : pioneer[p] <= g BY <1>1, <2>1, <3>1 DEF PioneerInv
    <3>3. CASE pc[q] = "scan"
      BY <1>1, <2>1, <3>2, <3>3 DEF PioneerInv, Still
    <3>4. CASE pc[q] = "remove" /\ pioneer[q] # None
      <4>1. \A g \in files : pioneer[q] <= g
        BY <2>1, <3>4 DEF PioneerInv
      <4>2. pioneer[q] \in Nat /\ pioneer[p] \in Nat BY <2>2, <2>4, <3>4, TypedAt
      <4>3. pioneer[q] \in files => pioneer[q] = pioneer[p]
        BY <2>4, <3>2, <4>1, <4>2
      <4>4. pioneer[q] \notin files' /\ \A g \in files' : g \in files BY <1>1, <4>3
      <4>5. pioneer'[q] = pioneer[q] /\ log_fp'[q] = log_fp[q] BY <2>1 DEF Still
      <4>6. pc'[q] # "scan" BY <2>1, <3>4 DEF Still
      <4> QED BY <4>1, <4>4, <4>5, <4>6 DEF PioneerInv
    <3> QED BY <2>1, <3>3, <3>4 DEF PioneerInv, Still
  <2> QED BY <2>3, <2>4
<1>7. ASSUME NEW q \in Process \ {p} PROVE StringInv(q)' /\ SpanInv(q)' /\ ForwardInv(q)'
  BY <1>3, <1>4, TypedAt, StillString, StillSpan, StillForward
<1> QED BY <1>2, <1>5, <1>5a, <1>6, <1>7 DEF LogInv, ProcInv

LEMMA PutStep ==
  ASSUME LogInv, NEW p \in Process, Put(p) PROVE LogInv'
<1>1. /\ pc[p] = "put" /\ StringDone(p)
      /\ UNCHANGED <<now, files, c_time, log_fp, open, deadline, pioneer, upset>>
  BY DEF Put, record
<1>2. LogTypeOK' /\ deadline' \in [Process -> Nat]
  BY <1>1, LeftFits DEF LogInv, LogTypeOK
<1>3. \A q \in Process \ {p} : Still(q) BY <1>1, LeftFits DEF Still
<1>4. Onward /\ MoreFiles BY <1>1, TypedAt DEF Onward, MoreFiles
<1>5. pc'[p] \in {"idle", "out"} /\ (pc'[p] # "idle" => left'[p] >= 1)
  BY <1>1, LeftFits
<1>6. ProcInv(p)'
  BY <1>1, <1>5, TypedAt
     DEF ProcInv, StringInv, SpanInv, ForwardInv, NewestInv, PioneerInv, WithFile, Forward
<1> QED BY <1>2, <1>3, <1>4, <1>6, StillInv

LEMMA NewRunStep ==
  ASSUME LogInv, NEW p \in Process, NewRun(p), pc' \in [Process -> {"idle"} \cup {pc[q] : q \in Process}],
         pc'[p] = "idle", \A q \in Process \ {p} : pc'[q] = pc[q],
         left' = left \/ left' = [left EXCEPT ![p] = 0],
         pioneer' = pioneer \/ pioneer' = [pioneer EXCEPT ![p] = None],
         upset \subseteq upset', upset' \subseteq Upset
  PROVE  LogInv'
<1>1. LogTypeOK' /\ deadline' \in [Process -> Nat]
  <2>1. left' \in [Process -> 0 .. 2] BY DEF LogInv, LogTypeOK
  <2>2. pioneer' \in [Process -> Time \cup {None}] BY DEF LogInv, LogTypeOK
  <2>3. pc' \in [Process -> {"idle", "out", "check", "scan", "remove", "put"}]
    BY DEF LogInv, LogTypeOK
  <2>4. log_fp' \in [Process -> Time \cup {None}] /\ open' \in [Process -> BOOLEAN]
    BY DEF NewRun, LogInv, LogTypeOK
  <2>5. deadline' \in [Process -> Nat] BY DEF NewRun, LogInv
  <2> QED BY <2>1, <2>2, <2>3, <2>4, <2>5 DEF NewRun, LogInv, LogTypeOK
<1>2. \A q \in Process \ {p} : Still(q) BY DEF NewRun, Still, LogInv, LogTypeOK
<1>3. Onward /\ MoreFiles BY TypedAt DEF NewRun, Onward, MoreFiles
<1>4. log_fp'[p] = None /\ ~open'[p] BY DEF NewRun, LogInv, LogTypeOK
<1>5. ProcInv(p)'
  BY <1>4 DEF ProcInv, StringInv, SpanInv, ForwardInv, NewestInv, PioneerInv, WithFile
<1> QED BY <1>1, <1>2, <1>3, <1>5, StillInv

LEMMA RunStep ==
  ASSUME LogInv, NEW p \in Process, Restart(p) \/ Kill(p) PROVE LogInv'
<1>1. NewRun(p) BY DEF Restart, Kill
<1>2. /\ pc' \in [Process -> {"idle"} \cup {pc[q] : q \in Process}]
      /\ pc'[p] = "idle" /\ \A q \in Process \ {p} : pc'[q] = pc[q]
  BY DEF Restart, Kill, LogInv, LogTypeOK
<1>3. /\ left' = left \/ left' = [left EXCEPT ![p] = 0]
      /\ pioneer' = pioneer \/ pioneer' = [pioneer EXCEPT ![p] = None]
      /\ upset \subseteq upset' /\ upset' \subseteq Upset
  BY DEF Restart, Kill, LogInv, LogTypeOK, Upset
<1> QED BY <1>1, <1>2, <1>3, NewRunStep

LEMMA LogStep == LogInv /\ [Next]_vars => LogInv'
<1> SUFFICES ASSUME LogInv, [Next]_vars PROVE LogInv'
  OBVIOUS
<1>1. CASE UNCHANGED vars
  BY <1>1 DEF vars, record, LogInv, LogTypeOK, ProcInv, StringInv, SpanInv, ForwardInv,
              NewestInv, PioneerInv, Forward, InOrder, Later
<1> QED BY <1>1, ClockStep, MessageStep, TakeTimeStep, KeepFileStep, OpenFileStep, ScanStep, RemoveStep,
        PutStep, RunStep DEF Next

-----------------------------------------------------------------------------
(* The number of files.                                                    *)

LEMMA CountKept ==
  ASSUME CountInv, upset \subseteq upset', files' = files,
         \A q \in Process : /\ MakesFile(q)' => MakesFile(q)
                            /\ MakesFile(q) => Still(q)
  PROVE  CountInv'
<1> SUFFICES ASSUME upset' \subseteq {"dir", "back"} PROVE CountInv'
  BY DEF CountInv
<1>1. upset \subseteq {"dir", "back"} OBVIOUS
<1>2. \A q \in Process : MakesFile(q) => Still(q) OBVIOUS
<1>3. \A q \in Process : MakesFile(q)' <=> MakesFile(q) BY <1>2 DEF MakesFile, Still
<1>4. ASSUME NEW q \in Process, MakesFile(q)'
      PROVE  /\ \A f \in files : f <= log_fp'[q]
             /\ \A r \in Process \ {q} : ~MakesFile(r)'
             /\ pc'[q] = "scan" => Cardinality(files \ {log_fp'[q]}) <= MaxFiles
             /\ pc'[q] = "remove" => Cardinality(files \ {pioneer'[q]}) <= MaxFiles
  <2>1. MakesFile(q) /\ Still(q) BY <1>2, <1>3, <1>4
  <2>2. pc'[q] = pc[q] /\ log_fp'[q] = log_fp[q] /\ pioneer'[q] = pioneer[q]
    BY <2>1 DEF Still
  <2> QED BY <1>1, <1>3, <2>1, <2>2 DEF CountInv
<1>5. (\A q \in Process : ~MakesFile(q)') => Cardinality(files) <= MaxFiles
  BY <1>1, <1>3 DEF CountInv
<1> QED BY <1>4, <1>5 DEF CountInv

LEMMA CountOpen ==
  ASSUME LogInv, LogInv', CountInv, NEW p \in Process, OpenFile(p)
  PROVE  CountInv'
<1> DEFINE c == c_time[p]
<1>1. now' = now /\ pc[p] = "check" /\ files \in SUBSET Time /\ c \in Time
  BY DEF OpenFile, LogInv, LogTypeOK
<1>2. upset \subseteq upset' BY DEF OpenFile
<1>3. \A q \in Process \ {p} : Still(q)
  BY <1>1, LeftFits DEF OpenFile, Goto, Still, LogInv, LogTypeOK
<1>4. CASE /\ Goto(p, "check", "scan") /\ files' = files \cup {c}
           /\ log_fp' = [log_fp EXCEPT ![p] = c]
           /\ upset' = upset \cup Upsets(p)
  <2> SUFFICES ASSUME upset' \subseteq {"dir", "back"} PROVE CountInv'
    BY DEF CountInv
  <2>1. /\ upset \subseteq {"dir", "back"} /\ "together" \notin Upsets(p)
        /\ "late" \notin Upsets(p)
    BY <1>4
  <2>2. (\A q \in Process \ {p} : ~MakesFile(q)) /\ \A f \in files : ~(f > c)
    BY <2>1 DEF Upsets
  <2>3. ~MakesFile(p) BY <1>1 DEF MakesFile
  <2>4. Cardinality(files) <= MaxFiles BY <2>1, <2>2, <2>3 DEF CountInv
  <2>5. pc'[p] = "scan" /\ log_fp'[p] = c BY <1>4 DEF Goto, LogInv, LogTypeOK
  <2>6. \A q \in Process \ {p} : ~MakesFile(q)' BY <1>3, <2>2 DEF MakesFile, Still
  <2>7. \A f \in files' : f <= c
    <3>1. c \in Nat /\ \A f \in files : f \in Nat BY <1>1, TimeNat
    <3> QED BY <1>4, <2>2, <3>1
  <2>8. Cardinality(files' \ {c}) <= MaxFiles
    <3>1. files' \ {c} \in SUBSET files BY <1>4
    <3>2. Cardinality(files' \ {c}) <= Cardinality(files) BY <1>1, <3>1, FewerFiles
    <3>3. Cardinality(files' \ {c}) \in Nat /\ Cardinality(files) \in Nat
      BY <1>1, <3>1, FilesFinite
    <3> QED BY <2>4, <3>2, <3>3, LogAssumption
  <2>9. MakesFile(p)' BY <2>5 DEF MakesFile
  <2> QED BY <2>5, <2>6, <2>7, <2>8, <2>9 DEF CountInv
<1>5. CASE files' = files /\ StringDone(p)
  <2>1. ~MakesFile(p)' /\ ~MakesFile(p) BY <1>1, <1>5, LeftFits DEF MakesFile
  <2>2. \A q \in Process : /\ MakesFile(q)' => MakesFile(q)
                           /\ MakesFile(q) => Still(q)
    BY <1>3, <2>1 DEF MakesFile, Still
  <2> QED BY <1>2, <1>5, <2>2, CountKept
<1> QED BY <1>4, <1>5 DEF OpenFile

LEMMA CountScan ==
  ASSUME LogInv, CountInv, NEW p \in Process, Scan(p)
  PROVE  CountInv'
<1> DEFINE older == {f \in files : f < log_fp[p]}
<1>1. /\ pc[p] = "scan" /\ pc' = [pc EXCEPT ![p] = "remove"]
      /\ pioneer' = [pioneer EXCEPT
           ![p] = IF TooMany(Cardinality(older)) THEN Oldest(older) ELSE None]
      /\ UNCHANGED <<now, files, log_fp, upset>>
  BY DEF Scan, Goto, record
<1>2. files \in SUBSET Time /\ older \in SUBSET Time /\ older \in SUBSET Nat
  BY TimeNat DEF LogInv, LogTypeOK
<1> SUFFICES ASSUME upset \subseteq {"dir", "back"} PROVE CountInv'
  BY <1>1 DEF CountInv
<1>3. /\ MakesFile(p) /\ (\A f \in files : f <= log_fp[p])
      /\ \A q \in Process \ {p} : ~MakesFile(q)
      /\ Cardinality(files \ {log_fp[p]}) <= MaxFiles
  BY <1>1 DEF CountInv, MakesFile
<1>4. pc'[p] = "remove" /\ \A q \in Process \ {p} : pc'[q] = pc[q]
  BY <1>1 DEF LogInv, LogTypeOK
<1>5. files \ {log_fp[p]} = older
  <2>1. log_fp[p] \in Nat /\ \A f \in files : f \in Nat
    BY <1>1, TypedAt, TimeNat DEF StringInv, LogInv, LogTypeOK
  <2> QED BY <1>3, <2>1
<1>6. Cardinality(files \ {log_fp[p]}) = Cardinality(older) BY <1>5, Zenon
<1>7. Cardinality(files) <= Cardinality(older) + 1
  <2>1. Cardinality(files) = Cardinality(files \ {log_fp[p]}) + 1
        \/ Cardinality(files) = Cardinality(files \ {log_fp[p]})
    <3>1. CASE log_fp[p] \in files BY <1>2, <3>1, OneFile
    <3>2. CASE log_fp[p] \notin files
      <4>1. files \ {log_fp[p]} = files BY <3>2
      <4> QED BY <4>1
    <3> QED BY <3>1, <3>2
  <2>2. Cardinality(older) \in Nat BY <1>2, FilesFinite
  <2> HIDE DEF older
  <2> QED BY <1>6, <2>1, <2>2
<1>8. Cardinality(files) \in Nat /\ Cardinality(older) \in Nat BY <1>2, FilesFinite
<1>9. Cardinality(files \ {pioneer'[p]}) <= MaxFiles
  <2>1. CASE TooMany(Cardinality(older))
    <3>1. pioneer'[p] = Oldest(older) BY <1>1, <2>1 DEF LogInv, LogTypeOK
    <3>2. older # {}
      <4>1. Cardinality(older) # 0 BY <1>8, <2>1, LogAssumption DEF TooMany
      <4> QED BY <4>1, FS_EmptySet
    <3>3. Oldest(older) \in older
      <4> HIDE DEF older
      <4> QED BY <1>2, <3>2, EarliestIsLeast DEF Oldest
    <3>4. pioneer'[p] \in files BY <3>1, <3>3
    <3>5. Cardinality(files) = Cardinality(files \ {pioneer'[p]}) + 1
      BY <1>2, <3>4, OneFile
    <3>6. Cardinality(files \ {pioneer'[p]}) \in Nat
      <4>1. files \ {pioneer'[p]} \in SUBSET Time BY <1>2
      <4> QED BY <4>1, FilesFinite
    <3> HIDE DEF older
    <3> QED BY <1>3, <1>6, <1>7, <1>8, <3>5, <3>6, LogAssumption
  <2>2. CASE ~TooMany(Cardinality(older))
    <3>1. pioneer'[p] = None BY <1>1, <2>2 DEF LogInv, LogTypeOK
    <3>2. files \ {pioneer'[p]} = files
      <4>1. None \notin Time BY TimeNat DEF None
      <4> QED BY <1>2, <3>1, <4>1
    <3> HIDE DEF older
    <3>3. Cardinality(files) <= MaxFiles
      BY <1>7, <1>8, <2>2, LogAssumption DEF TooMany
    <3> QED BY <3>2, <3>3
  <2> QED BY <2>1, <2>2
<1>10. MakesFile(p)' /\ \A q \in Process \ {p} : ~MakesFile(q)'
  BY <1>3, <1>4 DEF MakesFile
<1> QED BY <1>1, <1>3, <1>4, <1>9, <1>10 DEF CountInv

LEMMA CountRemove ==
  ASSUME LogInv, CountInv, NEW p \in Process, RemoveOldest(p)
  PROVE  CountInv'
<1>1. /\ pc[p] = "remove" /\ pc' = [pc EXCEPT ![p] = "put"]
      /\ files' = files \ {pioneer[p]}
      /\ UNCHANGED <<now, upset>>
  BY DEF RemoveOldest, Goto, record
<1> SUFFICES ASSUME upset \subseteq {"dir", "back"} PROVE CountInv'
  BY <1>1 DEF CountInv
<1>2. /\ \A q \in Process \ {p} : ~MakesFile(q)
      /\ Cardinality(files \ {pioneer[p]}) <= MaxFiles
  BY <1>1 DEF CountInv, MakesFile
<1>3. \A q \in Process : ~MakesFile(q)'
  BY <1>1, <1>2 DEF MakesFile, LogInv, LogTypeOK
<1> QED BY <1>1, <1>2, <1>3 DEF CountInv

LEMMA CountStep ==
  ASSUME LogInv, LogInv', CountInv, [Next]_vars
  PROVE  CountInv'
<1>1. CASE UNCHANGED vars BY <1>1 DEF vars, record, CountInv, MakesFile
<1>3. CASE Clock
  <2>1. upset \subseteq upset' /\ files' = files BY <1>3 DEF Clock
  <2>2. \A q \in Process : Still(q) /\ (MakesFile(q)' => MakesFile(q))
    BY <1>3 DEF Clock, record, Still, MakesFile
  <2> QED BY <2>1, <2>2, CountKept
<1>4. ASSUME NEW p \in Process, Message(p) \/ TakeTime(p) \/ KeepFile(p) \/ Put(p) \/ Restart(p)
      PROVE  CountInv'
  <2>1. UNCHANGED <<now, files, upset>>
    BY <1>4 DEF Message, TakeTime, KeepFile, Put, Restart, NewRun
  <2>2. ~MakesFile(p) /\ ~MakesFile(p)'
    BY <1>4, LeftFits
       DEF Message, TakeTime, KeepFile, Put, Restart, Goto, MakesFile, LogInv, LogTypeOK
  <2>3. \A q \in Process \ {p} : Still(q)
    <3>1. CASE Put(p)
      <4>1. \A q \in Process \ {p} : pc'[q] = pc[q] /\ left'[q] = left[q]
        BY <3>1, LeftFits DEF Put
      <4> QED BY <3>1, <4>1 DEF Put, record, Still
    <3>2. CASE Message(p) BY <3>2 DEF Message, Goto, record, Still, LogInv, LogTypeOK
    <3>2a. CASE TakeTime(p) BY <3>2a DEF TakeTime, Goto, record, Still, LogInv, LogTypeOK
    <3>3. CASE KeepFile(p) BY <3>3 DEF KeepFile, Goto, record, Still, LogInv, LogTypeOK
    <3>4. CASE Restart(p) BY <3>4 DEF Restart, NewRun, Still, LogInv, LogTypeOK
    <3> QED BY <1>4, <3>1, <3>2, <3>2a, <3>3, <3>4
  <2>5. \A q \in Process : /\ MakesFile(q)' => MakesFile(q)
                           /\ MakesFile(q) => Still(q)
    BY <2>2, <2>3 DEF MakesFile, Still
  <2> QED BY <2>1, <2>5, CountKept
<1>5. ASSUME NEW p \in Process, Kill(p) PROVE CountInv' BY <1>5 DEF Kill, CountInv
<1> QED BY <1>1, <1>3, <1>4, <1>5, CountOpen, CountScan, CountRemove DEF Next

-----------------------------------------------------------------------------
(* The invariant holds of every behaviour.                                 *)
THEOREM LogInvariant == Spec => []LogInv
BY LogInit, LogStep, PTL DEF Spec

(* Every variable of the log stays in its domain.                          *)
THEOREM LogTypeCorrect == Spec => []LogTypeOK
<1>1. LogInv => LogTypeOK BY DEF LogInv
<1> QED BY <1>1, LogInvariant, PTL

(* No string is put in a file made more than the interval before its time, *)
(* nor, as long as the clock goes forward, in one made after it, for any   *)
(* number of processes, failures and kills.                                *)
THEOREM FilesSpan == Spec => []FileSpan
<1>1. LogInv => FileSpan
  BY DEF LogInv, ProcInv, SpanInv, ForwardInv, Forward, WithFile, FileSpan
<1> QED BY <1>1, LogInvariant, PTL

(* log_fp is an open file or NULL, and a string is only put in an open     *)
(* file, unless the directory was lost after the old file was closed.      *)
THEOREM FpIsOpenOrNull == Spec => []FpIsOpen
<1>1. LogInv => FpIsOpen
  BY DEF LogInv, ProcInv, StringInv, ForwardInv, Forward, WithFile, FpIsOpen
<1> QED BY <1>1, LogInvariant, PTL

LEMMA RemovedFile ==
  ASSUME LogInv, Next, NEW f \in files \ files'
  PROVE  /\ InOrder => /\ \A g \in files : f <= g
                       /\ Cardinality({g \in files : g > f}) >= MaxFiles
         /\ \E g \in files' : f < g
<1>1. PICK p \in Process : RemoveOldest(p)
  BY DEF Next, Clock, Message, TakeTime, KeepFile, OpenFile, Scan, Put, Restart, Kill, NewRun
<1>2. pc[p] = "remove" /\ f = pioneer[p] /\ files' = files \ {f}
  BY <1>1 DEF RemoveOldest, Goto
<1>3. f # None /\ f \in Nat BY TimeNat DEF LogInv, LogTypeOK, None
<1>4. f < log_fp[p] /\ log_fp[p] # None
  BY <1>2, <1>3, TypedAt DEF NewestInv, StringInv
<1>5. PICK g \in files : log_fp[p] <= g BY <1>4, TypedAt DEF NewestInv
<1>6. f < g /\ g # f
  <2>1. g \in Nat /\ log_fp[p] \in Nat BY <1>4, TimeNat, TypedAt DEF LogInv, LogTypeOK
  <2> QED BY <1>3, <1>4, <1>5, <2>1
<1> QED BY <1>2, <1>3, <1>5, <1>6 DEF LogInv, ProcInv, PioneerInv, Later

(* What is removed is the earliest of all files, as long as each new file  *)
(* has the latest name.                                                    *)
THEOREM OldestIsRemoved == Spec => OldestGoes
<1>1. LogInv /\ [Next]_vars =>
        [\A f \in files \ files' : "late" \in upset \/ \A g \in files : f <= g]_vars
  BY RemovedFile DEF InOrder
<1> QED BY <1>1, LogInvariant, PTL DEF Spec, OldestGoes

(* Whoever removes a log leaves a later one, for any number of processes,  *)
(* wherever they are held up, fail or are killed and the clock is set.     *)
THEOREM NewestIsKept == Spec => NewestStays
<1>1. LogInv /\ [Next]_vars => [\A f \in files \ files' : \E g \in files' : f < g]_vars
  BY RemovedFile
<1> QED BY <1>1, LogInvariant, PTL DEF Spec, NewestStays

(* A file that a process still has open goes only when there are MaxFiles  *)
(* later ones, as long as each new file has the latest name.               *)
THEOREM OpenFilesStay == Spec => OpenIsKept
<1>1. LogInv /\ [Next]_vars =>
        [\A p \in Process :
           open[p] /\ log_fp[p] \in files \ files' /\ "late" \notin upset =>
             Cardinality({g \in files : g > log_fp[p]}) >= MaxFiles]_vars
  BY RemovedFile DEF InOrder
<1> QED BY <1>1, LogInvariant, PTL DEF Spec, OpenIsKept

(* From a directory with at most MaxFiles files there are never more while *)
(* nobody makes one, for any number of processes, as long as each new file *)
(* has the latest name, no process is killed within a message and no two   *)
(* make a file at the same time.                                           *)
THEOREM FilesAreFew == ASSUME CleanStart PROVE Spec => []AtMostFiles
<1>1. Init => LogInv /\ CountInv BY LogInit, CountInit
<1>2. LogInv /\ CountInv /\ [Next]_vars => (LogInv /\ CountInv)'
  BY LogStep, CountStep
<1>3. LogInv /\ CountInv => AtMostFiles BY DEF CountInv, AtMostFiles
<1> QED BY <1>1, <1>2, <1>3, PTL DEF Spec

-----------------------------------------------------------------------------
(* THE COMMAND LINE.  The widths of the program's numbers.                 *)

LEMMA Widths ==
  /\ U32 \in Nat /\ U32 >= 4 /\ U32 > WrBufMax
  /\ U32 \div 2 \in Nat /\ U32 \div 2 >= 1 /\ U32 \div 2 < U32
<1>1. U16 \in Nat /\ U16 >= 2 /\ WrBufMax < U16 /\ WrBufMax \in Nat
  BY CliAssumption
<1>2. U32 \in Nat /\ U32 >= 2 * U16
  BY <1>1 DEF U32
<1>3. U32 \in Nat /\ U32 >= 4 /\ U32 > WrBufMax
  BY <1>1, <1>2
<1> QED
  BY <1>3

(* The last of the tests that hold.                                        *)
LEMMA LastTest ==
  ASSUME NEW n \in Nat, NEW S \in SUBSET (1 .. n), S # {}
  PROVE  \E i \in S : \A j \in S : j <= i
<1> DEFINE T == {n - e : e \in S}
<1>1. T \subseteq Nat /\ T # {}
  <2>1. \A e \in S : n - e \in Nat
    OBVIOUS
  <2>2. PICK e \in S : TRUE
    OBVIOUS
  <2>3. n - e \in T
    BY <2>2
  <2> QED
    BY <2>1, <2>3
<1> HIDE DEF T
<1>2. PICK m \in T : \A k \in T : <<k, m>> \notin OpToRel(<, Nat)
  BY <1>1, NatLessThanWellFounded, WFMin
<1>3. PICK i \in S : m = n - i
  BY <1>2 DEF T
<1>4. ASSUME NEW j \in S PROVE j <= i
  <2>1. n - j \in T /\ n - j \in Nat /\ m \in Nat
    BY <1>1, <1>2 DEF T
  <2>2. ~(n - j < m)
    BY <1>2, <2>1 DEF OpToRel
  <2> QED
    BY <1>3, <2>1, <2>2
<1> QED
  BY <1>4

(* The tests of other_argparse_parse: every option but asc, test and info  *)
(* has one, and "rw" and "date" are the first and the last.                *)
LEMMA TestsOfMode ==
  /\ DOMAIN ModeOrder = 1 .. 17
  /\ \A i \in 1 .. 17 : ModeOrder[i].mode \notin {"online", "info"} /\ ModeOrder[i].by \subseteq Option
  /\ ModeOrder[1].by = {"write", "read"} /\ ModeOrder[17].by = {"date"}
  /\ \A i \in 1 .. 17 : (ModeOrder[i].mode = "rw" <=> i = 1) /\ (ModeOrder[i].mode = "date" <=> i = 17)
  /\ \A o \in Option \ {"asc", "test", "info"} : \E i \in 1 .. 17 : o \in ModeOrder[i].by
<1>1. DOMAIN ModeOrder = 1 .. 17
  BY DEF ModeOrder
<1>2. \A i \in 1 .. 17 : ModeOrder[i].mode \notin {"online", "info"}
  BY DEF ModeOrder
<1>3. \A i \in 1 .. 17 : ModeOrder[i].by \subseteq Option
  BY DEF ModeOrder, Option, Flag, Path, Number
<1>4. ModeOrder[1].by = {"write", "read"} /\ ModeOrder[17].by = {"date"}
  BY DEF ModeOrder
<1>5. \A i \in 1 .. 17 : (ModeOrder[i].mode = "rw" <=> i = 1) /\ (ModeOrder[i].mode = "date" <=> i = 17)
  BY DEF ModeOrder
<1>6. ASSUME NEW o \in Option \ {"asc", "test", "info"} PROVE \E i \in 1 .. 17 : o \in ModeOrder[i].by
  BY DEF ModeOrder, Option, Flag, Path, Number
<1> QED
  BY <1>1, <1>2, <1>3, <1>4, <1>5, <1>6

(* How often an option is in a token.                                      *)
LEMMA Counts ==
  ASSUME NEW opts \in Seq(Option), NEW o
  PROVE  Count(opts, o) \in Nat /\ (Count(opts, o) > 0 <=> o \in ToSet(opts))
<1> DEFINE I == {i \in DOMAIN opts : opts[i] = o}
<1>1. IsFiniteSet(I)
  <2>1. DOMAIN opts = 1 .. Len(opts) /\ IsFiniteSet(1 .. Len(opts))
    BY FS_Interval
  <2> QED
    BY <2>1, FS_Subset
<1>2. I # {} <=> o \in ToSet(opts)
  BY DEF ToSet
<1>3. Cardinality(I) \in Nat /\ (Cardinality(I) = 0 <=> I = {})
  BY <1>1, FS_CardinalityType, FS_EmptySet
<1>4. Count(opts, o) = Cardinality(I)
  BY DEF Count
<1> HIDE DEF I
<1> QED
  BY <1>2, <1>3, <1>4

-----------------------------------------------------------------------------
(* The invariant: a variable of an option has left its initial value only  *)
(* if the option was typed, nothing is left for the next option, and what  *)
(* was chosen still follows from the options and the words.                *)

ParseInv ==
  /\ \A o \in Flag : val[o] > 0 <=> o \in typed
  /\ \A o \in Path \cap typed : val[o] = 1
  /\ \A o \in Option \ Flag : Given(o) => o \in typed
  /\ ~valued => optvalue = NoWord

AfterCheck == {"init", "run", "done", "no bus"}

CheckInv ==
  stage \in AfterCheck =>
    /\ ~(Given("write") /\ Given("read")) /\ ~(Pair /\ PairBad) /\ ~(Given("date") /\ DateBad)
    /\ mode = Chosen
    /\ reg_cnt = IF ~Pair THEN 0 ELSE IF Counted THEN out[2].int % U16 ELSE out[2].bytes
    /\ data = IF Given("date") THEN DateBytes
              ELSE IF Pair /\ ~Counted THEN out[2].bytes ELSE 0

CliInv == CliTypeOK /\ ParseInv /\ CheckInv

LEMMA CliInvInit == CliInit => CliInv
<1> SUFFICES ASSUME CliInit PROVE CliInv
  OBVIOUS
<1> USE DEF CliInit
<1>1. \A o \in Option : val[o] = Default(o)
  OBVIOUS
<1>2. \A o \in Option : ValTypeOK(o)
  BY <1>1, Widths DEF ValTypeOK, Default, Flag
<1>3. CliTypeOK
  <2>1. argv \in Seq(Token) /\ out \in Seq(Word)
    BY CliAssumption
  <2>2. 0 \in 0 .. U16 - 1 /\ 0 \in 0 .. Greater(WrBufMax, DateBytes)
    BY CliAssumption DEF Greater
  <2>3. /\ stage = "parse" /\ optvalue \in Word \cup {NoWord} /\ mode = "online"
        /\ DOMAIN val = Option /\ typed \subseteq Option /\ valued \in BOOLEAN
    OBVIOUS
  <2>4. reg_cnt \in 0 .. U16 - 1 /\ data \in 0 .. Greater(WrBufMax, DateBytes)
    BY <2>2
  <2>5. tried \in Nat /\ failed \in 0 .. tried /\ result \in {0, -1}
    OBVIOUS
  <2> QED
    BY <1>2, <2>1, <2>3, <2>4, <2>5, Zenon DEF CliTypeOK
<1>4. ParseInv
  BY <1>1 DEF ParseInv, Given, Default, Option, Flag, Path
<1>5. CheckInv
  BY DEF CheckInv, AfterCheck
<1> QED
  BY <1>3, <1>4, <1>5 DEF CliInv

(* Steps after the parser: nothing that was parsed changes.                *)
LEMMA ParsedKept ==
  ASSUME CliInv, UNCHANGED <<optvalue, val, typed, valued>>
  PROVE  ParseInv' /\ (\A o \in Option : ValTypeOK(o)' <=> ValTypeOK(o))
BY DEF CliInv, ParseInv, Given, ValTypeOK

(* The mode that is chosen is one of the modes.                            *)
LEMMA ModeChosen ==
  \/ Chosen = "info" /\ Given("info")
  \/ Chosen = "online" /\ ~Given("info") /\ Holding = {}
  \/ \E i \in Holding : Chosen = ModeOrder[i].mode /\ \A j \in Holding : j <= i
<1>1. CASE Given("info")
  BY <1>1 DEF Chosen
<1>2. CASE ~Given("info") /\ Holding = {}
  BY <1>2 DEF Chosen
<1>3. CASE ~Given("info") /\ Holding # {}
  <2>1. Holding \in SUBSET (1 .. 17)
    BY TestsOfMode DEF Holding
  <2>2. \E i \in Holding : \A j \in Holding : j <= i
    BY <1>3, <2>1, LastTest
  <2> QED
    BY <1>3, <2>2 DEF Chosen
<1> QED
  BY <1>1, <1>2, <1>3

LEMMA CheckStep == ASSUME CliInv, Check PROVE CliInv'
<1>1. ParseInv' /\ (\A o \in Option : ValTypeOK(o)')
  BY ParsedKept DEF Check, line, CliInv, CliTypeOK
<1>2. CASE stage' = "help" /\ UNCHANGED config
  <2>1. CliTypeOK'
    BY <1>1, <1>2 DEF Check, config, access, line, CliInv, CliTypeOK
  <2> QED
    BY <1>1, <1>2, <2>1 DEF CliInv, CheckInv, AfterCheck
<1>3. CASE stage' # "help"
  <2>1. /\ ~(Given("write") /\ Given("read")) /\ ~(Pair /\ PairBad) /\ ~(Given("date") /\ DateBad)
        /\ stage' = "init" /\ mode' = Chosen
        /\ reg_cnt' = IF ~Pair THEN 0 ELSE IF Counted THEN out[2].int % U16 ELSE out[2].bytes
        /\ data' = IF Given("date") THEN DateBytes
                   ELSE IF Pair /\ ~Counted THEN out[2].bytes ELSE 0
        /\ UNCHANGED <<argv, out, optvalue, val, tried, failed, result, typed, valued>>
    BY <1>3 DEF Check, access, line
  <2>2. reg_cnt' \in 0 .. U16 - 1 /\ data' \in 0 .. Greater(WrBufMax, DateBytes)
    <3>1. Pair => Len(out) = 2 /\ out[2] \in Word
      <4>1. out \in Seq(Word)
        BY DEF CliInv, CliTypeOK
      <4>2. Pair => Len(out) = 2
        BY <2>1, Zenon DEF PairBad
      <4> QED
        BY <4>1, <4>2
    <3>2. Pair /\ Counted => out[2].int % U16 \in 0 .. U16 - 1
      BY <3>1, CliAssumption DEF Word
    <3>3. Pair /\ ~Counted => out[2].bytes \in 0 .. WrBufMax
      BY <2>1 DEF PairBad
    <3> QED
      BY <2>1, <3>2, <3>3, CliAssumption DEF Greater
  <2>3. mode' \in {"online", "info"} \cup {ModeOrder[i].mode : i \in DOMAIN ModeOrder}
    BY <2>1, ModeChosen DEF Holding
  <2>4. CliTypeOK'
    BY <1>1, <2>1, <2>2, <2>3 DEF CliInv, CliTypeOK
  <2>5. CheckInv'
    BY <2>1 DEF CheckInv, Given, Pair, PairBad, DateBad, Counted, Chosen, Holding
  <2> QED
    BY <1>1, <2>4, <2>5 DEF CliInv
<1> QED
  BY <1>2, <1>3 DEF Check

(* After the checks nothing they are about changes.                        *)
LEMMA ModeStep == ASSUME CliInv, InitBus \/ Access \/ Other PROVE CliInv'
<1>1. /\ stage \in AfterCheck /\ stage' \in AfterCheck
      /\ UNCHANGED <<argv, out, optvalue, val, mode, reg_cnt, data, typed, valued>>
  BY DEF InitBus, Access, Other, Exit, AfterCheck, config, line
<1>2. ParseInv' /\ (\A o \in Option : ValTypeOK(o)')
  BY <1>1, ParsedKept DEF CliInv, CliTypeOK
<1>3. tried' \in Nat /\ failed' \in 0 .. tried' /\ result' \in {0, -1}
  <2>1. tried \in Nat /\ failed \in 0 .. tried /\ result \in {0, -1}
    BY DEF CliInv, CliTypeOK
  <2>2. CASE InitBus \/ Other
    BY <2>1, <2>2 DEF InitBus, Other, Exit, access
  <2>3. CASE Access
    <3>1. /\ tried' = tried + 1 /\ failed' \in {failed, failed + 1}
          /\ result' \in {0, -1}
      BY <2>3, Zenon DEF Access
    <3> QED
      BY <2>1, <3>1
  <2> QED
    BY <2>2, <2>3
<1>4. CliTypeOK'
  BY <1>1, <1>2, <1>3 DEF CliInv, CliTypeOK, AfterCheck
<1>5. CheckInv'
  BY <1>1 DEF CliInv, CheckInv, Given, Pair, PairBad, DateBad, Counted, Chosen, Holding
<1> QED
  BY <1>2, <1>4, <1>5 DEF CliInv

(* Steps of the parser that leave the options alone.                       *)
LEMMA WordsStep ==
  ASSUME CliInv, ParseEnd \/ ParseWord \/ ParseRest \/ ParseExit PROVE CliInv'
<1>1. /\ stage = "parse" /\ stage' \in {"parse", "check", "error", "help"}
      /\ UNCHANGED <<optvalue, val, mode, reg_cnt, data, tried, failed, result, typed, valued>>
  BY DEF ParseEnd, ParseWord, ParseRest, ParseExit, Exit, At, config, access, line
<1>2. ParseInv' /\ (\A o \in Option : ValTypeOK(o)')
  BY <1>1, ParsedKept DEF CliInv, CliTypeOK
<1>3. argv' \in Seq(Token) /\ out' \in Seq(Word)
  <2>1. argv \in Seq(Token) /\ out \in Seq(Word)
    BY DEF CliInv, CliTypeOK
  <2>2. CASE ParseEnd \/ ParseExit
    BY <2>1, <2>2 DEF ParseEnd, ParseExit, Exit
  <2>3. CASE ParseWord
    <3>1. argv # <<>> /\ Head(argv).form = "word" /\ Head(argv) \in Token
      BY <2>1, <2>3 DEF ParseWord, At
    <3>2. Head(argv).word \in Word
      BY <3>1 DEF Token
    <3> QED
      BY <2>1, <2>3, <3>1, <3>2 DEF ParseWord
  <2>4. CASE ParseRest
    <3>1. \A t \in Token : AsWord(t) \in Word
      BY DEF AsWord, Dashed, Word, Token
    <3> DEFINE rest == [i \in 1 .. Len(argv) - 1 |-> AsWord(argv[i + 1])]
    <3>2. argv # <<>> /\ Len(argv) - 1 \in Nat
      BY <2>1, <2>4 DEF ParseRest, At
    <3>3. \A i \in 1 .. Len(argv) - 1 : argv[i + 1] \in Token
      BY <2>1
    <3>4. rest \in Seq(Word)
      BY <3>1, <3>2, <3>3
    <3> HIDE DEF rest
    <3>5. out' = out \o rest /\ argv' = <<>>
      BY <2>4 DEF ParseRest, rest
    <3> QED
      BY <2>1, <3>4, <3>5
  <2> QED
    BY <2>2, <2>3, <2>4
<1>4. CliTypeOK'
  BY <1>1, <1>2, <1>3 DEF CliInv, CliTypeOK
<1> QED
  BY <1>1, <1>2, <1>4 DEF CliInv, CheckInv, AfterCheck

-----------------------------------------------------------------------------
(* Options                                                                 *)

(* A token of options: all but the last are flags, and --no- has one.      *)
LEMMA OptionToken ==
  ASSUME CliTypeOK, At("short") \/ At("long")
  PROVE  /\ Head(argv) \in Token /\ Head(argv).opts \in Seq(Option) /\ Head(argv).opts # <<>>
         /\ Head(argv).word \in Word \cup {NoWord}
         /\ Last(Head(argv).opts) \in ToSet(Head(argv).opts)
         /\ \A o \in ToSet(Head(argv).opts) : o # Last(Head(argv).opts) => o \in Flag
         /\ Head(argv).neg => Last(Head(argv).opts) \in Flag
         /\ argv # <<>> /\ Tail(argv) \in Seq(Token)
<1>1. argv \in Seq(Token) /\ argv # <<>> /\ Head(argv).form \in {"short", "long"}
  BY DEF CliTypeOK, At
<1>2. Head(argv) \in Token /\ Tail(argv) \in Seq(Token)
  BY <1>1
<1> DEFINE t == Head(argv)
<1>3. /\ t.opts \in Seq(Option) /\ t.opts # <<>> /\ t.word \in Word \cup {NoWord}
      /\ \A i \in 1 .. Len(t.opts) - 1 : t.opts[i] \in Flag
      /\ t.neg => Len(t.opts) = 1 /\ t.opts[1] \in Flag
  BY <1>1, <1>2 DEF Token
<1> HIDE DEF t
<1>4. Last(t.opts) = t.opts[Len(t.opts)] /\ Len(t.opts) \in DOMAIN t.opts
  BY <1>3 DEF Last
<1>5. Last(t.opts) \in ToSet(t.opts)
  BY <1>4 DEF ToSet
<1>6. ASSUME NEW o \in ToSet(t.opts), o # Last(t.opts) PROVE o \in Flag
  <2>1. PICK i \in DOMAIN t.opts : t.opts[i] = o
    BY <1>6 DEF ToSet
  <2>2. i \in 1 .. Len(t.opts) - 1
    BY <1>3, <1>4, <1>6, <2>1
  <2> QED
    BY <1>3, <2>1, <2>2
<1>7. t.neg => Last(t.opts) \in Flag
  BY <1>3, <1>4
<1> QED
  BY <1>1, <1>2, <1>3, <1>5, <1>6, <1>7 DEF t

(* How a token of options changes the flags.                               *)
LEMMA FlagsCounted ==
  ASSUME CliTypeOK, At("short") \/ At("long")
  PROVE  /\ DOMAIN Flagged(Head(argv)) = Option
         /\ \A o \in Option \ Flag : Flagged(Head(argv))[o] = val[o]
         /\ \A o \in Flag : Flagged(Head(argv))[o] \in Nat
         /\ \A o \in Flag : Flagged(Head(argv))[o] > 0 => val[o] > 0 \/ o \in ToSet(Head(argv).opts)
         /\ ~Head(argv).neg =>
              \A o \in Flag : val[o] > 0 \/ o \in ToSet(Head(argv).opts) => Flagged(Head(argv))[o] > 0
<1> DEFINE t == Head(argv)
<1>1. t.opts \in Seq(Option)
  BY OptionToken
<1>2. \A o \in Flag : o \in Option /\ val[o] \in Nat
  BY DEF CliTypeOK, ValTypeOK, Option
<1>3. \A o \in Flag : Count(t.opts, o) \in Nat /\ (Count(t.opts, o) > 0 <=> o \in ToSet(t.opts))
  BY <1>1, Counts
<1>4. /\ DOMAIN Flagged(t) = Option
      /\ \A o \in Option \ Flag : Flagged(t)[o] = val[o]
  BY DEF Flagged
<1>5. CASE t.neg
  <2>1. \A o \in Flag : Flagged(t)[o] = Greater(val[o] - Count(t.opts, o), 0)
    BY <1>2, <1>5 DEF Flagged
  <2>2. \A o \in Flag : Flagged(t)[o] \in Nat /\ (Flagged(t)[o] > 0 => val[o] > 0)
    BY <1>2, <1>3, <2>1 DEF Greater
  <2> QED
    BY <1>4, <1>5, <2>2
<1>6. CASE ~t.neg
  <2>1. \A o \in Flag : Flagged(t)[o] = val[o] + Count(t.opts, o)
    BY <1>2, <1>6 DEF Flagged
  <2> HIDE DEF t
  <2>2. \A o \in Flag : /\ Flagged(t)[o] \in Nat
                        /\ (Flagged(t)[o] > 0 <=> val[o] > 0 \/ o \in ToSet(t.opts))
    BY <1>2, <1>3, <2>1
  <2> QED
    BY <1>4, <2>2 DEF t
<1> QED
  BY <1>5, <1>6

LEMMA FlagsStep == ASSUME CliInv, ParseFlags PROVE CliInv'
<1> DEFINE t == Head(argv)
<1>1. /\ stage = "parse" /\ stage' = "parse" /\ Last(t.opts) \in Flag
      /\ val' = Flagged(t) /\ argv' = Tail(argv)
      /\ optvalue' = IF t.form = "short" \/ t.word # NoWord THEN t.word ELSE optvalue
      /\ typed' = {o \in typed \cup ToSet(t.opts) : o \in Flag => val'[o] > 0}
      /\ valued' = (valued \/ (t.form = "long" /\ t.word # NoWord))
      /\ UNCHANGED <<out, mode, reg_cnt, data, tried, failed, result>>
      /\ (At("short") \/ At("long"))
  BY DEF ParseFlags, config, access, At
<1>2. /\ CliTypeOK /\ ParseInv
  BY DEF CliInv
<1>3. /\ t \in Token /\ t.opts \in Seq(Option) /\ t.word \in Word \cup {NoWord}
      /\ \A o \in ToSet(t.opts) : o \in Flag
      /\ Tail(argv) \in Seq(Token)
  BY <1>1, <1>2, OptionToken
<1>4. /\ DOMAIN val' = Option
      /\ \A o \in Option \ Flag : val'[o] = val[o]
      /\ \A o \in Flag : val'[o] \in Nat /\ (val'[o] > 0 => val[o] > 0 \/ o \in ToSet(t.opts))
  BY <1>1, <1>2, FlagsCounted
<1>5. \A o \in Option : ValTypeOK(o)'
  BY <1>2, <1>4 DEF ValTypeOK, CliTypeOK
<1>6. ParseInv'
  <2>1. \A o \in Flag : val'[o] > 0 <=> o \in typed'
    BY <1>1, <1>2, <1>4 DEF ParseInv
  <2>2. \A o \in Option \ Flag : (o \in typed' <=> o \in typed) /\ (Given(o)' <=> Given(o))
    BY <1>1, <1>3, <1>4 DEF Given
  <2>3. \A o \in Path : o \in Option \ Flag
    BY DEF Path, Option, Flag
  <2>4. ~valued' => optvalue' = NoWord
    <3>1. t.form \in {"short", "long"} /\ t.form # "long" => t.word = NoWord
      BY <1>1, <1>3 DEF Token, At
    <3> QED
      BY <1>1, <1>2, <3>1, Zenon DEF ParseInv, At
  <2>5. \A o \in Path \cap typed' : val'[o] = 1
    BY <1>2, <1>4, <2>2, <2>3 DEF ParseInv
  <2>6. \A o \in Option \ Flag : Given(o)' => o \in typed'
    BY <1>2, <2>2 DEF ParseInv
  <2> QED
    BY <2>1, <2>4, <2>5, <2>6, Zenon DEF ParseInv, Given
<1>7. optvalue' \in Word \cup {NoWord} /\ typed' \subseteq Option
  <2>1. ToSet(t.opts) \subseteq Option
    BY <1>3 DEF Option
  <2> QED
    BY <1>1, <1>2, <1>3, <2>1 DEF CliTypeOK
<1>8. valued' \in BOOLEAN
  BY <1>1, Zenon
<1>9. CliTypeOK'
  <2>1. argv' \in Seq(Token) /\ out' \in Seq(Word) /\ stage' \in {"parse"}
    BY <1>1, <1>2, <1>3 DEF CliTypeOK
  <2> QED
    BY <1>1, <1>2, <1>4, <1>5, <1>7, <1>8, <2>1 DEF CliTypeOK
<1> QED
  BY <1>1, <1>6, <1>9 DEF CliInv, CheckInv, AfterCheck

(* What an option with a value stores fits its variable.                   *)
LEMMA StoredFits ==
  ASSUME NEW o \in Path \cup Number, NEW w \in Word
  PROVE  /\ o # "level" => Stored(o, w) \in 0 .. U32 - 1
         /\ o = "level" => Stored(o, w) \in (-(U32 \div 2)) .. U32 - 1 - U32 \div 2
         /\ o \in Path => Stored(o, w) = 1
<1>1. w.int \in Int
  BY DEF Word
<1>2. w.int % U32 \in 0 .. U32 - 1 /\ (w.int + U32 \div 2) % U32 \in 0 .. U32 - 1
  BY <1>1, Widths
<1>3. "level" \notin Path
  BY DEF Path
<1>4. CASE o \in Path
  BY <1>3, <1>4, Widths DEF Stored
<1>5. CASE o = "level"
  <2>1. Stored(o, w) = ((w.int + U32 \div 2) % U32) - (U32 \div 2)
    BY <1>3, <1>5 DEF Stored
  <2> DEFINE m == (w.int + U32 \div 2) % U32
             h == U32 \div 2
  <2>2. m \in Int /\ 0 <= m /\ m <= U32 - 1 /\ h \in Nat /\ U32 \in Nat
    BY <1>2, Widths
  <2> HIDE DEF m, h
  <2>3. m - h \in (-h) .. U32 - 1 - h
    BY <2>2
  <2> QED
    BY <1>3, <1>5, <2>1, <2>3 DEF m, h
<1>6. CASE o \notin Path /\ o # "level"
  BY <1>2, <1>6 DEF Stored
<1> QED
  BY <1>4, <1>5, <1>6

(* The value of an option, and what is left of the line behind it.         *)
Here == IF Head(argv).form = "short" \/ Head(argv).word # NoWord THEN Head(argv).word ELSE optvalue
Value == IF Here # NoWord THEN Here ELSE IF Len(argv) > 1 THEN AsWord(argv[2]) ELSE NoWord

LEMMA ValueTaken ==
  ASSUME CliTypeOK, At("short") \/ At("long"),
         argv' = IF Here # NoWord \/ Len(argv) = 1 THEN Tail(argv) ELSE Tail(Tail(argv))
  PROVE  Value \in Word \cup {NoWord} /\ argv' \in Seq(Token)
<1>1. /\ argv \in Seq(Token) /\ argv # <<>> /\ optvalue \in Word \cup {NoWord}
      /\ Head(argv).word \in Word \cup {NoWord}
  BY OptionToken DEF CliTypeOK
<1>2. Here \in Word \cup {NoWord}
  BY <1>1 DEF Here
<1>3. Len(argv) > 1 => AsWord(argv[2]) \in Word
  <2>1. \A t \in Token : AsWord(t) \in Word
    BY DEF AsWord, Dashed, Word, Token
  <2>2. Len(argv) > 1 => argv[2] \in Token
    BY <1>1
  <2> QED
    BY <2>1, <2>2
<1>4. Value \in Word \cup {NoWord}
  BY <1>2, <1>3 DEF Value
<1>5. Len(argv) # 1 => Tail(Tail(argv)) \in Seq(Token)
  <2>1. Tail(argv) \in Seq(Token) /\ Len(Tail(argv)) = Len(argv) - 1 /\ Len(argv) \in Nat \ {0}
    BY <1>1
  <2>2. Len(argv) # 1 => Tail(argv) # <<>>
    <3>1. Tail(argv) = <<>> => Len(Tail(argv)) = 0
      <4>1. Len(<<>>) = 0
        OBVIOUS
      <4> QED
        BY <4>1, Zenon
    <3>2. Len(argv) # 1 => Len(argv) - 1 # 0
      BY <2>1
    <3> QED
      BY <2>1, <3>1, <3>2, Zenon
  <2> QED
    BY <2>1, <2>2
<1> QED
  BY <1>1, <1>4, <1>5

LEMMA ValueStep == ASSUME CliInv, ParseValue PROVE CliInv'
<1> DEFINE t == Head(argv)
           o == Last(t.opts)
<1>1. /\ stage = "parse" /\ o \notin Flag /\ (At("short") \/ At("long"))
      /\ argv' = IF Here # NoWord \/ Len(argv) = 1 THEN Tail(argv) ELSE Tail(Tail(argv))
      /\ UNCHANGED <<out, mode, reg_cnt, data, tried, failed, result, valued>>
  BY DEF ParseValue, config, access, Here, At
<1>2. \/ stage' = "error" /\ UNCHANGED <<val, optvalue, typed>>
      \/ /\ Value # NoWord /\ stage' = stage
         /\ val' = [Flagged(t) EXCEPT ![o] = Stored(o, Value)]
         /\ optvalue' = NoWord /\ typed' = typed \cup ToSet(t.opts)
  BY DEF ParseValue, Here, Value, AfterUse
<1>3. CliTypeOK /\ ParseInv
  BY DEF CliInv
<1>4. Value \in Word \cup {NoWord} /\ argv' \in Seq(Token)
  BY <1>1, <1>3, ValueTaken
<1>5. CASE stage' = "error" /\ UNCHANGED <<val, optvalue, typed>>
  <2>1. ParseInv' /\ (\A p \in Option : ValTypeOK(p)')
    BY <1>1, <1>5, ParsedKept DEF CliInv, CliTypeOK
  <2>2. CliTypeOK'
    BY <1>1, <1>3, <1>4, <1>5, <2>1 DEF CliTypeOK
  <2> QED
    BY <1>5, <2>1, <2>2 DEF CliInv, CheckInv, AfterCheck
<1>6. CASE /\ Value # NoWord /\ stage' = stage
           /\ val' = [Flagged(t) EXCEPT ![o] = Stored(o, Value)]
           /\ optvalue' = NoWord /\ typed' = typed \cup ToSet(t.opts)
  <2>1. /\ t.opts \in Seq(Option) /\ o \in ToSet(t.opts) /\ ~t.neg
        /\ \A p \in ToSet(t.opts) : p # o => p \in Flag
    BY <1>1, <1>3, OptionToken
  <2>2. /\ ToSet(t.opts) \subseteq Option /\ o \in Path \cup Number
    <3>1. ToSet(t.opts) \subseteq Option
      BY <2>1 DEF ToSet
    <3> QED
      BY <1>1, <2>1, <3>1, Zenon DEF Option
  <2>3. Value \in Word
    BY <1>4, <1>6
  <2>4. /\ DOMAIN val' = Option /\ val'[o] = Stored(o, Value)
        /\ \A p \in Option \ {o} : val'[p] = Flagged(t)[p]
    <3>1. DOMAIN Flagged(t) = Option /\ o \in Option
      BY <1>1, <1>3, <2>2, FlagsCounted DEF Option
    <3> QED
      BY <1>6, <3>1 DEF Flagged
  <2>5. /\ \A p \in Option \ (Flag \cup {o}) : val'[p] = val[p]
        /\ \A p \in Flag : val'[p] \in Nat /\ (val'[p] > 0 <=> val[p] > 0 \/ p \in ToSet(t.opts))
    <3>1. \A p \in Flag : p \in Option \ {o}
      BY <1>1 DEF Option
    <3> QED
      BY <1>1, <1>3, <2>1, <2>4, <3>1, FlagsCounted
  <2>6. \A p \in Option : ValTypeOK(p)'
    <3>1. TAKE p \in Option
    <3>2. CASE p = o
      <4>1. /\ val'[p] = Stored(p, Value) /\ p \notin Flag
            /\ p # "level" => Stored(p, Value) \in 0 .. U32 - 1
            /\ p = "level" => Stored(p, Value) \in (-(U32 \div 2)) .. U32 - 1 - U32 \div 2
        BY <1>1, <2>2, <2>3, <2>4, <3>2, StoredFits
      <4> QED
        BY <4>1 DEF ValTypeOK
    <3>3. CASE p # o
      BY <1>3, <2>5, <3>1, <3>3 DEF ValTypeOK, CliTypeOK
    <3> QED
      BY <3>2, <3>3
  <2>7. ParseInv'
    <3>1. \A p \in Flag : val'[p] > 0 <=> p \in typed'
      BY <1>3, <1>6, <2>5 DEF ParseInv
    <3>2. \A p \in Path \cap typed' : val'[p] = 1
      <4>1. TAKE p \in Path \cap typed'
      <4>2. CASE p = o
        BY <2>2, <2>3, <2>4, <4>2, StoredFits
      <4>3. CASE p # o
        <5>1. p \in Option \ (Flag \cup {o}) /\ p \in typed
          BY <1>6, <2>1, <4>1, <4>3 DEF Path, Option, Flag
        <5> QED
          BY <1>3, <2>5, <4>1, <5>1 DEF ParseInv
      <4> QED
        BY <4>2, <4>3
    <3>3. \A p \in Option \ Flag : Given(p)' => p \in typed'
      BY <1>3, <1>6, <2>1, <2>5 DEF ParseInv, Given
    <3> QED
      BY <1>6, <3>1, <3>2, <3>3, Zenon DEF ParseInv, Given
  <2>8. CliTypeOK'
    <3>1. typed' \subseteq Option
      BY <1>3, <1>6, <2>2 DEF CliTypeOK
    <3> QED
      BY <1>1, <1>3, <1>4, <1>6, <2>4, <2>6, <3>1 DEF CliTypeOK
  <2> QED
    BY <1>1, <1>6, <2>7, <2>8 DEF CliInv, CheckInv, AfterCheck
<1> QED
  BY <1>2, <1>5, <1>6, Zenon

LEMMA CliInvStep == CliInv /\ [CliNext]_cliVars => CliInv'
<1> SUFFICES ASSUME CliInv, [CliNext]_cliVars PROVE CliInv'
  OBVIOUS
<1>1. CASE ParseEnd \/ ParseWord \/ ParseRest \/ ParseExit
  BY <1>1, WordsStep
<1>2. CASE ParseFlags
  BY <1>2, FlagsStep
<1>3. CASE ParseValue
  BY <1>3, ValueStep
<1>4. CASE Check
  BY <1>4, CheckStep
<1>5. CASE InitBus \/ Access \/ Other
  BY <1>5, ModeStep
<1>6. CASE UNCHANGED cliVars
  <2>1. UNCHANGED <<stage, argv, out, optvalue, val, mode, reg_cnt, data, tried, failed, result, typed, valued>>
    BY <1>6 DEF cliVars
  <2>2. ParseInv' /\ (\A o \in Option : ValTypeOK(o)')
    BY <2>1, ParsedKept DEF CliInv, CliTypeOK
  <2>3. CliTypeOK'
    BY <2>1, <2>2 DEF CliInv, CliTypeOK
  <2>4. CheckInv'
    BY <2>1 DEF CliInv, CheckInv, Given, Pair, PairBad, DateBad, Counted, Chosen, Holding
  <2> QED
    BY <2>2, <2>3, <2>4 DEF CliInv
<1> QED
  BY <1>1, <1>2, <1>3, <1>4, <1>5, <1>6 DEF CliNext

LEMMA CliInvariant == CliSpec => []CliInv
BY CliInvInit, CliInvStep, PTL DEF CliSpec

-----------------------------------------------------------------------------
(* What is parsed is of its type, and what runs has arguments that fit the *)
(* 16 bits of reg_cnt and the buffer, whatever the command line is         *)
(* (argparse.c:49-287, main.c:38-233).                                     *)
THEOREM CliTypeCorrect == CliSpec => []CliTypeOK
<1>1. CliInv => CliTypeOK
  BY DEF CliInv
<1> QED
  BY <1>1, CliInvariant, PTL

LEMMA ArgumentsFollow == CliInv => RunHasArguments
<1> SUFFICES ASSUME CliInv, stage \in {"run", "done"}
    PROVE  /\ mode = "rw" /\ ("read" \in typed \/ val["test"] # 0)
                => /\ reg_cnt \in 1 .. WrBufMax - 2
                   /\ out[2].int \in 0 .. U16 - 1 => reg_cnt = out[2].int
           /\ mode = "rw" /\ "read" \notin typed /\ val["test"] = 0 => reg_cnt = data
           /\ mode = "date" => data = DateBytes /\ typed \cap {"write", "read", "send"} = {}
  BY Zenon DEF RunHasArguments
<1>1. /\ ~(Given("write") /\ Given("read")) /\ ~(Pair /\ PairBad) /\ ~(Given("date") /\ DateBad)
      /\ mode = Chosen
      /\ reg_cnt = IF ~Pair THEN 0 ELSE IF Counted THEN out[2].int % U16 ELSE out[2].bytes
      /\ data = IF Given("date") THEN DateBytes
                ELSE IF Pair /\ ~Counted THEN out[2].bytes ELSE 0
  BY Zenon DEF CliInv, CheckInv, AfterCheck
<1>2. \A o \in Flag : Given(o) <=> o \in typed
  <2>1. \A o \in Flag : val[o] \in Nat /\ (val[o] > 0 <=> o \in typed) /\ Default(o) = 0
    BY DEF CliInv, CliTypeOK, ValTypeOK, ParseInv, Option, Default, Flag
  <2> QED
    BY <2>1 DEF Given
<1>3. Given("test") <=> val["test"] # 0
  BY DEF Given, Default
<1>4. Pair => Len(out) = 2
  BY <1>1, Zenon DEF PairBad
<1>5. Given("date") => Len(out) = 1
  BY <1>1, Zenon DEF DateBad
<1>6. Given("date") => ~Pair
  BY <1>4, <1>5
<1>7. mode = "rw" => Pair /\ ~Given("date")
  <2>1. ASSUME mode = "rw" PROVE \E i \in Holding : i = 1 /\ \A j \in Holding : j <= i
    BY <1>1, <2>1, ModeChosen, TestsOfMode DEF Holding
  <2>2. mode = "rw" => Given("write") \/ Given("read")
    BY <2>1, TestsOfMode DEF Holding
  <2>3. mode = "rw" => 17 \notin Holding
    BY <2>1
  <2>4. Given("date") => 17 \in Holding
    BY TestsOfMode DEF Holding
  <2> QED
    BY <2>2, <2>3, <2>4, Zenon DEF Pair
<1>8. mode = "date" => Given("date")
  BY <1>1, ModeChosen, TestsOfMode DEF Holding
<1>9. ASSUME mode = "rw"
      PROVE  /\ Counted => reg_cnt = out[2].int % U16 /\ reg_cnt \in 1 .. WrBufMax - 2
             /\ ~Counted => reg_cnt = data
  BY <1>1, <1>7, <1>9 DEF PairBad
<1>10. Counted <=> "read" \in typed \/ val["test"] # 0
  BY <1>2, <1>3 DEF Counted, Flag
<1>11. ASSUME mode = "date"
       PROVE  data = DateBytes /\ typed \cap {"write", "read", "send"} = {}
  <2>1. Given("date") /\ ~Given("write") /\ ~Given("read") /\ ~Given("send")
    BY <1>6, <1>8, <1>11 DEF Pair
  <2> QED
    BY <1>1, <1>2, <2>1 DEF Flag
<1>12. ASSUME mode = "rw", Counted, out[2].int \in 0 .. U16 - 1 PROVE reg_cnt = out[2].int
  <2>1. \A n \in Nat \ {0} : \A x \in 0 .. n - 1 : x % n = x
    OBVIOUS
  <2> QED
    BY <1>9, <1>12, <2>1, CliAssumption
<1> QED
  BY <1>9, <1>10, <1>11, <1>12

(* In the mode that reads and writes registers a read and a test have a    *)
(* count from 1 to WR_BUF_MAX - 2, which is the number typed if that has   *)
(* 16 bits, a write as many as it has bytes; the mode that writes the date *)
(* has its bytes (main.c:61-92).  That a write has at most WR_BUF_MAX - 2  *)
(* bytes is no theorem: RoomForCrc does not hold.                          *)
THEOREM RunHasItsArguments == CliSpec => []RunHasArguments
BY CliInvariant, ArgumentsFollow, PTL

LEMMA ModeAsked == CliInv => AskedModeRuns
<1> SUFFICES ASSUME CliInv, stage \in {"run", "done"}
    PROVE  IF mode = "online"
             THEN \A o \in typed \ {"asc", "test"} : o \in Number /\ val[o] = Meaningless[o]
             ELSE OfMode(mode) \cap typed # {}
  BY Zenon DEF AskedModeRuns
<1>1. mode = Chosen
  BY Zenon DEF CliInv, CheckInv, AfterCheck
<1>2. \A o \in Option : Given(o) => o \in typed
  <2>1. \A o \in Flag : Given(o) => o \in typed
    <3>1. \A o \in Flag : val[o] \in Nat /\ (val[o] > 0 <=> o \in typed) /\ Default(o) = 0
      BY DEF CliInv, CliTypeOK, ValTypeOK, ParseInv, Option, Default, Flag
    <3> QED
      BY <3>1 DEF Given
  <2> QED
    BY <2>1 DEF CliInv, ParseInv
<1>3. CASE mode = "info"
  <2>1. Given("info")
    BY <1>1, <1>3, ModeChosen, TestsOfMode DEF Holding
  <2>2. "info" \in typed
    BY <1>2, <2>1 DEF Option, Flag
  <2> QED
    BY <1>3, <2>2 DEF OfMode
<1>4. CASE mode = "online"
  <2>1. ~Given("info") /\ Holding = {}
    BY <1>1, <1>4, ModeChosen, TestsOfMode DEF Holding
  <2>2. \A o \in Option \ {"asc", "test"} : ~Given(o)
    BY <2>1, TestsOfMode DEF Holding
  <2>3. ASSUME NEW o \in typed \ {"asc", "test"} PROVE o \in Number /\ val[o] = Meaningless[o]
    <3>1. o \in Option /\ ~Given(o)
      BY <2>2 DEF CliInv, CliTypeOK
    <3>2. o \notin Flag
      <4>1. o \in Flag => val[o] > 0
        BY <3>1 DEF CliInv, ParseInv
      <4>2. o \in Flag => Default(o) = 0
        BY DEF Default, Flag
      <4> QED
        BY <3>1, <4>1, <4>2 DEF Given
    <3>3. o \notin Path
      BY <3>1 DEF CliInv, ParseInv, Given, Default, Path
    <3>4. o \in Number
      BY <3>1, <3>2, <3>3 DEF Option
    <3> QED
      BY <3>1, <3>4 DEF Given, Default, Meaningless, Number
  <2> QED
    BY <1>4, <2>3
<1>5. CASE mode \notin {"info", "online"}
  <2>1. PICK i \in Holding : mode = ModeOrder[i].mode
    BY <1>1, <1>5, ModeChosen
  <2>2. i \in DOMAIN ModeOrder /\ ModeOrder[i].by \subseteq Option
    BY <2>1, TestsOfMode DEF Holding
  <2>3. PICK o \in ModeOrder[i].by : Given(o)
    BY <2>1 DEF Holding
  <2>4. o \in OfMode(mode) /\ o \in typed
    BY <1>2, <1>5, <2>1, <2>2, <2>3 DEF OfMode
  <2> QED
    BY <1>5, <2>4
<1> QED
  BY <1>3, <1>4, <1>5

(* The mode that runs was asked for; the program feeds the watchdog for    *)
(* ever only without an option of a mode, or with a value without a        *)
(* meaning (main.c:94-149).                                                *)
THEOREM AskedMode == CliSpec => []AskedModeRuns
BY CliInvariant, ModeAsked, PTL

LEMMA OwnValueStep ==
  ASSUME CliInv, [CliNext]_cliVars, NEW o \in Number,
         argv # <<>>, Head(argv).opts # <<>>, Last(Head(argv).opts) = o, stage' = "parse", ~valued,
         cliVars' # cliVars
  PROVE  \/ Head(argv).word # NoWord /\ val'[o] = Stored(o, Head(argv).word)
         \/ /\ Head(argv).word = NoWord /\ Len(argv) > 1
            /\ val'[o] = Stored(o, AsWord(argv[2]))
<1>1. /\ argv \in Seq(Token) /\ Head(argv) \in Token /\ optvalue = NoWord
  <2>1. argv \in Seq(Token) /\ optvalue = NoWord
    BY DEF CliInv, CliTypeOK, ParseInv
  <2> QED
    BY <2>1
<1>2. Head(argv).form \in {"short", "long"} /\ o \notin Flag /\ o \in Option
  BY <1>1 DEF Token, Number, Flag, Option
<1>3. ParseValue
  BY <1>2, Zenon DEF CliNext, ParseEnd, ParseWord, ParseRest, ParseExit, ParseFlags, Check,
                     InitBus, Access, Other, Exit, At, cliVars
<1>4. /\ Value # NoWord /\ (At("short") \/ At("long"))
      /\ val' = [Flagged(Head(argv)) EXCEPT ![o] = Stored(o, Value)]
  BY <1>3 DEF ParseValue, Here, Value
<1>5. val'[o] = Stored(o, Value)
  BY <1>2, <1>4 DEF Flagged
<1>6. Here = Head(argv).word
  BY <1>1 DEF Here
<1>7. CASE Head(argv).word # NoWord
  BY <1>5, <1>6, <1>7 DEF Value
<1>8. CASE Head(argv).word = NoWord
  <2>1. Len(argv) > 1 /\ Value = AsWord(argv[2])
    BY <1>4, <1>6, <1>8 DEF Value
  <2> QED
    BY <1>5, <1>8, <2>1
<1> QED
  BY <1>7, <1>8

(* An option gets the value typed with it, in its token or the next one,   *)
(* unless a flag was given a value before (argparse.c:49-130, 192).        *)
THEOREM OwnValues == CliSpec => OwnValue
<1> DEFINE A == \A o \in Number :
       argv # <<>> /\ Head(argv).opts # <<>> /\ Last(Head(argv).opts) = o /\ stage' = "parse" /\ ~valued =>
         \/ Head(argv).word # NoWord /\ val'[o] = Stored(o, Head(argv).word)
         \/ /\ Head(argv).word = NoWord /\ Len(argv) > 1
            /\ val'[o] = Stored(o, AsWord(argv[2]))
<1>1. CliInv /\ [CliNext]_cliVars => [A]_cliVars
  BY OwnValueStep
<1>2. CliSpec => [][A]_cliVars
  <2> HIDE DEF A
  <2> QED
    BY <1>1, CliInvariant, PTL DEF CliSpec
<1> QED
  BY <1>2 DEF OwnValue
=============================================================================
