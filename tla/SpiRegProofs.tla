---------------------------- MODULE SpiRegProofs ----------------------------
(***************************************************************************)
(* Theorems about SpiReg for every set of threads, processes, addresses,   *)
(* values and requests, every bound, and every choice of faults.           *)
(***************************************************************************)
EXTENDS SpiReg, SequenceTheorems, TLAPS

USE ProcOfAssumption, RequestsAssumption, InitRegsAssumption,
    BoundsAssumption, NullAssumption

-----------------------------------------------------------------------------
(* Type correctness.                                                       *)

LEMMA CommandTypes ==
  ASSUME NEW r \in Request PROVE Command(r) \in Cmd
BY DEF Command, Cmd, Request

LEMMA FrameTypes ==
  /\ Junk \in FrameType
  /\ \A c \in Cmd, v \in Val : Frame(c, v) \in FrameType
  /\ \A r \in Request : DataFrame(r) \in FrameType
<1>1. Junk \in FrameType
  BY DEF FrameType
<1>2. \A c \in Cmd, v \in Val : Frame(c, v) \in FrameType
  <2> TAKE c \in Cmd, v \in Val
  <2>1. Frame(c, v) \in {Frame(d, w) : d \in Cmd, w \in Val}
    OBVIOUS
  <2> QED
    BY <2>1 DEF FrameType
<1>3. \A r \in Request : r.op = "write" => r.val \in Val
  BY DEF Request
<1> QED
  BY <1>1, <1>2, <1>3, CommandTypes DEF DataFrame

(* A frame whose checksum matches a command was made for that command.     *)
LEMMA MatchingFrame ==
  ASSUME NEW c \in Cmd, NEW f \in FrameType, f.crc = Crc(c, f.val)
  PROVE  f.val \in Val /\ f = Frame(c, f.val)
<1>1. CASE f = Junk
  <2>1. NoCrc = <<c, NoVal>>
    BY <1>1 DEF Junk, Crc
  <2> QED
    BY <2>1
<1>2. CASE f \in {Frame(d, v) : d \in Cmd, v \in Val}
  <2>1. PICK d \in Cmd, v \in Val : f = Frame(d, v)
    BY <1>2
  <2>2. f.val = v /\ f.crc = <<d, v>>
    BY <2>1 DEF Frame, Crc
  <2>3. d = c
    BY <2>2 DEF Crc
  <2> QED
    BY <2>1, <2>2, <2>3
<1> QED
  BY <1>1, <1>2 DEF FrameType

LEMMA LineTypes ==
  ASSUME NEW s \in Seq({"A", "N"})
  PROVE  /\ s # <<>> => Tail(s) \in Seq({"A", "N"})
         /\ Append(s, "A") \in Seq({"A", "N"})
         /\ Append(s, "N") \in Seq({"A", "N"})
OBVIOUS

LEMMA TypeInit == Init => TypeOK
BY FrameTypes DEF Init, TypeOK, Pcs, LockedPcs, BusPcs, McuModes, Cmd, Request

LEMMA TypeStep == TypeOK /\ [Next]_vars => TypeOK'
<1> SUFFICES ASSUME TypeOK, [Next]_vars PROVE TypeOK'
  OBVIOUS
<1> USE DEF TypeOK, Goto, Fail, Fault, Pcs, LockedPcs, BusPcs, WaitPcs,
            host, locks, line, mcu, hist
<1>1. ASSUME NEW t \in Thread, Call(t) PROVE TypeOK'
  BY <1>1 DEF Call, Request
<1>2. ASSUME NEW t \in Thread, LockMutex(t) PROVE TypeOK'
  BY <1>2 DEF LockMutex
<1>3. ASSUME NEW t \in Thread, LockFlock(t) PROVE TypeOK'
  BY <1>3, FrameTypes DEF LockFlock
<1>4. ASSUME NEW t \in Thread, FlockFails(t) PROVE TypeOK'
  BY <1>4 DEF FlockFails
<1>5. ASSUME NEW t \in Thread, SendStart(t) PROVE TypeOK'
  BY <1>5 DEF SendStart
<1>6. ASSUME NEW t \in Thread, StartWriteFails(t) PROVE TypeOK'
  BY <1>6 DEF StartWriteFails
<1>7. ASSUME NEW t \in Thread, StartAcked(t) PROVE TypeOK'
  BY <1>7 DEF StartAcked, TakeAck
<1>8. ASSUME NEW t \in Thread, TransferCommand(t) PROVE TypeOK'
  BY <1>8, FrameTypes DEF TransferCommand, Received, ThisCall, McuModes
<1>9. ASSUME NEW t \in Thread, CommandAcked(t) PROVE TypeOK'
  BY <1>9 DEF CommandAcked, TakeAck
<1>10. ASSUME NEW t \in Thread, TransferData(t) PROVE TypeOK'
  <2> DEFINE r == req[t]
  <2>1. DataFrame(r) \in FrameType
    BY FrameTypes DEF DataFrame, NoRequest
  <2>2. r.op = "read" => Command(r) \in Cmd
    BY CommandTypes DEF NoRequest
  <2>3. ThisCall(t) \in (Thread \cup {NoThread}) \X Nat
    BY DEF ThisCall
  <2>4. mcuData' \in FrameType
    BY <1>10, <2>1, FrameTypes DEF TransferData
  <2>8. faults' \in 0 .. MaxFaults
    BY <1>10 DEF TransferData, Carried
  <2>5. rxbuf' \in [Proc -> FrameType]
    <3>1. \E g \in {Junk, mcuData} :
            rxbuf' = [rxbuf EXCEPT ![ProcOf[t]] = g]
      BY <1>10 DEF TransferData
    <3>2. Junk \in FrameType /\ mcuData \in FrameType
      BY FrameTypes
    <3> QED
      BY <3>1, <3>2
  <2>6. mcuMode' \in McuModes /\ mcuCmd' \in Cmd
    BY <1>10, <2>2 DEF TransferData, McuModes
  <2>7. sender' \in (Thread \cup {NoThread}) \X Nat
    BY <1>10, <2>3 DEF TransferData
  <2> QED
    BY <1>10, <2>4, <2>5, <2>8, <2>6, <2>7 DEF TransferData
<1>11. ASSUME NEW t \in Thread, DataAcked(t) PROVE TypeOK'
  <2> DEFINE f == rxbuf[ProcOf[t]]
  <2>1. req[t].op = "read" => Command(req[t]) \in Cmd
    BY CommandTypes DEF NoRequest
  <2>2. req[t].op = "read" /\ f.crc = Crc(Command(req[t]), f.val)
          => f.val \in Val
    BY <2>1, MatchingFrame
  <2>3. got' \in [Thread -> Val \cup {NoVal}]
    BY <1>11, <2>2 DEF DataAcked
  <2>4. rxq' \in Seq({"A", "N"})
    BY <1>11 DEF DataAcked, TakeAck
  <2>5. ret' \in [Thread -> {0, -1, -2, -3}]
    BY <1>11 DEF DataAcked
  <2> QED
    BY <1>11, <2>3, <2>4, <2>5 DEF DataAcked
<1>12. ASSUME NEW t \in Thread, TransferFails(t) PROVE TypeOK'
  BY <1>12 DEF TransferFails
<1>13. ASSUME NEW t \in Thread, Refused(t) PROVE TypeOK'
  BY <1>13 DEF Refused
<1>14. ASSUME NEW t \in Thread, TimedOut(t) PROVE TypeOK'
  BY <1>14 DEF TimedOut
<1>15. ASSUME NEW t \in Thread, PollFails(t) PROVE TypeOK'
  BY <1>15 DEF PollFails
<1>16. ASSUME NEW t \in Thread, UnlockFlock(t) PROVE TypeOK'
  BY <1>16 DEF UnlockFlock
<1>17. ASSUME NEW t \in Thread, UnlockMutex(t) PROVE TypeOK'
  BY <1>17 DEF UnlockMutex
<1>18. ASSUME NEW p \in Proc, Crash(p) PROVE TypeOK'
  BY <1>18 DEF Crash
<1>19. ASSUME NEW p \in Proc, Restart(p) PROVE TypeOK'
  BY <1>19, FrameTypes DEF Restart
<1>20. CASE Deliver
  BY SMTT(30), <1>20 DEF Deliver
<1>21. CASE LoseByte
  <2>1. uplink' \in Nat /\ wire' \in Seq({"A", "N"})
    <3>1. CASE uplink > 0 /\ uplink' = uplink - 1 /\ UNCHANGED wire
      BY <3>1
    <3>2. CASE wire # <<>> /\ wire' = Tail(wire) /\ UNCHANGED uplink
      <4>1. Tail(wire) \in Seq({"A", "N"})
        BY <3>2, LineTypes
      <4> QED
        BY <3>2, <4>1
    <3> QED
      BY <1>21, <3>1, <3>2 DEF LoseByte
  <2> QED
    BY <1>21, <2>1 DEF LoseByte
<1>22. CASE McuStart
  BY <1>22 DEF McuStart, McuModes, Answer
<1>23. CASE McuAcceptCommand
  BY <1>23, FrameTypes DEF McuAcceptCommand, McuModes, Answer, Cmd
<1>24. CASE McuRefuse
  BY <1>24 DEF McuRefuse, McuModes, Answer
<1>25. CASE McuReadDone
  BY <1>25 DEF McuReadDone, McuModes, Answer
<1>26. CASE McuWriteDone
  <2>1. CrcMatches(mcuCmd, mcuData) => mcuData.val \in Val
    BY MatchingFrame DEF CrcMatches
  <2>2. mcuCmd.op = "write" => mcuCmd.addr \in Addr
    BY DEF Cmd, JunkCmd
  <2>3. regs' \in [Addr -> Val] /\ seen' \in [Thread -> SUBSET Val]
    <3>1. CASE CrcMatches(mcuCmd, mcuData)
      <4>1. regs' = [regs EXCEPT ![mcuCmd.addr] = mcuData.val]
        BY <1>26, <3>1 DEF McuWriteDone
      <4>2. seen' = [t \in Thread |->
                       IF req[t].addr = mcuCmd.addr
                         THEN seen[t] \cup {mcuData.val} ELSE seen[t]]
        BY <1>26, <3>1 DEF McuWriteDone
      <4>3. mcuCmd.addr \in Addr /\ mcuData.val \in Val
        BY <1>26, <2>1, <2>2, <3>1 DEF McuWriteDone
      <4> QED
        BY <4>1, <4>2, <4>3
    <3>2. CASE ~CrcMatches(mcuCmd, mcuData)
      BY <1>26, <3>2 DEF McuWriteDone
    <3> QED
      BY <3>1, <3>2
  <2>4. wire' \in Seq({"A", "N"})
    <3>1. wire' = Append(wire, "A") \/ wire' = Append(wire, "N")
      BY <1>26 DEF McuWriteDone, Answer
    <3> QED
      <4>1. Append(wire, "A") \in Seq({"A", "N"})
        BY LineTypes
      <4>2. Append(wire, "N") \in Seq({"A", "N"})
        BY LineTypes
      <4> QED
        BY <3>1, <4>1, <4>2
  <2>5. applied' \subseteq (Thread \cup {NoThread}) \X Nat
    BY <1>26 DEF McuWriteDone
  <2> QED
    BY <1>26, <2>3, <2>4, <2>5 DEF McuWriteDone, McuModes
<1>27. CASE McuGiveUp
  BY <1>27 DEF McuGiveUp, McuModes
<1>28. CASE Finished \/ UNCHANGED vars
  BY <1>28 DEF Finished, vars
<1> QED
  BY <1>1, <1>2, <1>3, <1>4, <1>5, <1>6, <1>7, <1>8, <1>9, <1>10, <1>11,
     <1>12, <1>13, <1>14, <1>15, <1>16, <1>17, <1>18, <1>19, <1>20, <1>21,
     <1>22, <1>23, <1>24, <1>25, <1>26, <1>27, <1>28
  DEF Next, HostStep, McuStep

(* Every variable stays in its domain, in every behaviour.                 *)
THEOREM TypeCorrect == Spec => []TypeOK
BY TypeInit, TypeStep, PTL DEF Spec

-----------------------------------------------------------------------------
(* Exclusion.  What the two locks mean: past pthread_mutex_lock a thread   *)
(* owns the mutex of its handle, and past flock its process owns the lock  *)
(* file.  BusExclusive is not inductive by itself, this is: two threads    *)
(* with the bus are in one process, by the flock, and there they are one   *)
(* thread, by the mutex.                                                   *)

LockInv ==
  /\ \A t \in Thread : pc[t] \in LockedPcs => mutex[ProcOf[t]] = t
  /\ \A t \in Thread : pc[t] \in BusPcs => flock = ProcOf[t]

LEMMA LockInvExcludes == LockInv => BusExclusive
BY DEF LockInv, BusExclusive, LockedPcs

LEMMA LockInvInit == Init => LockInv
BY DEF Init, LockInv, LockedPcs, BusPcs

(* A step of t that keeps t inside, or outside, each of the two sections   *)
(* and leaves both locks alone.                                            *)
LEMMA LocksUntouched ==
  ASSUME TypeOK, LockInv, UNCHANGED locks, NEW t \in Thread, NEW s,
         pc' = [pc EXCEPT ![t] = s],
         s \in LockedPcs => pc[t] \in LockedPcs,
         s \in BusPcs => pc[t] \in BusPcs
  PROVE  LockInv'
BY DEF TypeOK, LockInv, locks

LEMMA LockInvStep == TypeOK /\ LockInv /\ [Next]_vars => LockInv'
<1> SUFFICES ASSUME TypeOK, LockInv, [Next]_vars PROVE LockInv'
  OBVIOUS
<1> USE DEF Goto, Fail
<1>0. BusExclusive
  BY LockInvExcludes
<1>1. ASSUME NEW t \in Thread, Call(t) PROVE LockInv'
  BY <1>1, LocksUntouched DEF Call, LockedPcs, BusPcs
<1>2. ASSUME NEW t \in Thread, LockMutex(t) PROVE LockInv'
  <2>1. \A u \in Thread : u # t /\ pc[u] \in LockedPcs
                            => ProcOf[u] # ProcOf[t]
    BY <1>2 DEF LockMutex, LockInv
  <2> QED
    BY <1>2, <2>1 DEF LockMutex, LockInv, TypeOK, BusPcs
<1>3. ASSUME NEW t \in Thread, LockFlock(t) PROVE LockInv'
  <2>1. \A u \in Thread : pc[u] \in BusPcs => ProcOf[u] = ProcOf[t]
    BY <1>3 DEF LockFlock, LockInv
  <2>2. pc[t] \in LockedPcs
    BY <1>3 DEF LockFlock, LockedPcs
  <2> QED
    BY <1>3, <2>1, <2>2 DEF LockFlock, LockInv, TypeOK
<1>4. ASSUME NEW t \in Thread, FlockFails(t) \/ UnlockMutex(t)
      PROVE LockInv'
  <2>1. pc[t] \in LockedPcs /\ pc' = [pc EXCEPT ![t] = "idle"]
    BY <1>4 DEF FlockFails, UnlockMutex, LockedPcs
  <2>2. \A u \in Thread : u # t /\ pc[u] \in LockedPcs
                            => ProcOf[u] # ProcOf[t]
    BY <2>1 DEF LockInv
  <2>3. mutex' = [mutex EXCEPT ![ProcOf[t]] = NoThread] /\ flock' = flock
    BY <1>4 DEF FlockFails, UnlockMutex
  <2> QED
    BY <2>1, <2>2, <2>3 DEF LockInv, TypeOK, LockedPcs, BusPcs
<1>5. ASSUME NEW t \in Thread, UnlockFlock(t) PROVE LockInv'
  <2>1. pc[t] \in BusPcs
    BY <1>5 DEF UnlockFlock, BusPcs
  <2>2. \A u \in Thread : u # t => pc[u] \notin BusPcs
    BY <1>0, <2>1 DEF BusExclusive
  <2> QED
    BY <1>5, <2>1, <2>2 DEF UnlockFlock, LockInv, TypeOK, LockedPcs, BusPcs
<1>6. ASSUME NEW t \in Thread,
             \/ SendStart(t) \/ StartWriteFails(t) \/ StartAcked(t)
             \/ TransferCommand(t) \/ CommandAcked(t)
             \/ TransferData(t) \/ DataAcked(t) \/ TransferFails(t)
             \/ Refused(t) \/ TimedOut(t) \/ PollFails(t)
      PROVE LockInv'
  <2>1. UNCHANGED locks
    BY <1>6 DEF SendStart, StartWriteFails, StartAcked, TransferCommand,
      CommandAcked, TransferData, DataAcked, TransferFails, Refused,
      TimedOut, PollFails
  <2>2. pc[t] \in BusPcs /\ \E s : pc' = [pc EXCEPT ![t] = s]
    BY <1>6 DEF SendStart, StartWriteFails, StartAcked, TransferCommand,
      CommandAcked, TransferData, DataAcked, TransferFails, Refused,
      TimedOut, PollFails, BusPcs, WaitPcs
  <2> QED
    BY <2>1, <2>2, LocksUntouched DEF LockedPcs
<1>7. ASSUME NEW p \in Proc, Crash(p) PROVE LockInv'
  <2>1. \A t \in Thread : pc'[t] \in LockedPcs
          => ProcOf[t] # p /\ pc'[t] = pc[t]
    BY <1>7 DEF Crash, LockedPcs, BusPcs
  <2>2. \A t \in Thread : ProcOf[t] # p => mutex'[ProcOf[t]] = mutex[ProcOf[t]]
    BY <1>7 DEF Crash, TypeOK
  <2>3. \A t \in Thread : pc'[t] \in BusPcs => flock' = flock
    BY <1>7, <2>1 DEF Crash, LockInv, LockedPcs
  <2> QED
    BY <2>1, <2>2, <2>3 DEF LockInv, LockedPcs
<1>8. ASSUME NEW p \in Proc, Restart(p) PROVE LockInv'
  <2>1. \A t \in Thread : pc'[t] \in LockedPcs => pc'[t] = pc[t]
    BY <1>8 DEF Restart, LockedPcs, BusPcs
  <2> QED
    BY <1>8, <2>1 DEF Restart, LockInv, LockedPcs, locks
<1>9. CASE \/ Deliver \/ LoseByte \/ McuStep \/ McuGiveUp \/ Finished
           \/ UNCHANGED vars
  <2>1. UNCHANGED <<pc, mutex, flock>>
    BY <1>9 DEF Deliver, LoseByte, McuStep, McuStart, McuAcceptCommand,
      McuRefuse, McuReadDone, McuWriteDone, McuGiveUp, Finished, vars, host,
      locks
  <2> QED
    BY <2>1 DEF LockInv
<1> QED
  BY <1>1, <1>2, <1>3, <1>4, <1>5, <1>6, <1>7, <1>8, <1>9 DEF Next, HostStep

(* One exchange at a time on the bus, for any number of processes and      *)
(* threads, whatever fails and whichever process is killed.                *)
THEOREM Exclusion == Spec => []BusExclusive
<1>1. Init => TypeOK /\ LockInv
  BY TypeInit, LockInvInit
<1>2. TypeOK /\ LockInv /\ [Next]_vars => (TypeOK /\ LockInv)'
  BY TypeStep, LockInvStep
<1>3. TypeOK /\ LockInv => BusExclusive
  BY LockInvExcludes
<1> QED
  BY <1>1, <1>2, <1>3, PTL DEF Spec

-----------------------------------------------------------------------------
(* The locks are released.  The converse of LockInv: a mutex belongs to a  *)
(* thread that is inside its section, of the process of the mutex, and the *)
(* lock file to a process of which a thread is between flock and unlock.   *)

LocksInUse ==
  /\ \A p \in Proc : mutex[p] # NoThread =>
       mutex[p] \in Thread /\ ProcOf[mutex[p]] = p /\ pc[mutex[p]] \in LockedPcs
  /\ flock # NoProc => \E t \in Thread : ProcOf[t] = flock /\ pc[t] \in BusPcs

(* A process is killed and started again with all of its threads.          *)
DiesWhole ==
  \A t, u \in Thread : ProcOf[t] = ProcOf[u] /\ pc[t] = "dead" => pc[u] = "dead"

LEMMA InUseInit == Init => LocksInUse /\ DiesWhole
BY DEF Init, LocksInUse, DiesWhole

LEMMA DiesWholeStep == TypeOK /\ DiesWhole /\ [Next]_vars => DiesWhole'
<1> SUFFICES ASSUME TypeOK, DiesWhole, [Next]_vars PROVE DiesWhole'
  OBVIOUS
<1>1. ASSUME NEW t \in Thread, Call(t) \/ HostStep(t) PROVE DiesWhole'
  <2>1. \E s \in Pcs \ {"dead"} : pc[t] # "dead" /\ pc' = [pc EXCEPT ![t] = s]
    BY <1>1 DEF Call, HostStep, LockMutex, LockFlock, FlockFails, SendStart, StartWriteFails,
      StartAcked, TransferCommand, CommandAcked, TransferData, DataAcked, TransferFails,
      Refused, TimedOut, PollFails, UnlockFlock, UnlockMutex, Goto, Fail, WaitPcs, Pcs,
      LockedPcs, BusPcs
  <2>2. \A u \in Thread : pc'[u] = "dead" <=> pc[u] = "dead"
    BY <2>1 DEF TypeOK
  <2> QED
    BY <2>2 DEF DiesWhole
<1>2. ASSUME NEW p \in Proc, Crash(p) \/ Restart(p) PROVE DiesWhole'
  <2>1. \/ pc' = [t \in Thread |-> IF ProcOf[t] = p THEN "dead" ELSE pc[t]]
        \/ pc' = [t \in Thread |-> IF ProcOf[t] = p THEN "idle" ELSE pc[t]]
    BY <1>2 DEF Crash, Restart
  <2> QED
    BY <2>1 DEF DiesWhole
<1>3. CASE \/ Deliver \/ LoseByte \/ McuStep \/ McuGiveUp \/ Finished
           \/ UNCHANGED vars
  <2>1. UNCHANGED pc
    BY <1>3 DEF Deliver, LoseByte, McuStep, McuStart, McuAcceptCommand,
      McuRefuse, McuReadDone, McuWriteDone, McuGiveUp, Finished, vars, host
  <2> QED
    BY <2>1 DEF DiesWhole
<1> QED
  BY <1>1, <1>2, <1>3 DEF Next

(* A step of t that keeps it inside the sections it was in.                *)
LEMMA InUseKept ==
  ASSUME TypeOK, LocksInUse, UNCHANGED locks, NEW t \in Thread, NEW s,
         pc' = [pc EXCEPT ![t] = s],
         pc[t] \in LockedPcs => s \in LockedPcs,
         pc[t] \in BusPcs => s \in BusPcs
  PROVE  LocksInUse'
<1>1. \A u \in Thread : /\ pc[u] \in LockedPcs => pc'[u] \in LockedPcs
                        /\ pc[u] \in BusPcs => pc'[u] \in BusPcs
  BY DEF TypeOK
<1> QED
  BY <1>1 DEF LocksInUse, locks, TypeOK

LEMMA InUseStep == TypeOK /\ LocksInUse /\ DiesWhole /\ [Next]_vars => LocksInUse'
<1> SUFFICES ASSUME TypeOK, LocksInUse, DiesWhole, [Next]_vars PROVE LocksInUse'
  OBVIOUS
<1> USE DEF Goto, Fail
<1>1. ASSUME NEW t \in Thread, Call(t) PROVE LocksInUse'
  BY <1>1, InUseKept DEF Call, LockedPcs, BusPcs
<1>2. ASSUME NEW t \in Thread, LockMutex(t) PROVE LocksInUse'
  <2>1. /\ pc[t] = "mutex" /\ pc' = [pc EXCEPT ![t] = "flock"]
        /\ mutex' = [mutex EXCEPT ![ProcOf[t]] = t] /\ flock' = flock
    BY <1>2 DEF LockMutex
  <2>2. pc[t] \notin LockedPcs /\ "flock" \in LockedPcs
    BY <2>1 DEF LockedPcs, BusPcs
  <2>3. \A u \in Thread \ {t} : pc'[u] = pc[u]
    BY <2>1 DEF TypeOK
  <2>4. ASSUME NEW p \in Proc, mutex'[p] # NoThread
        PROVE  mutex'[p] \in Thread /\ ProcOf[mutex'[p]] = p /\ pc'[mutex'[p]] \in LockedPcs
    BY <2>1, <2>2, <2>3, <2>4 DEF LocksInUse, TypeOK
  <2>5. \A u \in Thread : pc[u] \in BusPcs => pc'[u] \in BusPcs
    BY <2>2, <2>3 DEF LockedPcs
  <2> QED
    BY <2>1, <2>4, <2>5 DEF LocksInUse
<1>3. ASSUME NEW t \in Thread, LockFlock(t) PROVE LocksInUse'
  <2>1. /\ pc[t] = "flock" /\ pc' = [pc EXCEPT ![t] = "start"]
        /\ flock' = ProcOf[t] /\ mutex' = mutex
    BY <1>3 DEF LockFlock
  <2>2. pc'[t] = "start" /\ \A u \in Thread \ {t} : pc'[u] = pc[u]
    BY <2>1 DEF TypeOK
  <2>3. "start" \in BusPcs /\ "start" \in LockedPcs
    BY DEF LockedPcs, BusPcs
  <2> QED
    BY <2>1, <2>2, <2>3 DEF LocksInUse
<1>4. ASSUME NEW t \in Thread, FlockFails(t) \/ UnlockMutex(t) PROVE LocksInUse'
  <2>1. /\ pc[t] \in {"flock", "unlock"} /\ pc' = [pc EXCEPT ![t] = "idle"]
        /\ mutex' = [mutex EXCEPT ![ProcOf[t]] = NoThread] /\ flock' = flock
    BY <1>4 DEF FlockFails, UnlockMutex
  <2>2. pc[t] \notin BusPcs /\ \A u \in Thread \ {t} : pc'[u] = pc[u]
    BY <2>1 DEF BusPcs, TypeOK
  <2>3. \A p \in Proc : /\ p = ProcOf[t] => mutex'[p] = NoThread
                        /\ p # ProcOf[t] => mutex'[p] = mutex[p]
    BY <2>1 DEF TypeOK
  <2>4. \A u \in Thread : pc[u] \in BusPcs => pc'[u] \in BusPcs
    BY <2>2
  <2> QED
    BY <2>1, <2>2, <2>3, <2>4 DEF LocksInUse
<1>5. ASSUME NEW t \in Thread, UnlockFlock(t) PROVE LocksInUse'
  <2>1. /\ pc' = [pc EXCEPT ![t] = "unlock"] /\ flock' = NoProc /\ mutex' = mutex
    BY <1>5 DEF UnlockFlock
  <2>2. \A u \in Thread : pc[u] \in LockedPcs => pc'[u] \in LockedPcs
    BY <2>1 DEF TypeOK, LockedPcs
  <2> QED
    BY <2>1, <2>2 DEF LocksInUse
<1>6. ASSUME NEW t \in Thread,
             \/ SendStart(t) \/ StartWriteFails(t) \/ StartAcked(t)
             \/ TransferCommand(t) \/ CommandAcked(t)
             \/ TransferData(t) \/ DataAcked(t) \/ TransferFails(t)
             \/ Refused(t) \/ TimedOut(t) \/ PollFails(t)
      PROVE LocksInUse'
  <2>1. UNCHANGED locks
    BY <1>6 DEF SendStart, StartWriteFails, StartAcked, TransferCommand,
      CommandAcked, TransferData, DataAcked, TransferFails, Refused,
      TimedOut, PollFails
  <2>2. \E s \in BusPcs : pc' = [pc EXCEPT ![t] = s]
    BY <1>6 DEF SendStart, StartWriteFails, StartAcked, TransferCommand,
      CommandAcked, TransferData, DataAcked, TransferFails, Refused,
      TimedOut, PollFails, BusPcs
  <2> QED
    BY <2>1, <2>2, InUseKept DEF LockedPcs
<1>7. ASSUME NEW p \in Proc, Crash(p) PROVE LocksInUse'
  <2>1. /\ flock' = IF flock = p THEN NoProc ELSE flock
        /\ mutex' = [mutex EXCEPT ![p] = NoThread]
        /\ pc' = [t \in Thread |-> IF ProcOf[t] = p THEN "dead" ELSE pc[t]]
    BY <1>7 DEF Crash
  <2>2. \A t \in Thread : ProcOf[t] # p => pc'[t] = pc[t]
    BY <2>1
  <2>3. \A q \in Proc : mutex'[q] # NoThread => q # p /\ mutex'[q] = mutex[q]
    BY <2>1 DEF TypeOK
  <2> QED
    BY <2>1, <2>2, <2>3 DEF LocksInUse
<1>8. ASSUME NEW p \in Proc, Restart(p) PROVE LocksInUse'
  <2>1. /\ flock = NoProc /\ UNCHANGED locks
        /\ pc' = [t \in Thread |-> IF ProcOf[t] = p THEN "idle" ELSE pc[t]]
        /\ \E t \in Thread : ProcOf[t] = p /\ pc[t] = "dead"
    BY <1>8 DEF Restart
  <2>2. \A t \in Thread : ProcOf[t] # p => pc'[t] = pc[t]
    BY <2>1
  <2>3. \A t \in Thread : ProcOf[t] = p => pc[t] \notin LockedPcs
    BY <2>1 DEF DiesWhole, LockedPcs, BusPcs
  <2> QED
    BY <2>1, <2>2, <2>3 DEF LocksInUse, locks
<1>9. CASE \/ Deliver \/ LoseByte \/ McuStep \/ McuGiveUp \/ Finished
           \/ UNCHANGED vars
  <2>1. UNCHANGED <<pc, mutex, flock>>
    BY <1>9 DEF Deliver, LoseByte, McuStep, McuStart, McuAcceptCommand,
      McuRefuse, McuReadDone, McuWriteDone, McuGiveUp, Finished, vars, host,
      locks
  <2> QED
    BY <2>1 DEF LocksInUse
<1> QED
  BY <1>1, <1>2, <1>3, <1>4, <1>5, <1>6, <1>7, <1>8, <1>9 DEF Next, HostStep

LEMMA WholeInvariant == Spec => [](LocksInUse /\ DiesWhole)
<1>1. Init => TypeOK /\ LocksInUse /\ DiesWhole
  BY TypeInit, InUseInit
<1>2. TypeOK /\ LocksInUse /\ DiesWhole /\ [Next]_vars => (TypeOK /\ LocksInUse /\ DiesWhole)'
  BY TypeStep, InUseStep, DiesWholeStep
<1> QED
  BY <1>1, <1>2, PTL DEF Spec

(* No error path keeps a lock: whoever owns a lock is inside a call of a   *)
(* process that lives, before the statement that releases it, whatever     *)
(* fails and whoever is killed (spi_reg.c:123-128, 166-168).               *)
THEOREM LocksAreReleased == Spec => []LocksInUse
BY WholeInvariant, PTL

(* A thread that waits for no lock, or for one it can have.                *)
WaitsForNobody(t) ==
  \/ pc[t] = "mutex" /\ mutex[ProcOf[t]] = NoThread
  \/ pc[t] = "flock" /\ flock \in {NoProc, ProcOf[t]}
  \/ pc[t] \in BusPcs \cup {"unlock"}

NoCircle ==
  \A t \in Thread : pc[t] \in {"mutex", "flock"} => \E u \in Thread : WaitsForNobody(u)

(* The two locks, which every call takes in the same order, make no        *)
(* circle: while anybody waits for one, some thread waits for neither, for *)
(* any number of processes and threads, errors and kills                   *)
(* (spi_reg.c:123-128).                                                    *)
THEOREM LocksMakeNoCircle == Spec => []NoCircle
<1>1. ASSUME LocksInUse, NEW t \in Thread, pc[t] = "flock"
      PROVE  \E u \in Thread : WaitsForNobody(u)
  <2>1. CASE flock = NoProc
    BY <1>1, <2>1 DEF WaitsForNobody
  <2>2. CASE flock # NoProc
    <3>1. PICK u \in Thread : pc[u] \in BusPcs
      BY <1>1, <2>2 DEF LocksInUse
    <3> QED
      BY <3>1 DEF WaitsForNobody
  <2> QED
    BY <2>1, <2>2
<1>2. ASSUME LocksInUse, NEW t \in Thread, pc[t] = "mutex"
      PROVE  \E u \in Thread : WaitsForNobody(u)
  <2>1. CASE mutex[ProcOf[t]] = NoThread
    BY <1>2, <2>1 DEF WaitsForNobody
  <2>2. CASE mutex[ProcOf[t]] # NoThread
    <3>1. PICK u \in Thread : pc[u] \in LockedPcs
      BY <1>2, <2>2 DEF LocksInUse
    <3>2. CASE pc[u] = "flock"
      BY <1>1, <1>2, <3>2
    <3>3. CASE pc[u] # "flock"
      BY <3>1, <3>3 DEF WaitsForNobody, LockedPcs
    <3> QED
      BY <3>2, <3>3
  <2> QED
    BY <2>1, <2>2
<1>3. LocksInUse => NoCircle
  BY <1>1, <1>2 DEF NoCircle
<1> QED
  BY <1>3, LocksAreReleased, PTL

(* How far a call has come.                                                *)
Place ==
  [mutex |-> 0, flock |-> 1, start |-> 2, wait_start |-> 3, command |-> 4, wait_command |-> 5,
   data |-> 6, wait_data |-> 7, out |-> 8, unlock |-> 9, idle |-> 10, dead |-> 10]

GoesForward ==
  [][\A t \in Thread : pc[t] \notin {"idle", "dead"} /\ pc'[t] # pc[t]
       => Place[pc'[t]] > Place[pc[t]]]_vars

(* A call only goes forward: nothing is sent again and no wait starts      *)
(* over, so a call, whatever fails, is over after ten statements of its    *)
(* thread (spi_reg.c:123-169, 180-221).                                    *)
THEOREM CallsGoForward == Spec => GoesForward
<1> DEFINE A == \A t \in Thread : pc[t] \notin {"idle", "dead"} /\ pc'[t] # pc[t]
                  => Place[pc'[t]] > Place[pc[t]]
<1>0. ASSUME TypeOK, NEW t \in Thread, NEW a, NEW b, Goto(t, a, b)
      PROVE  pc[t] = a /\ pc'[t] = b /\ \A u \in Thread \ {t} : pc'[u] = pc[u]
  BY <1>0 DEF Goto, TypeOK
<1>1. ASSUME TypeOK, NEW t \in Thread, Call(t) PROVE A
  <2>1. pc[t] = "idle" /\ \A u \in Thread \ {t} : pc'[u] = pc[u]
    BY <1>0, <1>1 DEF Call
  <2> QED
    BY <2>1
<1>2. ASSUME TypeOK, NEW t \in Thread, HostStep(t) PROVE A
  <2>1. \E to : Goto(t, pc[t], to)
    BY <1>2 DEF HostStep, LockMutex, LockFlock, FlockFails, SendStart, StartWriteFails,
      StartAcked, TransferCommand, CommandAcked, TransferData, DataAcked, TransferFails,
      Refused, TimedOut, PollFails, UnlockFlock, UnlockMutex, Goto, Fail
  <2>2. \A u \in Thread \ {t} : pc'[u] = pc[u]
    BY <1>0, <1>2, <2>1
  <2>3. \/ pc[t] = "mutex" /\ pc'[t] = "flock"
        \/ pc[t] = "flock" /\ pc'[t] \in {"start", "idle"}
        \/ pc[t] = "start" /\ pc'[t] \in {"wait_start", "out"}
        \/ pc[t] = "wait_start" /\ pc'[t] \in {"command", "out"}
        \/ pc[t] = "command" /\ pc'[t] \in {"wait_command", "out"}
        \/ pc[t] = "wait_command" /\ pc'[t] \in {"data", "out"}
        \/ pc[t] = "data" /\ pc'[t] \in {"wait_data", "out"}
        \/ pc[t] = "wait_data" /\ pc'[t] = "out"
        \/ pc[t] = "out" /\ pc'[t] = "unlock"
        \/ pc[t] = "unlock" /\ pc'[t] = "idle"
    <3>1. CASE LockMutex(t) \/ LockFlock(t) \/ FlockFails(t) \/ SendStart(t)
      BY <1>0, <1>2, <3>1 DEF LockMutex, LockFlock, FlockFails, SendStart
    <3>2. CASE StartWriteFails(t) \/ StartAcked(t) \/ CommandAcked(t) \/ TransferCommand(t)
      BY <1>0, <1>2, <3>2 DEF StartWriteFails, StartAcked, CommandAcked, TransferCommand, Fail
    <3>3. CASE TransferData(t) \/ DataAcked(t) \/ UnlockFlock(t) \/ UnlockMutex(t)
      BY <1>0, <1>2, <3>3 DEF TransferData, DataAcked, UnlockFlock, UnlockMutex
    <3>4. CASE TransferFails(t) \/ Refused(t) \/ TimedOut(t) \/ PollFails(t)
      <4>1. pc[t] \in WaitPcs \cup {"command", "data"} /\ Goto(t, pc[t], "out")
        BY <3>4 DEF TransferFails, Refused, TimedOut, PollFails, Fail
      <4>2. pc'[t] = "out"
        BY <1>0, <1>2, <4>1
      <4> QED
        BY <4>1, <4>2 DEF WaitPcs
    <3> QED
      BY <1>2, <3>1, <3>2, <3>3, <3>4 DEF HostStep
  <2>4. Place[pc'[t]] > Place[pc[t]]
    BY <2>3 DEF Place
  <2> QED
    BY <2>2, <2>4
<1>3. ASSUME TypeOK, DiesWhole, NEW p \in Proc, Crash(p) \/ Restart(p) PROVE A
  <2>1. \A t \in Thread : pc'[t] = pc[t] \/ pc'[t] = "dead" \/ pc[t] = "dead"
    BY <1>3 DEF Crash, Restart, DiesWhole
  <2>2. \A s \in Pcs \ {"idle", "dead"} : Place["dead"] > Place[s]
    BY DEF Place, Pcs, LockedPcs, BusPcs
  <2>3. \A t \in Thread : pc[t] \in Pcs
    BY <1>3 DEF TypeOK
  <2> QED
    BY <2>1, <2>2, <2>3
<1>4. ASSUME UNCHANGED pc PROVE A
  BY <1>4
<1>5. TypeOK /\ DiesWhole /\ [Next]_vars => [A]_vars
  <2> SUFFICES ASSUME TypeOK, DiesWhole, Next PROVE A
    OBVIOUS
  <2>1. CASE \/ Deliver \/ LoseByte \/ McuStep \/ McuGiveUp \/ Finished
    <3>1. UNCHANGED pc
      BY <2>1 DEF Deliver, LoseByte, McuStep, McuStart, McuAcceptCommand,
        McuRefuse, McuReadDone, McuWriteDone, McuGiveUp, Finished, vars, host
    <3> QED
      BY <1>4, <3>1
  <2> QED
    BY <1>1, <1>2, <1>3, <2>1 DEF Next
<1>6. Spec => [][A]_vars
  <2> HIDE DEF A
  <2> QED
    BY <1>5, TypeCorrect, WholeInvariant, PTL DEF Spec
<1> QED
  BY <1>6 DEF GoesForward

-----------------------------------------------------------------------------
(* Changes of the registers.  Whatever frame the MCU is about to write and *)
(* finds correct is a write some caller asked for: its checksum was made   *)
(* for the command the MCU received.                                       *)

InCall(t) == pc[t] \notin {"idle", "dead"}

IssuedInv ==
  /\ \A t \in Thread : InCall(t) => req[t] \in issued
  /\ mcuMode = "gotdata" /\ mcuCmd.op = "write" /\ CrcMatches(mcuCmd, mcuData)
       => [op |-> "write", addr |-> mcuCmd.addr, val |-> mcuData.val] \in issued

LEMMA JunkMatchesNothing == \A c \in Cmd : ~CrcMatches(c, Junk)
<1> SUFFICES ASSUME NEW c \in Cmd, CrcMatches(c, Junk) PROVE FALSE
  OBVIOUS
<1>1. NoCrc = <<c, NoVal>>
  BY DEF CrcMatches, Junk, Crc
<1> QED
  BY <1>1

LEMMA DataFrameMatches ==
  ASSUME NEW r \in Request, NEW c \in Cmd, c.op = "write",
         CrcMatches(c, DataFrame(r))
  PROVE  r = [op |-> "write", addr |-> c.addr, val |-> DataFrame(r).val]
<1>1. CASE r.op = "read"
  BY <1>1, JunkMatchesNothing DEF DataFrame
<1>2. CASE r.op = "write"
  <2>1. DataFrame(r) = [val |-> r.val, crc |-> <<Command(r), r.val>>]
    BY <1>2 DEF DataFrame, Frame, Crc
  <2>2. c = Command(r)
    BY <2>1 DEF CrcMatches, Crc
  <2> QED
    BY <1>2, <2>1, <2>2 DEF Command, Request
<1> QED
  BY <1>1, <1>2 DEF Request

LEMMA IssuedInvInit == Init => IssuedInv
BY DEF Init, IssuedInv, InCall

LEMMA IssuedInvStep == TypeOK /\ IssuedInv /\ [Next]_vars => IssuedInv'
<1> SUFFICES ASSUME TypeOK, IssuedInv, [Next]_vars PROVE IssuedInv'
  OBVIOUS
<1> USE DEF Goto, Fail, InCall
<1>1. ASSUME NEW t \in Thread, Call(t) PROVE IssuedInv'
  <2>1. UNCHANGED mcu /\ issued \subseteq issued'
    BY <1>1 DEF Call
  <2>2. \A u \in Thread : InCall(u)' => req'[u] \in issued'
    BY <1>1 DEF Call, TypeOK, IssuedInv
  <2> QED
    BY <2>1, <2>2 DEF IssuedInv, mcu, CrcMatches
<1>2. ASSUME NEW t \in Thread, TransferCommand(t) PROVE IssuedInv'
  <2>1. \A u \in Thread : InCall(u)' => req'[u] \in issued'
    BY <1>2 DEF TransferCommand, TypeOK, IssuedInv
  <2>2. CASE mcuMode = "data"
    <3>1. mcuData' = Junk /\ mcuCmd' = mcuCmd
      BY <1>2, <2>2 DEF TransferCommand
    <3>2. ~CrcMatches(mcuCmd', mcuData')
      BY <3>1, JunkMatchesNothing DEF TypeOK
    <3> QED
      BY <2>1, <3>2 DEF IssuedInv
  <2>3. CASE mcuMode # "data"
    <3>1. mcuMode' # "gotdata"
          \/ UNCHANGED <<mcuMode, mcuCmd, mcuData, issued>>
      BY <1>2, <2>3 DEF TransferCommand
    <3> QED
      BY <2>1, <3>1 DEF IssuedInv, CrcMatches
  <2> QED
    BY <2>2, <2>3
<1>3. ASSUME NEW t \in Thread, TransferData(t) PROVE IssuedInv'
  <2>1. \A u \in Thread : InCall(u)' => req'[u] \in issued'
    BY <1>3 DEF TransferData, TypeOK, IssuedInv
  <2>2. CASE mcuMode = "data" /\ mcuCmd.op = "write"
    <3>1. mcuData' \in {Junk, DataFrame(req[t])} /\ mcuCmd' = mcuCmd
          /\ issued' = issued
      BY <1>3, <2>2 DEF TransferData
    <3>2. req[t] \in issued /\ req[t] \in Request
      BY <1>3 DEF TransferData, IssuedInv, TypeOK
    <3>3. CrcMatches(mcuCmd', mcuData')
            => [op |-> "write", addr |-> mcuCmd.addr, val |-> mcuData'.val]
                 \in issued
      BY <2>2, <3>1, <3>2, JunkMatchesNothing, DataFrameMatches DEF TypeOK
    <3> QED
      BY <2>1, <3>1, <3>3 DEF IssuedInv
  <2>3. CASE ~(mcuMode = "data" /\ mcuCmd.op = "write")
    <3>1. \/ mcuMode' # "gotdata"
          \/ mcuCmd'.op = "read"
          \/ UNCHANGED <<mcuMode, mcuCmd, mcuData, issued>>
      BY <1>3, <2>3 DEF TransferData
    <3> QED
      BY <2>1, <3>1 DEF IssuedInv, CrcMatches
  <2> QED
    BY <2>2, <2>3
<1>4. ASSUME NEW t \in Thread,
             \/ LockMutex(t) \/ LockFlock(t) \/ FlockFails(t)
             \/ SendStart(t) \/ StartWriteFails(t) \/ StartAcked(t)
             \/ CommandAcked(t) \/ DataAcked(t) \/ TransferFails(t)
             \/ Refused(t) \/ TimedOut(t) \/ PollFails(t)
             \/ UnlockFlock(t) \/ UnlockMutex(t)
      PROVE IssuedInv'
  <2>1. UNCHANGED <<mcu, req, issued>>
    BY <1>4 DEF LockMutex, LockFlock, FlockFails, SendStart,
      StartWriteFails, StartAcked, CommandAcked, DataAcked, TransferFails,
      Refused, TimedOut, PollFails, UnlockFlock, UnlockMutex, hist
  <2>2. InCall(t) /\ \E s : pc' = [pc EXCEPT ![t] = s]
    BY <1>4 DEF LockMutex, LockFlock, FlockFails, SendStart,
      StartWriteFails, StartAcked, CommandAcked, DataAcked, TransferFails,
      Refused, TimedOut, PollFails, UnlockFlock, UnlockMutex, WaitPcs
  <2> QED
    BY <2>1, <2>2 DEF IssuedInv, TypeOK, mcu, CrcMatches
<1>5. ASSUME NEW p \in Proc, Crash(p) \/ Restart(p) PROVE IssuedInv'
  <2>1. UNCHANGED <<mcu, req, issued>>
    BY <1>5 DEF Crash, Restart, hist
  <2>2. \A u \in Thread : InCall(u)' => InCall(u)
    BY <1>5 DEF Crash, Restart
  <2> QED
    BY <2>1, <2>2 DEF IssuedInv, mcu, CrcMatches
<1>6. CASE \/ McuStart \/ McuAcceptCommand \/ McuRefuse \/ McuReadDone
           \/ McuWriteDone \/ McuGiveUp
  <2>1. mcuMode' # "gotdata" /\ UNCHANGED <<pc, req, issued>>
    BY <1>6 DEF McuStart, McuAcceptCommand, McuRefuse, McuReadDone,
      McuWriteDone, McuGiveUp, host, hist
  <2> QED
    BY <2>1 DEF IssuedInv
<1>7. CASE Deliver \/ LoseByte \/ Finished \/ UNCHANGED vars
  <2>1. UNCHANGED <<pc, req, mcu, issued>>
    BY <1>7 DEF Deliver, LoseByte, Finished, vars, host, hist, mcu
  <2> QED
    BY <2>1 DEF IssuedInv, mcu, CrcMatches
<1> QED
  BY <1>1, <1>2, <1>3, <1>4, <1>5, <1>6, <1>7 DEF Next, HostStep, McuStep

LEMMA ChangeStep ==
  TypeOK /\ IssuedInv /\ [Next]_vars => [regs' # regs => IntendedChange]_regs
<1> SUFFICES ASSUME TypeOK, IssuedInv, [Next]_vars, regs' # regs
             PROVE  IntendedChange
  OBVIOUS
<1>1. McuWriteDone
  BY DEF Next, HostStep, McuStep, vars, mcu, host, locks, line, hist, Call,
    LockMutex, LockFlock, FlockFails, SendStart, StartWriteFails,
    StartAcked, TransferCommand, CommandAcked, TransferData, DataAcked,
    TransferFails, Refused, TimedOut, PollFails, UnlockFlock, UnlockMutex,
    Crash, Restart, Deliver, LoseByte, McuStart, McuAcceptCommand,
    McuRefuse, McuReadDone, McuGiveUp, Finished
<1>2. /\ mcuMode = "gotdata"
      /\ mcuCmd.op = "write"
      /\ CrcMatches(mcuCmd, mcuData)
      /\ regs' = [regs EXCEPT ![mcuCmd.addr] = mcuData.val]
  BY <1>1 DEF McuWriteDone
<1> DEFINE r == [op |-> "write", addr |-> mcuCmd.addr, val |-> mcuData.val]
<1>3. r \in issued
  BY <1>2 DEF IssuedInv
<1> QED
  BY <1>2, <1>3 DEF IntendedChange

(* No write reaches another register, or another value, than its caller    *)
(* asked for, although the command frame itself is not protected.          *)
THEOREM ChangesIntended == Spec => NoMisdirectedWrite
<1>1. Init => TypeOK /\ IssuedInv
  BY TypeInit, IssuedInvInit
<1>2. TypeOK /\ IssuedInv /\ [Next]_vars => (TypeOK /\ IssuedInv)'
  BY TypeStep, IssuedInvStep
<1> QED
  BY <1>1, <1>2, ChangeStep, PTL DEF Spec, NoMisdirectedWrite

-----------------------------------------------------------------------------
(* Reads.  The value of a successful read was latched by the MCU while the *)
(* call was running.  The reason is that sending the command frame leaves  *)
(* the MCU in another mode than "data": if it is in that mode when the     *)
(* data frame is sent, it latched the register after the command frame,    *)
(* however far the answers are out of step.                                *)

Fits(t, frame) == CrcMatches(Command(req[t]), frame)

FreshInv ==
  /\ \A t \in Thread : InCall(t) =>
       req[t] \in Request /\ regs[req[t].addr] \in seen[t]
  /\ \A t \in Thread :
       pc[t] \in {"wait_command", "data"} /\ mcuMode = "data"
         /\ Fits(t, mcuData) => mcuData.val \in seen[t]
  /\ \A t \in Thread :
       pc[t] = "wait_data" /\ Fits(t, rxbuf[ProcOf[t]])
         => rxbuf[ProcOf[t]].val \in seen[t]
  /\ ReadFresh

LEMMA FreshInit == Init => FreshInv
BY DEF Init, FreshInv, ReadFresh, InCall, Returning

(* The parts of FreshInv, one by one, for a step that keeps what they      *)
(* mention or lets seen grow.                                              *)
LEMMA FreshQuiet ==
  ASSUME FreshInv,
         UNCHANGED <<req, ret, got, regs, seen, mcuData>>,
         mcuMode' = "data" => mcuMode = "data",
         \A t \in Thread :
           \/ UNCHANGED rxbuf
           \/ pc'[t] # "wait_data",
         \A t \in Thread :
           \/ pc'[t] = pc[t]
           \/ pc[t] = "wait_command" /\ pc'[t] = "data"
           \/ pc[t] = "out" /\ pc'[t] = "unlock"
           \/ /\ InCall(t)
              /\ pc'[t] \in {"flock", "start", "wait_start", "command"}
           \/ pc'[t] \in {"idle", "dead"}
  PROVE  FreshInv'
BY DEF FreshInv, ReadFresh, Returning, InCall, Fits, CrcMatches, Command, Crc

LEMMA FreshFails ==
  ASSUME TypeOK, FreshInv, NEW t \in Thread, NEW s \in {"out", "idle"},
         NEW code, code # 0,
         pc' = [pc EXCEPT ![t] = s], ret' = [ret EXCEPT ![t] = code],
         InCall(t),
         UNCHANGED <<req, got, rxbuf, mcu, seen>>
  PROVE  FreshInv'
<1>1. UNCHANGED <<req, got, rxbuf, mcuMode, mcuData, regs, seen>>
  BY DEF mcu
<1>2. pc'[t] = s /\ ret'[t] = code
  BY DEF TypeOK
<1>3. \A u \in Thread \ {t} : pc'[u] = pc[u] /\ ret'[u] = ret[u]
  BY DEF TypeOK
<1>4. \A u \in Thread : InCall(u)' => InCall(u)
  BY <1>2, <1>3 DEF InCall
<1>5. \A u \in Thread : Fits(u, mcuData)' <=> Fits(u, mcuData)
  BY <1>1 DEF Fits, CrcMatches, Command, Crc
<1>6. \A u \in Thread : Fits(u, rxbuf[ProcOf[u]])' <=> Fits(u, rxbuf[ProcOf[u]])
  BY <1>1 DEF Fits, CrcMatches, Command, Crc
<1>7. ReadFresh'
  <2> SUFFICES ASSUME NEW u \in Thread, Returning(u, "read")'
               PROVE  got'[u] \in seen'[u]
    BY DEF ReadFresh
  <2>1. CASE u = t
    BY <2>1, <1>2 DEF Returning
  <2>2. CASE u # t
    BY <2>2, <1>1, <1>3 DEF Returning, FreshInv, ReadFresh
  <2> QED
    BY <2>1, <2>2
<1> QED
  BY <1>1, <1>2, <1>3, <1>4, <1>5, <1>6, <1>7 DEF FreshInv

LEMMA FreshStep ==
  TypeOK /\ LockInv /\ FreshInv /\ [Next]_vars => FreshInv'
<1> SUFFICES ASSUME TypeOK, LockInv, FreshInv, [Next]_vars PROVE FreshInv'
  OBVIOUS
<1> USE DEF Goto, Fail
<1>0. BusExclusive
  BY LockInvExcludes
<1>1. ASSUME NEW t \in Thread, Call(t) PROVE FreshInv'
  <2>1. PICK r \in Requests :
          req' = [req EXCEPT ![t] = r] /\ seen' = [seen EXCEPT ![t] = {regs[r.addr]}]
    BY <1>1 DEF Call
  <2>2. r \in Request
    BY <2>1, RequestsAssumption
  <2>3. /\ pc' = [pc EXCEPT ![t] = "mutex"]
        /\ UNCHANGED <<rxbuf, mcuMode, mcuData, regs>>
        /\ \A u \in Thread \ {t} : ret'[u] = ret[u] /\ got'[u] = got[u]
    BY <1>1 DEF Call, TypeOK, mcu
  <2> QED
    BY <2>1, <2>2, <2>3 DEF TypeOK, FreshInv, ReadFresh, Returning, InCall,
      Fits, CrcMatches, Command, Crc
<1>2. ASSUME NEW t \in Thread, LockFlock(t) PROVE FreshInv'
  <2>1. pc[t] = "flock" /\ flock \in {NoProc, ProcOf[t]}
        /\ pc' = [pc EXCEPT ![t] = "start"]
    BY <1>2 DEF LockFlock
  <2>2. \A u \in Thread : pc[u] # "wait_data"
    BY <2>1 DEF LockInv, LockedPcs, BusPcs
  <2> QED
    BY <1>2, <2>1, <2>2, FreshQuiet DEF LockFlock, TypeOK, mcu, hist, InCall
<1>3. ASSUME NEW t \in Thread,
             \/ LockMutex(t) \/ SendStart(t) \/ StartAcked(t)
             \/ CommandAcked(t) \/ UnlockFlock(t) \/ UnlockMutex(t)
      PROVE  FreshInv'
  <2>1. UNCHANGED <<req, ret, got, regs, seen, rxbuf, mcuMode, mcuData>>
    BY <1>3 DEF LockMutex, SendStart, StartAcked, CommandAcked, UnlockFlock,
      UnlockMutex, mcu, hist
  <2>2. \E s : /\ pc' = [pc EXCEPT ![t] = s]
               /\ \/ pc[t] = "wait_command" /\ s = "data"
                  \/ pc[t] = "out" /\ s = "unlock"
                  \/ InCall(t) /\ s \in {"flock", "wait_start", "command"}
                  \/ s = "idle"
    BY <1>3 DEF LockMutex, SendStart, StartAcked, CommandAcked, UnlockFlock,
      UnlockMutex, InCall
  <2> QED
    BY <2>1, <2>2, FreshQuiet DEF TypeOK
<1>4. ASSUME NEW t \in Thread,
             \/ FlockFails(t) \/ StartWriteFails(t) \/ TransferFails(t)
             \/ Refused(t) \/ TimedOut(t) \/ PollFails(t)
      PROVE  FreshInv'
  <2>1. \E s \in {"out", "idle"}, code \in {-1, -2} :
          pc' = [pc EXCEPT ![t] = s] /\ ret' = [ret EXCEPT ![t] = code]
    BY <1>4 DEF FlockFails, StartWriteFails, TransferFails, Refused,
      TimedOut, PollFails
  <2>2. InCall(t) /\ UNCHANGED <<req, got, rxbuf, mcu, seen>>
    BY <1>4 DEF FlockFails, StartWriteFails, TransferFails, Refused,
      TimedOut, PollFails, hist, WaitPcs, InCall
  <2>3. -1 # 0 /\ -2 # 0
    OBVIOUS
  <2>4. PICK s \in {"out", "idle"}, code \in {-1, -2} :
          pc' = [pc EXCEPT ![t] = s] /\ ret' = [ret EXCEPT ![t] = code]
    BY <2>1
  <2>5. code # 0
    BY <2>3, <2>4
  <2> QED
    BY <2>2, <2>4, <2>5, FreshFails
<1>5. ASSUME NEW t \in Thread, TransferCommand(t) PROVE FreshInv'
  <2>1. /\ pc' = [pc EXCEPT ![t] = "wait_command"]
        /\ pc[t] = "command"
        /\ mcuMode' # "data"
        /\ UNCHANGED <<req, ret, got, regs, seen, rxbuf>>
    BY <1>5 DEF TransferCommand
  <2> QED
    BY <2>1 DEF TypeOK, FreshInv, ReadFresh, Returning, InCall, Fits,
      CrcMatches, Command, Crc
<1>6. ASSUME NEW t \in Thread, TransferData(t) PROVE FreshInv'
  <2>1. /\ pc' = [pc EXCEPT ![t] = "wait_data"]
        /\ pc[t] = "data"
        /\ mcuMode' # "data"
        /\ UNCHANGED <<req, ret, got, regs, seen>>
    BY <1>6 DEF TransferData
  <2>2. \E g \in {Junk, mcuData} :
          /\ rxbuf' = [rxbuf EXCEPT ![ProcOf[t]] = g]
          /\ g = Junk \/ mcuMode = "data"
    BY <1>6 DEF TransferData
  <2>3. \A u \in Thread : u # t => pc'[u] # "wait_data"
    BY <1>0, <2>1 DEF BusExclusive, BusPcs, TypeOK
  <2>4. req[t] \in Request /\ Command(req[t]) \in Cmd
    BY <2>1, CommandTypes DEF FreshInv, InCall
  <2>5. Fits(t, rxbuf[ProcOf[t]])' => rxbuf'[ProcOf[t]].val \in seen'[t]
    <3>1. CASE rxbuf' = [rxbuf EXCEPT ![ProcOf[t]] = Junk]
      <4>1. rxbuf'[ProcOf[t]] = Junk
        BY <3>1, ProcOfAssumption DEF TypeOK
      <4> QED
        BY <4>1, <2>1, <2>4, JunkMatchesNothing DEF Fits, CrcMatches, Command,
          Crc
    <3>2. CASE rxbuf' = [rxbuf EXCEPT ![ProcOf[t]] = mcuData]
               /\ mcuMode = "data"
      <4>1. rxbuf'[ProcOf[t]] = mcuData
        BY <3>2, ProcOfAssumption DEF TypeOK
      <4> QED
        BY <4>1, <3>2, <2>1 DEF FreshInv, Fits, CrcMatches, Command, Crc
    <3> QED
      BY <2>2, <3>1, <3>2
  <2> QED
    BY <2>1, <2>3, <2>5 DEF TypeOK, FreshInv, ReadFresh, Returning, InCall
<1>7. ASSUME NEW t \in Thread, DataAcked(t) PROVE FreshInv'
  <2>1. /\ pc[t] = "wait_data"
        /\ pc' = [pc EXCEPT ![t] = "out"]
        /\ UNCHANGED <<req, regs, seen, rxbuf, mcuMode, mcuData>>
        /\ \A u \in Thread \ {t} : ret'[u] = ret[u] /\ got'[u] = got[u]
    BY <1>7 DEF DataAcked, TypeOK, mcu, hist
  <2>2. req[t].op = "read" /\ ret'[t] = 0
          => /\ Fits(t, rxbuf[ProcOf[t]])
             /\ got'[t] = rxbuf[ProcOf[t]].val
    BY <1>7 DEF DataAcked, TypeOK, Fits, CrcMatches
  <2> QED
    BY <2>1, <2>2 DEF TypeOK, FreshInv, ReadFresh, Returning, InCall, Fits,
      CrcMatches, Command, Crc
<1>8. ASSUME NEW p \in Proc, Crash(p) PROVE FreshInv'
  <2>1. \A u \in Thread : pc'[u] \in {pc[u], "dead"}
    BY <1>8 DEF Crash, TypeOK
  <2> QED
    BY <1>8, <2>1, FreshQuiet DEF Crash, mcu, hist
<1>9. ASSUME NEW p \in Proc, Restart(p) PROVE FreshInv'
  <2>1. \A u \in Thread : pc'[u] \in {pc[u], "idle"}
    BY <1>9 DEF Restart, TypeOK
  <2>2. \A u \in Thread : pc[u] # "wait_data"
    BY <1>9 DEF Restart, LockInv, BusPcs
  <2>3. \A u \in Thread : pc'[u] # "wait_data"
    BY <2>1, <2>2
  <2> QED
    BY <1>9, <2>1, <2>3, FreshQuiet DEF Restart, mcu, hist
<1>10. CASE McuAcceptCommand
  <2>1. /\ UNCHANGED <<pc, req, ret, got, rxbuf, regs, seen>>
        /\ mcuCmd # JunkCmd
        /\ \/ mcuData' = Frame(mcuCmd, regs[mcuCmd.addr])
           \/ mcuData' = Junk
    BY <1>10 DEF McuAcceptCommand, host, hist
  <2>2. \A t \in Thread :
          pc[t] \in {"wait_command", "data"} /\ Fits(t, mcuData)'
            => mcuData'.val \in seen[t]
    <3> SUFFICES ASSUME NEW t \in Thread, InCall(t), Fits(t, mcuData)'
                 PROVE  mcuData'.val \in seen[t]
      BY DEF InCall
    <3>1. Command(req[t]) \in Cmd /\ CrcMatches(Command(req[t]), mcuData')
      BY <2>1, CommandTypes DEF FreshInv, Fits, CrcMatches, Command, Crc
    <3>2. mcuData' # Junk
      BY <3>1, JunkMatchesNothing
    <3>3. mcuData'.crc = <<mcuCmd, regs[mcuCmd.addr]>>
          /\ mcuData'.val = regs[mcuCmd.addr]
      BY <2>1, <3>2 DEF Frame, Crc
    <3>4. mcuCmd = Command(req[t])
      BY <3>1, <3>3 DEF CrcMatches, Crc
    <3> QED
      BY <3>3, <3>4 DEF FreshInv, Command
  <2> QED
    BY <2>1, <2>2 DEF FreshInv, ReadFresh, Returning, InCall, Fits,
      CrcMatches, Command, Crc
<1>11. CASE McuWriteDone
  <2>1. mcuMode' # "data" /\ UNCHANGED <<pc, req, ret, got, rxbuf>>
    BY <1>11 DEF McuWriteDone, host
  <2>2. \A t \in Thread : seen[t] \subseteq seen'[t]
    BY <1>11 DEF McuWriteDone
  <2>3. \A t \in Thread : req[t] \in Request /\ regs[req[t].addr] \in seen[t]
          => regs'[req[t].addr] \in seen'[t]
    <3>1. CASE CrcMatches(mcuCmd, mcuData)
      <4>1. /\ regs' = [regs EXCEPT ![mcuCmd.addr] = mcuData.val]
            /\ seen' = [t \in Thread |->
                          IF req[t].addr = mcuCmd.addr
                            THEN seen[t] \cup {mcuData.val} ELSE seen[t]]
        BY <1>11, <3>1 DEF McuWriteDone
      <4>2. regs \in [Addr -> Val]
        BY DEF TypeOK
      <4>3. \A r \in Request : r.addr \in Addr
        BY DEF Request
      <4> QED
        BY <4>1, <4>2, <4>3
    <3>2. CASE ~CrcMatches(mcuCmd, mcuData)
      BY <1>11, <3>2 DEF McuWriteDone
    <3> QED
      BY <3>1, <3>2
  <2> QED
    BY <2>1, <2>2, <2>3 DEF FreshInv, ReadFresh, Returning, InCall, Fits,
      CrcMatches, Command, Crc
<1>12. CASE \/ Deliver \/ LoseByte \/ McuStart \/ McuRefuse \/ McuReadDone
            \/ McuGiveUp \/ Finished \/ UNCHANGED vars
  <2>1. UNCHANGED <<pc, req, ret, got, regs, seen, rxbuf, mcuData>>
        /\ (mcuMode' = "data" => mcuMode = "data")
    BY <1>12 DEF Deliver, LoseByte, McuStart, McuRefuse, McuReadDone,
      McuGiveUp, Finished, vars, host, hist, mcu
  <2> QED
    BY <2>1, FreshQuiet
<1> QED
  BY <1>1, <1>2, <1>3, <1>4, <1>5, <1>6, <1>7, <1>8, <1>9, <1>10, <1>11,
     <1>12 DEF Next, HostStep, McuStep

(* A read that returns 0 returns a value of its register from the time of  *)
(* the call, whatever is lost, late, garbled or killed.                    *)
THEOREM ReadsAreFresh == Spec => []ReadFresh
<1>1. Init => TypeOK /\ LockInv /\ FreshInv
  BY TypeInit, LockInvInit, FreshInit
<1>2. TypeOK /\ LockInv /\ FreshInv /\ [Next]_vars
        => (TypeOK /\ LockInv /\ FreshInv)'
  BY TypeStep, LockInvStep, FreshStep
<1>3. FreshInv => ReadFresh
  BY DEF FreshInv
<1> QED
  BY <1>1, <1>2, <1>3, PTL DEF Spec

-----------------------------------------------------------------------------
(* Atomicity.  No wait ends while its answer is due, and no operation byte *)
(* is exchanged for the other: the faults that are left lose, garble or    *)
(* refuse something, but host and MCU never disagree about which exchange  *)
(* they are in.                                                            *)
InStep == Faults \cap {"late", "poll", "crash", "opcode"} = {}

NoAnswer == wire = <<>> /\ rxq = <<>>

Answered(byte) ==
  \/ wire = <<byte>> /\ rxq = <<>>
  \/ wire = <<>> /\ rxq = <<byte>>

(* Nothing is under way on the line or in the MCU.                         *)
Quiet == uplink = 0 /\ NoAnswer /\ mcuMode \in {"idle", "cmd", "data"}

(* What holds while t waits for each of the three answers, and between.    *)
Starting ==
  \/ uplink \in {0, 1} /\ NoAnswer /\ mcuMode \in {"idle", "cmd", "data"}
  \/ uplink = 0 /\ Answered("A") /\ mcuMode \in {"idle", "cmd"}

DataReady(t) == mcuMode = "idle" \/ (mcuMode = "data" /\ mcuCmd.op = req[t].op)

Commanding(t) ==
  /\ uplink = 0
  /\ \/ NoAnswer /\ mcuMode = "gotcmd" /\ mcuCmd.op \in {req[t].op, "junk"}
     \/ (NoAnswer \/ Answered("A")) /\ DataReady(t)
     \/ Answered("N") /\ mcuMode = "idle"

(* The data frame that the MCU is about to handle is that of t's call.     *)
Held(t) ==
  req[t].op = "write" =>
    sender = ThisCall(t) /\ mcuData \in {Junk, DataFrame(req[t])} /\ ThisCall(t) \notin applied

Finishing(t) ==
  /\ uplink = 0
  /\ \/ NoAnswer /\ mcuMode = "gotdata" /\ mcuCmd.op = req[t].op /\ Held(t)
     \/ (NoAnswer \/ Answered("N")) /\ mcuMode = "idle"
     \/ /\ Answered("A") /\ mcuMode = "idle"
        /\ req[t].op = "write" => ThisCall(t) \in applied

ExchangeInv ==
  /\ (\A t \in Thread : pc[t] \notin WaitPcs) => Quiet
  /\ \A t \in Thread :
       /\ pc[t] = "wait_start" => Starting
       /\ pc[t] = "command" => mcuMode \in {"idle", "cmd"}
       /\ pc[t] = "wait_command" => Commanding(t)
       /\ pc[t] = "data" => DataReady(t)
       /\ pc[t] = "wait_data" => Finishing(t)

(* What a call has delivered and done so far.                              *)
CallInv ==
  \A t \in Thread :
    /\ pc[t] # "dead"
    /\ pc[t] # "idle" => calls[t] > 0
    /\ pc[t] # "idle" /\ ~Returning(t, "read") => got[t] = NoVal
    /\ pc[t] \notin {"idle", "wait_data", "out", "unlock"} => ThisCall(t) \notin applied
    /\ Returning(t, "write") => ThisCall(t) \in applied
    /\ \A c \in applied : c[1] = t => c[2] <= calls[t]

StepInv == ExchangeInv /\ CallInv

LEMMA StepInit == Init => StepInv
BY DEF Init, StepInv, ExchangeInv, CallInv, Quiet, NoAnswer, WaitPcs, Returning, ThisCall

LEMMA OneByte ==
  \A b : <<b>> # <<>> /\ Head(<<b>>) = b /\ Tail(<<b>>) = <<>> /\ Append(<<>>, b) = <<b>>
OBVIOUS

(* Nobody else is in an exchange.                                          *)
LEMMA Alone ==
  ASSUME LockInv, NEW t \in Thread, pc[t] \in BusPcs
  PROVE  \A u \in Thread : u # t => pc[u] \notin BusPcs
BY LockInvExcludes DEF BusExclusive

(* A step of the thread that has the bus: the rest follows from what it    *)
(* finds where it goes.                                                    *)
LEMMA BusMove ==
  ASSUME TypeOK, LockInv, NEW t \in Thread, NEW s \in Pcs,
         pc[t] \in BusPcs, pc' = [pc EXCEPT ![t] = s],
         Quiet' \/ s \in WaitPcs,
         s = "wait_start" => Starting',
         s = "command" => mcuMode' \in {"idle", "cmd"},
         s = "wait_command" => Commanding(t)',
         s = "data" => DataReady(t)',
         s = "wait_data" => Finishing(t)'
  PROVE  ExchangeInv'
<1>1. pc'[t] = s
  BY DEF TypeOK
<1>2. \A u \in Thread : u # t => pc'[u] \notin BusPcs
  BY Alone DEF TypeOK
<1> QED
  BY <1>1, <1>2 DEF ExchangeInv, BusPcs, WaitPcs

(* A step of a thread outside of the exchanges.                            *)
LEMMA AsideMove ==
  ASSUME TypeOK, ExchangeInv, NEW t \in Thread, NEW s,
         pc' = [pc EXCEPT ![t] = s],
         {pc[t], s} \cap (WaitPcs \cup {"command", "data"}) = {},
         UNCHANGED <<line, mcu, sender, applied>>,
         \A u \in Thread : u # t => req'[u] = req[u] /\ calls'[u] = calls[u]
  PROVE  ExchangeInv'
<1>1. UNCHANGED <<uplink, wire, rxq, mcuMode, mcuCmd, mcuData, sender, applied>>
  BY DEF line, mcu
<1>2. pc'[t] = s /\ \A u \in Thread : u # t => pc'[u] = pc[u]
  BY DEF TypeOK
<1>3. \A u \in Thread : pc'[u] \in WaitPcs \cup {"command", "data"} => u # t /\ pc[u] = pc'[u]
  BY <1>2
<1>4. (\A u \in Thread : pc'[u] \notin WaitPcs) => \A u \in Thread : pc[u] \notin WaitPcs
  BY <1>2
<1>5. (\A u \in Thread : pc'[u] \notin WaitPcs) => Quiet'
  BY <1>1, <1>4 DEF ExchangeInv, Quiet, NoAnswer
<1>6. ASSUME NEW u \in Thread, u # t
      PROVE  /\ Starting' <=> Starting
             /\ DataReady(u)' <=> DataReady(u)
             /\ Commanding(u)' <=> Commanding(u)
             /\ Finishing(u)' <=> Finishing(u)
  <2>1. req'[u] = req[u] /\ calls'[u] = calls[u]
    BY <1>6
  <2>2. DataReady(u)' <=> DataReady(u)
    BY <1>1, <2>1 DEF DataReady
  <2>3. Commanding(u)' <=> Commanding(u)
    BY <1>1, <2>1, <2>2 DEF Commanding, Answered, NoAnswer
  <2>4. Held(u)' <=> Held(u)
    BY <1>1, <2>1 DEF Held, ThisCall, DataFrame, Command
  <2>5. Finishing(u)' <=> Finishing(u)
    BY <1>1, <2>1, <2>4 DEF Finishing, Answered, NoAnswer, ThisCall
  <2> QED
    BY <1>1, <2>2, <2>3, <2>5 DEF Starting, Answered, NoAnswer
<1> QED
  BY <1>1, <1>3, <1>5, <1>6 DEF ExchangeInv, WaitPcs

(* A step of the line or of the MCU while t waits.                         *)
LEMMA LineMove ==
  ASSUME TypeOK, LockInv, NEW t \in Thread, pc[t] \in WaitPcs, UNCHANGED pc,
         pc[t] = "wait_start" => Starting',
         pc[t] = "wait_command" => Commanding(t)',
         pc[t] = "wait_data" => Finishing(t)'
  PROVE  ExchangeInv'
<1>1. \A u \in Thread : u # t => pc'[u] \notin BusPcs
  BY Alone DEF BusPcs, WaitPcs
<1> QED
  BY <1>1 DEF ExchangeInv, BusPcs, WaitPcs

(* A step of t that makes no call and that no write takes effect by.       *)
LEMMA CallMove ==
  ASSUME TypeOK, CallInv, NEW t \in Thread, NEW s,
         pc[t] # "idle", pc' = [pc EXCEPT ![t] = s], s # "dead",
         UNCHANGED <<calls, applied, req>>,
         \A u \in Thread : u # t => got'[u] = got[u] /\ ret'[u] = ret[u],
         s # "idle" /\ ~Returning(t, "read")' => got'[t] = NoVal,
         s \notin {"idle", "wait_data", "out", "unlock"} => ThisCall(t) \notin applied,
         Returning(t, "write")' => ThisCall(t) \in applied
  PROVE  CallInv'
<1>1. pc'[t] = s /\ \A u \in Thread : u # t => pc'[u] = pc[u]
  BY DEF TypeOK
<1>2. ASSUME NEW u \in Thread, u # t
      PROVE  \A op \in {"read", "write"} : Returning(u, op)' <=> Returning(u, op)
  BY <1>1, <1>2 DEF Returning
<1> QED
  BY <1>1, <1>2 DEF CallInv, ThisCall

(* An error ends the exchange, if nothing is under way any more.           *)
LEMMA FailMove ==
  ASSUME TypeOK, LockInv, StepInv, NEW t \in Thread, NEW code \in {-1, -2},
         pc[t] \in BusPcs \ {"out"}, Fail(t, pc[t], code),
         UNCHANGED applied, Quiet'
  PROVE  StepInv'
<1>1. /\ pc' = [pc EXCEPT ![t] = "out"] /\ ret' = [ret EXCEPT ![t] = code]
      /\ UNCHANGED <<req, got, calls>>
  BY DEF Fail, Goto
<1>2. ExchangeInv'
  <2>1. pc[t] \in BusPcs /\ "out" \in Pcs
    BY DEF Pcs, LockedPcs, BusPcs
  <2> QED
    BY <1>1, <2>1, BusMove
<1>3. ret'[t] # 0
  BY <1>1 DEF TypeOK
<1>4. got[t] = NoVal
  BY DEF StepInv, CallInv, Returning, BusPcs
<1>5. CallInv'
  <2>1. ~Returning(t, "read")' /\ ~Returning(t, "write")' /\ got'[t] = NoVal
    BY <1>1, <1>3, <1>4 DEF Returning
  <2>2. \A u \in Thread : u # t => got'[u] = got[u] /\ ret'[u] = ret[u]
    BY <1>1 DEF TypeOK
  <2>3. CallInv /\ pc[t] # "idle"
    BY DEF StepInv, BusPcs
  <2> QED
    BY <1>1, <2>1, <2>2, <2>3, CallMove
<1> QED
  BY <1>2, <1>5 DEF StepInv

(* The calls and the locks.                                                *)
LEMMA CallStep == ASSUME TypeOK, StepInv, NEW t \in Thread, Call(t) PROVE StepInv'
<1>1. /\ pc[t] = "idle" /\ pc' = [pc EXCEPT ![t] = "mutex"]
      /\ calls' = [calls EXCEPT ![t] = @ + 1] /\ got' = [got EXCEPT ![t] = NoVal]
      /\ ret' = [ret EXCEPT ![t] = 0]
      /\ \E r \in Requests : req' = [req EXCEPT ![t] = r]
      /\ UNCHANGED <<line, mcu, sender, applied>>
  BY DEF Call, Goto
<1>2. \A u \in Thread : u # t =>
        /\ pc'[u] = pc[u] /\ req'[u] = req[u] /\ calls'[u] = calls[u]
        /\ got'[u] = got[u] /\ ret'[u] = ret[u]
  BY <1>1 DEF TypeOK
<1>3. ExchangeInv'
  <2>1. {pc[t], "mutex"} \cap (WaitPcs \cup {"command", "data"}) = {}
    BY <1>1 DEF WaitPcs
  <2> QED
    BY <1>1, <1>2, <2>1, AsideMove DEF StepInv
<1>4. CallInv'
  <2>1. calls[t] \in Nat /\ calls'[t] = calls[t] + 1 /\ pc'[t] = "mutex" /\ got'[t] = NoVal
    BY <1>1 DEF TypeOK
  <2>2. <<t, calls[t] + 1>> \notin applied
    BY <2>1 DEF StepInv, CallInv
  <2>3. \A c \in applied : c[1] = t => c[2] <= calls[t] + 1
    <3> SUFFICES ASSUME NEW c \in applied, c[1] = t PROVE c[2] <= calls[t] + 1
      OBVIOUS
    <3>1. c[2] \in Nat /\ c[2] <= calls[t]
      BY DEF StepInv, CallInv, TypeOK
    <3> QED
      BY <2>1, <3>1
  <2>4. ASSUME NEW u \in Thread, u # t
        PROVE  \A op \in {"read", "write"} : Returning(u, op)' <=> Returning(u, op)
    BY <1>2, <2>4 DEF Returning
  <2>5. applied' = applied
    BY <1>1
  <2>6. ~Returning(t, "write")'
    BY <2>1 DEF Returning
  <2> QED
    BY <1>2, <2>1, <2>2, <2>3, <2>4, <2>5, <2>6 DEF StepInv, CallInv, ThisCall
<1> QED
  BY <1>3, <1>4 DEF StepInv

LEMMA LocksStep ==
  ASSUME TypeOK, LockInv, StepInv, NEW t \in Thread,
         LockMutex(t) \/ LockFlock(t) \/ FlockFails(t) \/ UnlockFlock(t) \/ UnlockMutex(t)
  PROVE  StepInv'
<1>1. PICK s \in {"flock", "start", "idle", "unlock"} :
        /\ pc' = [pc EXCEPT ![t] = s]
        /\ pc[t] \in {"mutex", "flock", "out", "unlock"}
        /\ s \in {"flock", "start"} => pc[t] \in {"mutex", "flock"}
        /\ s = "unlock" => pc[t] = "out" /\ UNCHANGED ret
  BY DEF LockMutex, LockFlock, FlockFails, UnlockFlock, UnlockMutex, Goto
<1>2. UNCHANGED <<req, got, calls, line, mcu, sender, applied>>
  BY DEF LockMutex, LockFlock, FlockFails, UnlockFlock, UnlockMutex, hist
<1>3. \A u \in Thread : u # t => got'[u] = got[u] /\ ret'[u] = ret[u]
  BY DEF LockMutex, LockFlock, FlockFails, UnlockFlock, UnlockMutex, TypeOK
<1>4. ExchangeInv'
  <2>1. {pc[t], s} \cap (WaitPcs \cup {"command", "data"}) = {}
    BY <1>1 DEF WaitPcs
  <2> QED
    BY <1>1, <1>2, <2>1, AsideMove DEF StepInv
<1>5. CallInv'
  <2>1. pc'[t] = s /\ pc[t] # "idle" /\ s # "dead"
    BY <1>1 DEF TypeOK
  <2>2. s # "idle" /\ ~Returning(t, "read")' => got'[t] = NoVal
    BY <1>1, <1>2, <2>1 DEF StepInv, CallInv, Returning
  <2>3. s \notin {"idle", "wait_data", "out", "unlock"} => ThisCall(t) \notin applied
    BY <1>1 DEF StepInv, CallInv
  <2>4. Returning(t, "write")' => ThisCall(t) \in applied
    BY <1>1, <1>2, <2>1 DEF StepInv, CallInv, Returning
  <2> QED
    BY <1>1, <1>2, <1>3, <2>1, <2>2, <2>3, <2>4, CallMove DEF StepInv
<1> QED
  BY <1>4, <1>5 DEF StepInv

(* A step of the thread with the bus that goes on: nothing is delivered.   *)
LEMMA GoesOn ==
  ASSUME TypeOK, CallInv, NEW t \in Thread,
         NEW s \in {"wait_start", "command", "wait_command", "data", "wait_data"},
         pc[t] \in BusPcs \ {"out", "wait_data"}, pc' = [pc EXCEPT ![t] = s],
         UNCHANGED <<req, ret, got, calls, applied>>
  PROVE  CallInv'
<1>1. pc'[t] = s
  BY DEF TypeOK
<1>2. got[t] = NoVal /\ ThisCall(t) \notin applied
  BY DEF CallInv, BusPcs, Returning
<1>3. ~Returning(t, "write")'
  BY <1>1 DEF Returning
<1>4. pc[t] # "idle" /\ s # "dead"
  BY DEF BusPcs
<1> QED
  BY <1>2, <1>3, <1>4, CallMove

LEMMA SendsStep ==
  ASSUME TypeOK, LockInv, StepInv, NEW t \in Thread,
         SendStart(t) \/ StartAcked(t) \/ CommandAcked(t)
  PROVE  StepInv'
<1>0. UNCHANGED <<req, ret, got, calls, applied, mcuMode, mcuCmd>>
  BY DEF SendStart, StartAcked, CommandAcked, mcu, hist
<1>1. CASE SendStart(t)
  <2>1. /\ pc[t] = "start" /\ pc' = [pc EXCEPT ![t] = "wait_start"]
        /\ uplink' = uplink + 1 /\ rxq' = <<>> /\ wire' = wire
    BY <1>1 DEF SendStart, Goto
  <2>2. Quiet
    BY <2>1, Alone DEF StepInv, ExchangeInv, BusPcs, WaitPcs
  <2>3. Starting'
    BY <1>0, <2>1, <2>2 DEF Quiet, Starting, NoAnswer
  <2>4. pc[t] \in BusPcs \ {"out", "wait_data"} /\ "wait_start" \in WaitPcs \cap Pcs
    BY <2>1 DEF Pcs, LockedPcs, BusPcs, WaitPcs
  <2>5. ExchangeInv'
    BY <2>1, <2>3, <2>4, BusMove
  <2>6. CallInv'
    BY <1>0, <2>1, <2>4, GoesOn DEF StepInv
  <2> QED
    BY <2>5, <2>6 DEF StepInv
<1>2. CASE StartAcked(t)
  <2>1. /\ pc[t] = "wait_start" /\ pc' = [pc EXCEPT ![t] = "command"]
        /\ rxq # <<>> /\ rxq' = <<>> /\ UNCHANGED <<uplink, wire>>
    BY <1>2 DEF StartAcked, Goto, TakeAck
  <2>2. uplink = 0 /\ wire = <<>> /\ mcuMode \in {"idle", "cmd"}
    BY <2>1 DEF StepInv, ExchangeInv, Starting, NoAnswer, Answered
  <2>3. Quiet' /\ mcuMode' \in {"idle", "cmd"}
    BY <1>0, <2>1, <2>2 DEF Quiet, NoAnswer
  <2>4. pc[t] \in BusPcs \ {"out", "wait_data"} /\ "command" \in Pcs
    BY <2>1 DEF Pcs, LockedPcs, BusPcs
  <2>5. ExchangeInv'
    BY <2>1, <2>3, <2>4, BusMove
  <2>6. CallInv'
    BY <1>0, <2>1, <2>4, GoesOn DEF StepInv
  <2> QED
    BY <2>5, <2>6 DEF StepInv
<1>3. CASE CommandAcked(t)
  <2>1. /\ pc[t] = "wait_command" /\ pc' = [pc EXCEPT ![t] = "data"]
        /\ rxq # <<>> /\ Head(rxq) = "A" /\ rxq' = <<>> /\ UNCHANGED <<uplink, wire>>
    BY <1>3 DEF CommandAcked, Goto, TakeAck
  <2>2. uplink = 0 /\ wire = <<>> /\ DataReady(t)
    BY <2>1 DEF StepInv, ExchangeInv, Commanding, NoAnswer, Answered
  <2>3. Quiet' /\ DataReady(t)'
    BY <1>0, <2>1, <2>2 DEF Quiet, NoAnswer, DataReady
  <2>4. pc[t] \in BusPcs \ {"out", "wait_data"} /\ "data" \in Pcs
    BY <2>1 DEF Pcs, LockedPcs, BusPcs
  <2>5. ExchangeInv'
    BY <2>1, <2>3, <2>4, BusMove
  <2>6. CallInv'
    BY <1>0, <2>1, <2>4, GoesOn DEF StepInv
  <2> QED
    BY <2>5, <2>6 DEF StepInv
<1> QED
  BY <1>1, <1>2, <1>3

(* The SPI frames: the MCU is in the exchange that the host is in, so a    *)
(* frame is never taken for another.                                       *)
LEMMA TransferCommandStep ==
  ASSUME InStep, TypeOK, LockInv, StepInv, NEW t \in Thread, TransferCommand(t)
  PROVE  StepInv'
<1>1. /\ pc[t] = "command" /\ pc' = [pc EXCEPT ![t] = "wait_command"]
      /\ UNCHANGED <<req, ret, got, calls, applied, uplink, wire, rxq>>
  BY DEF TransferCommand, Goto, line
<1>2. pc[t] \in BusPcs \ {"out", "wait_data"} /\ "wait_command" \in WaitPcs \cap Pcs
  BY <1>1 DEF Pcs, LockedPcs, BusPcs, WaitPcs
<1>3. mcuMode \in {"idle", "cmd"} /\ uplink = 0 /\ NoAnswer
  BY <1>1, Alone DEF StepInv, ExchangeInv, BusPcs, WaitPcs, Quiet
<1>4. Commanding(t)'
  <2>1. CASE mcuMode = "idle"
    <3>1. mcuMode' = "idle"
      BY <2>1 DEF TransferCommand
    <3> QED
      BY <1>1, <1>3, <3>1 DEF Commanding, NoAnswer, DataReady
  <2>2. CASE mcuMode = "cmd"
    <3>1. /\ mcuMode' = "gotcmd"
          /\ \E d \in Cmd : Received(Command(req[t]), d) /\ mcuCmd' = d
      BY <2>2 DEF TransferCommand
    <3>2. mcuCmd'.op \in {req[t].op, "junk"}
      <4>1. "opcode" \notin Faults
        BY DEF InStep
      <4> QED
        BY <3>1, <4>1 DEF Received, Misread, Command, Fault
    <3> QED
      BY <1>1, <1>3, <3>1, <3>2 DEF Commanding, NoAnswer
  <2> QED
    BY <1>3, <2>1, <2>2
<1>5. ExchangeInv'
  BY <1>1, <1>2, <1>4, BusMove
<1>6. CallInv'
  BY <1>1, <1>2, GoesOn DEF StepInv
<1> QED
  BY <1>5, <1>6 DEF StepInv

LEMMA TransferDataStep ==
  ASSUME TypeOK, LockInv, StepInv, NEW t \in Thread, TransferData(t)
  PROVE  StepInv'
<1>1. /\ pc[t] = "data" /\ pc' = [pc EXCEPT ![t] = "wait_data"]
      /\ UNCHANGED <<req, ret, got, calls, applied, uplink, wire, rxq>>
  BY DEF TransferData, Goto, line
<1>2. pc[t] \in BusPcs \ {"out", "wait_data"} /\ "wait_data" \in WaitPcs \cap Pcs
  BY <1>1 DEF Pcs, LockedPcs, BusPcs, WaitPcs
<1>3. DataReady(t) /\ uplink = 0 /\ NoAnswer
  BY <1>1, Alone DEF StepInv, ExchangeInv, BusPcs, WaitPcs, Quiet
<1>4. Finishing(t)'
  <2>1. CASE mcuMode = "idle"
    <3>1. mcuMode' = "idle"
      BY <2>1 DEF TransferData
    <3> QED
      BY <1>1, <1>3, <3>1 DEF Finishing, NoAnswer
  <2>2. CASE mcuMode = "data" /\ mcuCmd.op = req[t].op
    <3>1. mcuMode' = "gotdata" /\ mcuCmd' = mcuCmd
      BY <2>2 DEF TransferData
    <3>2. ThisCall(t) \notin applied
      BY <1>1 DEF StepInv, CallInv
    <3>3. Held(t)'
      <4> SUFFICES ASSUME req[t].op = "write"
                   PROVE  /\ sender' = ThisCall(t)
                          /\ mcuData' \in {Junk, DataFrame(req[t])}
        BY <1>1, <3>2 DEF Held, ThisCall, DataFrame, Command
      <4>1. sender' = ThisCall(t) /\ mcuData' \in {Junk, DataFrame(req[t])}
        BY <2>2 DEF TransferData
      <4> QED
        BY <4>1
    <3> QED
      BY <1>1, <1>3, <2>2, <3>1, <3>3 DEF Finishing, NoAnswer
  <2> QED
    BY <1>3, <2>1, <2>2 DEF DataReady
<1>5. ExchangeInv'
  BY <1>1, <1>2, <1>4, BusMove
<1>6. CallInv'
  BY <1>1, <1>2, GoesOn DEF StepInv
<1> QED
  BY <1>5, <1>6 DEF StepInv

(* The last answer: a write that is acknowledged has taken effect.         *)
LEMMA DataAckedStep ==
  ASSUME TypeOK, LockInv, StepInv, NEW t \in Thread, DataAcked(t)
  PROVE  StepInv'
<1>1. /\ pc[t] = "wait_data" /\ pc' = [pc EXCEPT ![t] = "out"]
      /\ rxq # <<>> /\ Head(rxq) = "A" /\ rxq' = <<>>
      /\ UNCHANGED <<req, calls, applied, uplink, wire, mcuMode>>
  BY DEF DataAcked, Goto, TakeAck, mcu, hist
<1>2. pc[t] \in BusPcs /\ "out" \in Pcs \ WaitPcs
  BY <1>1 DEF Pcs, LockedPcs, BusPcs, WaitPcs
<1>3. /\ uplink = 0 /\ wire = <<>> /\ mcuMode = "idle"
      /\ req[t].op = "write" => ThisCall(t) \in applied
  <2>1. Finishing(t)
    BY <1>1 DEF StepInv, ExchangeInv
  <2> QED
    BY <1>1, <2>1 DEF Finishing, NoAnswer, Answered
<1>4. Quiet'
  BY <1>1, <1>3 DEF Quiet, NoAnswer
<1>5. ExchangeInv'
  BY <1>1, <1>2, <1>4, BusMove
<1>6. CallInv'
  <2>1. pc'[t] = "out" /\ got[t] = NoVal
    BY <1>1 DEF TypeOK, StepInv, CallInv, Returning
  <2>2. \A u \in Thread : u # t => got'[u] = got[u] /\ ret'[u] = ret[u]
    BY DEF DataAcked, TypeOK
  <2>3. ~Returning(t, "read")' => got'[t] = NoVal
    <3>1. \/ got' = got
          \/ req[t].op = "read" /\ ret' = [ret EXCEPT ![t] = 0]
      BY DEF DataAcked
    <3> QED
      BY <1>1, <2>1, <3>1 DEF Returning, TypeOK
  <2>4. Returning(t, "write")' => ThisCall(t) \in applied
    BY <1>1, <1>3 DEF Returning
  <2>5. CallInv /\ pc[t] # "idle"
    BY <1>1 DEF StepInv
  <2> QED
    BY <1>1, <2>2, <2>3, <2>4, <2>5, CallMove
<1> QED
  BY <1>5, <1>6 DEF StepInv

(* Every error leaves the line and the MCU quiet: no answer is due when a  *)
(* wait ends, and a refusal is the only answer.                            *)
LEMMA ErrorsStep ==
  ASSUME InStep, TypeOK, LockInv, StepInv, NEW t \in Thread,
         StartWriteFails(t) \/ TransferFails(t) \/ Refused(t) \/ TimedOut(t) \/ PollFails(t)
  PROVE  StepInv'
<1>1. ~PollFails(t)
  BY DEF PollFails, Fault, InStep
<1>2. CASE StartWriteFails(t) \/ TransferFails(t)
  <2>1. /\ pc[t] \in {"start", "command", "data"}
        /\ \E code \in {-1, -2} : Fail(t, pc[t], code)
        /\ rxq' \in {<<>>, rxq} /\ UNCHANGED <<applied, uplink, wire, mcuMode>>
    BY <1>2 DEF StartWriteFails, TransferFails, Fail, Goto, line, mcu, hist
  <2>2. Quiet
    BY <2>1, Alone DEF StepInv, ExchangeInv, BusPcs, WaitPcs
  <2>3. Quiet' /\ UNCHANGED applied
    BY <2>1, <2>2 DEF Quiet, NoAnswer
  <2>4. pc[t] \in BusPcs \ {"out"}
    BY <2>1 DEF BusPcs
  <2> QED
    BY <2>1, <2>3, <2>4, FailMove
<1>3. CASE Refused(t) \/ TimedOut(t)
  <2>1. pc[t] \in WaitPcs /\ Fail(t, pc[t], -2) /\ UNCHANGED <<applied, uplink, wire, mcuMode>>
    BY <1>3 DEF Refused, TimedOut, line, mcu, hist
  <2>2. /\ pc[t] = "wait_start" => Starting
        /\ pc[t] = "wait_command" => Commanding(t)
        /\ pc[t] = "wait_data" => Finishing(t)
    BY DEF StepInv, ExchangeInv
  <2>3. Quiet'
    <3>1. CASE Refused(t)
      <4>1. rxq # <<>> /\ Head(rxq) # "A" /\ rxq' = Tail(rxq)
        BY <3>1 DEF Refused
      <4>2. uplink = 0 /\ wire = <<>> /\ rxq' = <<>> /\ mcuMode \in {"idle", "cmd", "data"}
        BY <2>1, <2>2, <4>1 DEF WaitPcs, Starting, Commanding, Finishing, NoAnswer, Answered
      <4> QED
        BY <2>1, <4>2 DEF Quiet, NoAnswer
    <3>2. CASE TimedOut(t)
      <4>1. rxq = <<>> /\ ~AnswerDue /\ rxq' = rxq
        BY <3>2 DEF TimedOut, InStep, Fault, line
      <4>2. uplink = 0 /\ wire = <<>> /\ mcuMode \in {"idle", "cmd", "data"}
        <5>1. ~(uplink > 0) /\ wire = <<>> /\ mcuMode \notin {"gotcmd", "gotdata"}
          BY <4>1 DEF AnswerDue
        <5> QED
          BY <5>1 DEF TypeOK, McuModes
      <4> QED
        BY <2>1, <4>1, <4>2 DEF Quiet, NoAnswer
    <3> QED
      BY <1>3, <3>1, <3>2
  <2>4. pc[t] \in BusPcs \ {"out"}
    BY <2>1 DEF BusPcs, WaitPcs
  <2> QED
    BY <2>1, <2>3, <2>4, FailMove
<1> QED
  BY <1>1, <1>2, <1>3

(* The line and the MCU disturb no call, unless a write takes effect.      *)
LEMMA CallsKept == ASSUME CallInv, UNCHANGED <<host, req, applied>> PROVE CallInv'
BY DEF host, CallInv, Returning, ThisCall

(* When something is under way, somebody waits for it.                     *)
LEMMA SomebodyWaits ==
  ASSUME ExchangeInv, ~Quiet
  PROVE  \E t \in Thread :
           /\ pc[t] \in WaitPcs
           /\ pc[t] = "wait_start" => Starting
           /\ pc[t] = "wait_command" => Commanding(t)
           /\ pc[t] = "wait_data" => Finishing(t)
BY DEF ExchangeInv

LEMMA DeliverStep == ASSUME TypeOK, LockInv, StepInv, Deliver PROVE StepInv'
<1>1. /\ wire # <<>> /\ rxq' = Append(rxq, Head(wire)) /\ wire' = Tail(wire)
      /\ UNCHANGED <<pc, req, calls, host, applied, uplink, mcuMode, mcuCmd, mcuData, sender>>
  BY DEF Deliver, host, mcu, hist
<1>2. PICK t \in Thread :
        /\ pc[t] \in WaitPcs
        /\ pc[t] = "wait_start" => Starting
        /\ pc[t] = "wait_command" => Commanding(t)
        /\ pc[t] = "wait_data" => Finishing(t)
  BY <1>1, SomebodyWaits DEF StepInv, Quiet, NoAnswer
<1>3. ~NoAnswer /\ \A b : Answered(b) => Answered(b)'
  <2>1. ASSUME NEW b, Answered(b) PROVE Answered(b)'
    <3>1. wire = <<b>> /\ rxq = <<>>
      BY <1>1, <2>1 DEF Answered
    <3>2. wire' = <<>> /\ rxq' = <<b>>
      BY <1>1, <3>1, OneByte
    <3> QED
      BY <3>2 DEF Answered
  <2> QED
    BY <1>1, <2>1 DEF NoAnswer
<1>4. /\ pc[t] = "wait_start" => Starting'
      /\ pc[t] = "wait_command" => Commanding(t)'
      /\ pc[t] = "wait_data" => Finishing(t)'
  <2>1. pc[t] = "wait_start" => Starting'
    BY <1>1, <1>2, <1>3 DEF Starting
  <2>2. pc[t] = "wait_command" => Commanding(t)'
    BY <1>1, <1>2, <1>3 DEF Commanding, DataReady
  <2>3. pc[t] = "wait_data" => Finishing(t)'
    BY <1>1, <1>2, <1>3 DEF Finishing, ThisCall
  <2> QED
    BY <2>1, <2>2, <2>3
<1>5. ExchangeInv'
  BY <1>1, <1>2, <1>4, LineMove
<1> QED
  BY <1>1, <1>5, CallsKept DEF StepInv

LEMMA LoseStep == ASSUME TypeOK, LockInv, StepInv, LoseByte PROVE StepInv'
<1>1. /\ \/ uplink > 0 /\ uplink' = uplink - 1 /\ wire' = wire
         \/ wire # <<>> /\ wire' = Tail(wire) /\ uplink' = uplink
      /\ UNCHANGED <<pc, req, calls, host, applied, rxq, mcuMode, mcuCmd, mcuData, sender>>
  BY DEF LoseByte, host, mcu, hist
<1>2. PICK t \in Thread :
        /\ pc[t] \in WaitPcs
        /\ pc[t] = "wait_start" => Starting
        /\ pc[t] = "wait_command" => Commanding(t)
        /\ pc[t] = "wait_data" => Finishing(t)
  BY <1>1, SomebodyWaits DEF StepInv, Quiet, NoAnswer
<1>3. CASE uplink > 0
  <2>1. pc[t] = "wait_start" /\ uplink = 1 /\ NoAnswer /\ mcuMode \in {"idle", "cmd", "data"}
    BY <1>2, <1>3 DEF WaitPcs, Starting, Commanding, Finishing
  <2>2. uplink' = 0 /\ NoAnswer'
    BY <1>1, <2>1 DEF NoAnswer
  <2>3. Starting'
    BY <1>1, <2>1, <2>2 DEF Starting
  <2> QED
    BY <1>1, <1>2, <2>1, <2>3, LineMove, CallsKept DEF StepInv
<1>4. CASE ~(uplink > 0)
  <2>1. wire # <<>> /\ wire' = Tail(wire) /\ uplink' = uplink
    BY <1>1, <1>4
  <2>2. ~NoAnswer /\ \A b : Answered(b) => NoAnswer'
    <3>1. ASSUME NEW b, Answered(b) PROVE NoAnswer'
      <4>1. wire = <<b>> /\ rxq = <<>>
        BY <2>1, <3>1 DEF Answered
      <4>2. wire' = <<>> /\ rxq' = <<>>
        BY <1>1, <2>1, <4>1, OneByte
      <4> QED
        BY <4>2 DEF NoAnswer
    <3> QED
      BY <2>1, <3>1 DEF NoAnswer
  <2>3. pc[t] = "wait_start" => Starting'
    BY <1>1, <1>2, <2>1, <2>2 DEF Starting
  <2>4. pc[t] = "wait_command" => Commanding(t)'
    BY <1>1, <1>2, <2>1, <2>2 DEF Commanding, DataReady
  <2>5. pc[t] = "wait_data" => Finishing(t)'
    BY <1>1, <1>2, <2>1, <2>2 DEF Finishing
  <2> QED
    BY <1>1, <1>2, <2>3, <2>4, <2>5, LineMove, CallsKept DEF StepInv
<1> QED
  BY <1>3, <1>4

(* The MCU gives up waiting for a frame.                                   *)
LEMMA GiveUpStep == ASSUME TypeOK, LockInv, StepInv, McuGiveUp PROVE StepInv'
<1>1. /\ mcuMode \in {"cmd", "data"} /\ mcuMode' = "idle"
      /\ UNCHANGED <<pc, req, calls, host, applied, uplink, wire, rxq, mcuCmd, mcuData, sender>>
  BY DEF McuGiveUp, host, line, hist
<1>2. CallInv'
  BY <1>1, CallsKept DEF StepInv
<1>3. Quiet => Quiet'
  BY <1>1 DEF Quiet, NoAnswer
<1>4. Starting => Starting'
  BY <1>1 DEF Starting, NoAnswer, Answered
<1>5. \A t \in Thread : DataReady(t)'
  BY <1>1 DEF DataReady
<1>6. \A t \in Thread : Commanding(t) => Commanding(t)'
  BY <1>1, <1>5 DEF Commanding, NoAnswer, Answered
<1>7. \A t \in Thread : ~Finishing(t)
  BY <1>1 DEF Finishing
<1> QED
  BY <1>1, <1>2, <1>3, <1>4, <1>5, <1>6, <1>7 DEF StepInv, ExchangeInv

(* The MCU begins an exchange: only while the host waits for that.         *)
LEMMA McuStartStep == ASSUME TypeOK, LockInv, StepInv, McuStart PROVE StepInv'
<1>1. /\ uplink > 0 /\ uplink' = uplink - 1 /\ mcuMode' = "cmd" /\ wire' = Append(wire, "A")
      /\ UNCHANGED <<pc, req, calls, host, applied, rxq>>
  BY DEF McuStart, Answer, host, hist
<1>2. PICK t \in Thread :
        /\ pc[t] \in WaitPcs
        /\ pc[t] = "wait_start" => Starting
        /\ pc[t] = "wait_command" => Commanding(t)
        /\ pc[t] = "wait_data" => Finishing(t)
  BY <1>1, SomebodyWaits DEF StepInv, Quiet
<1>3. pc[t] = "wait_start" /\ uplink = 1 /\ NoAnswer
  BY <1>1, <1>2 DEF WaitPcs, Starting, Commanding, Finishing
<1>4. wire' = <<"A">> /\ rxq' = <<>>
  BY <1>1, <1>3, OneByte DEF NoAnswer
<1>5. Starting'
  <2>1. Answered("A")'
    BY <1>4 DEF Answered
  <2>2. uplink' = 0
    BY <1>1, <1>3
  <2> QED
    BY <1>1, <2>1, <2>2 DEF Starting
<1> QED
  BY <1>1, <1>2, <1>3, <1>5, LineMove, CallsKept DEF StepInv

(* The MCU has the command frame: its answer is the one t waits for.       *)
LEMMA McuCommandStep ==
  ASSUME TypeOK, LockInv, StepInv,
         McuAcceptCommand \/ (McuRefuse /\ mcuMode = "gotcmd")
  PROVE  StepInv'
<1>1. /\ mcuMode = "gotcmd"
      /\ UNCHANGED <<pc, req, calls, host, applied, uplink, rxq, mcuCmd>>
      /\ \/ mcuMode' = "data" /\ wire' = Append(wire, "A") /\ mcuCmd # JunkCmd
         \/ mcuMode' = "idle" /\ wire' = Append(wire, "N")
  BY DEF McuAcceptCommand, McuRefuse, Answer, host, hist
<1>2. PICK t \in Thread :
        /\ pc[t] \in WaitPcs
        /\ pc[t] = "wait_start" => Starting
        /\ pc[t] = "wait_command" => Commanding(t)
        /\ pc[t] = "wait_data" => Finishing(t)
  BY <1>1, SomebodyWaits DEF StepInv, Quiet
<1>3. /\ pc[t] = "wait_command" /\ uplink = 0 /\ NoAnswer
      /\ mcuCmd.op \in {req[t].op, "junk"}
  BY <1>1, <1>2 DEF WaitPcs, Starting, Commanding, Finishing, DataReady
<1>4. rxq' = <<>> /\ wire' \in {<<"A">>, <<"N">>} /\ (mcuMode' = "data" => wire' = <<"A">>)
      /\ (mcuMode' = "idle" => wire' = <<"N">>)
  BY <1>1, <1>3, OneByte DEF NoAnswer
<1>5. mcuMode' = "data" => mcuCmd'.op = req'[t].op
  <2>1. mcuCmd # JunkCmd => mcuCmd.op # "junk"
    BY DEF TypeOK, Cmd, JunkCmd
  <2> QED
    BY <1>1, <1>3, <2>1
<1>6. Commanding(t)'
  BY <1>1, <1>3, <1>4, <1>5 DEF Commanding, DataReady, Answered
<1> QED
  BY <1>1, <1>2, <1>3, <1>6, LineMove, CallsKept DEF StepInv

(* Whose data frame the MCU has.                                           *)
LEMMA DataFrameHeld ==
  ASSUME StepInv, mcuMode = "gotdata"
  PROVE  \E t \in Thread :
           /\ pc[t] = "wait_data" /\ uplink = 0 /\ NoAnswer
           /\ mcuCmd.op = req[t].op /\ Held(t)
<1>1. PICK t \in Thread :
        /\ pc[t] \in WaitPcs
        /\ pc[t] = "wait_start" => Starting
        /\ pc[t] = "wait_command" => Commanding(t)
        /\ pc[t] = "wait_data" => Finishing(t)
  BY SomebodyWaits DEF StepInv, Quiet
<1> QED
  BY <1>1 DEF WaitPcs, Starting, Commanding, Finishing, DataReady

(* The write that the MCU is about to perform is one that a thread is      *)
(* inside of, at its address and with its value, and not performed yet.    *)
LEMMA WriteInTime ==
  ASSUME TypeOK, FreshInv, StepInv, mcuMode = "gotdata", mcuCmd.op = "write",
         CrcMatches(mcuCmd, mcuData)
  PROVE  \E t \in Thread :
           /\ pc[t] = "wait_data" /\ req[t].op = "write"
           /\ sender = ThisCall(t) /\ ThisCall(t) \notin applied
           /\ mcuCmd.addr = req[t].addr /\ mcuData.val = req[t].val
<1>1. PICK t \in Thread : pc[t] = "wait_data" /\ mcuCmd.op = req[t].op /\ Held(t)
  BY DataFrameHeld
<1>2. req[t] \in Request
  BY <1>1 DEF FreshInv, InCall
<1>3. mcuData = DataFrame(req[t])
  BY <1>1, JunkMatchesNothing DEF Held, TypeOK
<1>4. mcuCmd \in Cmd
  BY DEF TypeOK
<1>5. req[t] = [op |-> "write", addr |-> mcuCmd.addr, val |-> mcuData.val]
  BY <1>2, <1>3, <1>4, DataFrameMatches
<1> QED
  BY <1>1, <1>5 DEF Held

(* The MCU has the data frame.                                             *)
LEMMA McuDataStep ==
  ASSUME TypeOK, LockInv, FreshInv, StepInv,
         McuReadDone \/ McuWriteDone \/ (McuRefuse /\ mcuMode = "gotdata")
  PROVE  StepInv'
<1>1. /\ mcuMode = "gotdata" /\ mcuMode' = "idle"
      /\ UNCHANGED <<pc, req, ret, got, calls, host, uplink, rxq>>
  BY DEF McuReadDone, McuWriteDone, McuRefuse, host
<1>2. \/ wire' = Append(wire, "N") /\ UNCHANGED applied
      \/ wire' = Append(wire, "A") /\ UNCHANGED applied /\ mcuCmd.op = "read"
      \/ /\ wire' = Append(wire, "A") /\ applied' = applied \cup {sender}
         /\ mcuCmd.op = "write" /\ CrcMatches(mcuCmd, mcuData)
  BY DEF McuReadDone, McuWriteDone, McuRefuse, Answer, hist
<1>3. PICK t \in Thread :
        /\ pc[t] = "wait_data" /\ uplink = 0 /\ NoAnswer
        /\ mcuCmd.op = req[t].op /\ Held(t)
  BY <1>1, DataFrameHeld
<1>4. pc[t] \in WaitPcs
  BY <1>3 DEF WaitPcs
<1>5. CASE UNCHANGED applied
  <2>1. \/ Answered("N")'
        \/ Answered("A")' /\ (req[t].op = "write" => ThisCall(t) \in applied)
    <3>1. rxq' = <<>> /\ wire = <<>>
      BY <1>1, <1>3 DEF NoAnswer
    <3>2. \A b : wire' = Append(wire, b) => Answered(b)'
      BY <3>1, OneByte DEF Answered
    <3>3. CASE wire' = Append(wire, "N")
      BY <3>2, <3>3
    <3>4. CASE wire' = Append(wire, "A") /\ mcuCmd.op = "read"
      <4>1. Answered("A")' /\ req[t].op # "write"
        BY <1>3, <3>2, <3>4
      <4> QED
        BY <4>1
    <3>5. CASE wire' = Append(wire, "A") /\ mcuCmd.op = "write" /\ applied' = applied \cup {sender}
      <4>1. ThisCall(t) \in applied
        BY <1>3, <1>5, <3>5 DEF Held
      <4> QED
        BY <3>2, <3>5, <4>1
    <3> QED
      BY <1>2, <3>3, <3>4, <3>5
  <2>2. Finishing(t)'
    BY <1>1, <1>3, <1>5, <2>1 DEF Finishing, ThisCall
  <2>3. ExchangeInv'
    BY <1>1, <1>3, <1>4, <2>2, LineMove
  <2>4. CallInv'
    BY <1>1, <1>5, CallsKept DEF StepInv
  <2> QED
    BY <2>3, <2>4 DEF StepInv
<1>6. CASE /\ wire' = Append(wire, "A") /\ applied' = applied \cup {sender}
           /\ mcuCmd.op = "write"
  <2>1. sender = ThisCall(t)
    BY <1>3, <1>6 DEF Held
  <2>2. wire' = <<"A">> /\ rxq' = <<>>
    BY <1>1, <1>3, <1>6, OneByte DEF NoAnswer
  <2>3. Finishing(t)'
    BY <1>1, <1>3, <1>6, <2>1, <2>2 DEF Finishing, Answered, ThisCall
  <2>4. ExchangeInv'
    BY <1>1, <1>3, <1>4, <2>3, LineMove
  <2>5. CallInv'
    <3>1. \A u \in Thread : calls[u] \in Nat
      BY DEF TypeOK
    <3>2. applied' = applied \cup {<<t, calls[t]>>}
      BY <1>6, <2>1 DEF ThisCall
    <3>3. \A u \in Thread : u # t => (ThisCall(u) \in applied' <=> ThisCall(u) \in applied)
      BY <3>2 DEF ThisCall
    <3>4. \A u \in Thread : \A c \in applied' : c[1] = u => c[2] <= calls[u]
      <4> SUFFICES ASSUME NEW u \in Thread, NEW c \in applied', c[1] = u PROVE c[2] <= calls[u]
        OBVIOUS
      <4>1. CASE c \in applied
        BY <4>1 DEF StepInv, CallInv
      <4>2. CASE c = <<t, calls[t]>>
        BY <3>1, <4>2
      <4> QED
        BY <3>2, <4>1, <4>2
    <3>5. \A u \in Thread : \A op \in {"read", "write"} : Returning(u, op)' <=> Returning(u, op)
      BY <1>1 DEF Returning
    <3>6. \A u \in Thread : ThisCall(u)' = ThisCall(u)
      BY <1>1 DEF ThisCall
    <3> QED
      BY <1>1, <1>3, <3>3, <3>4, <3>5, <3>6 DEF StepInv, CallInv, Returning
  <2> QED
    BY <2>4, <2>5 DEF StepInv
<1> QED
  BY <1>2, <1>5, <1>6

(* Every step keeps StepInv.                                               *)
LEMMA StepStep ==
  ASSUME InStep PROVE TypeOK /\ LockInv /\ FreshInv /\ StepInv /\ [Next]_vars => StepInv'
<1> SUFFICES ASSUME InStep, TypeOK, LockInv, FreshInv, StepInv, [Next]_vars PROVE StepInv'
  OBVIOUS
<1>1. ASSUME NEW t \in Thread, Call(t) \/ HostStep(t) PROVE StepInv'
  BY <1>1, CallStep, LocksStep, SendsStep, TransferCommandStep, TransferDataStep,
     DataAckedStep, ErrorsStep DEF HostStep
<1>2. ASSUME NEW p \in Proc PROVE ~Crash(p) /\ ~Restart(p)
  BY DEF Crash, Restart, Fault, InStep, StepInv, CallInv
<1>3. CASE McuStep
  <2>1. McuRefuse => mcuMode \in {"gotcmd", "gotdata"}
    BY DEF McuRefuse
  <2> QED
    BY <1>3, <2>1, McuStartStep, McuCommandStep, McuDataStep DEF McuStep
<1>4. CASE UNCHANGED vars
  BY <1>4 DEF vars, StepInv, ExchangeInv, CallInv, Quiet, NoAnswer, Answered, Starting,
     DataReady, Commanding, Finishing, Held, Returning, ThisCall, DataFrame, Command
<1> QED
  BY <1>1, <1>2, <1>3, <1>4, DeliverStep, LoseStep, GiveUpStep DEF Next, Finished

-----------------------------------------------------------------------------
(* The refinement: what the variables of RegAccess stand for.              *)
Busy == [t \in Thread |-> pc[t] # "idle"]
Done == [t \in Thread |-> ThisCall(t) \in applied]
Outcome ==
  [t \in Thread |-> IF pc[t] # "idle" \/ calls[t] = 0 THEN "none"
                    ELSE IF ret[t] = 0 THEN "ok" ELSE "failed"]
Delivered == [t \in Thread |-> IF pc[t] # "idle" THEN NoVal ELSE got[t]]

LEMMA AtomicInit == Init => Atomic!Init
<1> SUFFICES ASSUME Init PROVE Atomic!Init
  OBVIOUS
<1>1. Busy = [t \in Thread |-> FALSE]
  BY DEF Init, Busy
<1>2. Done = [t \in Thread |-> FALSE]
  <2>1. applied = {}
    BY DEF Init
  <2>2. \A t \in Thread : (ThisCall(t) \in applied) = FALSE
    BY <2>1
  <2> QED
    BY Zenon, <2>2 DEF Done
<1>3. Outcome = [t \in Thread |-> "none"]
  BY DEF Init, Outcome
<1>4. Delivered = [t \in Thread |-> NoVal]
  BY DEF Init, Delivered
<1>5. regs \in InitRegs /\ req = [t \in Thread |-> NoRequest] /\ seen = [t \in Thread |-> {}]
  BY DEF Init
<1> QED
  BY Zenon, <1>1, <1>2, <1>3, <1>4, <1>5 DEF Atomic!Init, Busy, Done, Outcome, Delivered

(* A step inside a call that does not touch the registers.                 *)
LEMMA Stutter ==
  ASSUME UNCHANGED <<regs, req, seen, calls, applied>>,
         \A t \in Thread : pc'[t] = "idle" <=> pc[t] = "idle",
         \A t \in Thread : pc[t] = "idle" => ret'[t] = ret[t] /\ got'[t] = got[t]
  PROVE  UNCHANGED Atomic!vars
<1>1. Busy' = Busy
  BY DEF Busy
<1>2. Done' = Done
  BY DEF Done, ThisCall
<1>3. Outcome' = Outcome
  BY DEF Outcome
<1>4. Delivered' = Delivered
  BY DEF Delivered
<1> QED
  BY Zenon, <1>1, <1>2, <1>3, <1>4 DEF Atomic!vars, Busy, Done, Outcome, Delivered

LEMMA CallInvokes ==
  ASSUME TypeOK, StepInv, NEW t \in Thread, Call(t) PROVE Atomic!Invoke(t)
<1>1. /\ pc[t] = "idle" /\ pc' = [pc EXCEPT ![t] = "mutex"]
      /\ calls' = [calls EXCEPT ![t] = calls[t] + 1] /\ got' = [got EXCEPT ![t] = NoVal]
      /\ ret' = [ret EXCEPT ![t] = 0]
      /\ \E r \in Requests : /\ req' = [req EXCEPT ![t] = r]
                            /\ seen' = [seen EXCEPT ![t] = {regs[r.addr]}]
      /\ UNCHANGED <<regs, applied>>
  BY DEF Call, Goto, mcu
<1>2. /\ pc'[t] = "mutex" /\ calls'[t] = calls[t] + 1
      /\ \A u \in Thread : u # t =>
           /\ pc'[u] = pc[u] /\ calls'[u] = calls[u] /\ ret'[u] = ret[u] /\ got'[u] = got[u]
  BY <1>1 DEF TypeOK
<1>3. ThisCall(t)' \notin applied
  <2>1. calls[t] \in Nat
    BY DEF TypeOK
  <2>2. <<t, calls[t] + 1>> \notin applied
    BY <2>1 DEF StepInv, CallInv
  <2> QED
    BY <1>2, <2>2 DEF ThisCall
<1>4. ~Busy[t] /\ Busy' = [Busy EXCEPT ![t] = TRUE]
  BY ZenonT(40), <1>1, <1>2 DEF Busy
<1>5. Done' = [Done EXCEPT ![t] = FALSE]
  <2>1. \A u \in Thread : u # t => ThisCall(u)' = ThisCall(u)
    BY <1>2 DEF ThisCall
  <2>2. applied' = applied
    BY <1>1
  <2>3. (ThisCall(t)' \in applied') = FALSE
    BY <1>3, <2>2
  <2>4. \A u \in Thread : u # t => (ThisCall(u)' \in applied') = (ThisCall(u) \in applied)
    BY <2>1, <2>2
  <2> QED
    BY Zenon, <2>3, <2>4 DEF Done
<1>6. Outcome' = [Outcome EXCEPT ![t] = "none"]
  BY ZenonT(40), <1>2 DEF Outcome
<1>7. Delivered' = [Delivered EXCEPT ![t] = NoVal]
  BY <1>2 DEF Delivered
<1> QED
  BY Zenon, <1>1, <1>4, <1>5, <1>6, <1>7 DEF Atomic!Invoke, Busy, Done, Outcome, Delivered

(* The end of a call: it delivers what its request promised, or an error.  *)
LEMMA CallLeaves ==
  ASSUME TypeOK, FreshInv, StepInv, NEW t \in Thread, UnlockMutex(t) \/ FlockFails(t)
  PROVE  Atomic!WriteOk(t) \/ Atomic!ReadOk(t) \/ Atomic!CallFails(t)
<1>1. /\ pc[t] \in {"unlock", "flock"} /\ pc' = [pc EXCEPT ![t] = "idle"]
      /\ UNCHANGED <<req, got, calls, regs, seen, applied>>
  BY DEF UnlockMutex, FlockFails, Goto, mcu, hist
<1>2. /\ pc'[t] = "idle" /\ calls[t] \in Nat /\ calls[t] > 0
      /\ \A u \in Thread : u # t => pc'[u] = pc[u] /\ ret'[u] = ret[u]
  BY <1>1 DEF UnlockMutex, FlockFails, TypeOK, StepInv, CallInv
<1>3. Busy[t] /\ Busy' = [Busy EXCEPT ![t] = FALSE]
  BY <1>1, <1>2 DEF Busy
<1>4. Done' = Done
  BY <1>1 DEF Done, ThisCall
<1>5. Outcome' = [Outcome EXCEPT ![t] = IF ret'[t] = 0 THEN "ok" ELSE "failed"]
  <2>1. calls' = calls /\ calls[t] # 0
    BY <1>1, <1>2
  <2>2. Outcome'[t] = IF ret'[t] = 0 THEN "ok" ELSE "failed"
    BY <1>2, <2>1 DEF Outcome
  <2>3. \A u \in Thread : u # t => Outcome'[u] = Outcome[u]
    BY <1>2, <2>1 DEF Outcome
  <2>4. Outcome' = [u \in Thread |-> Outcome'[u]] /\ Outcome = [u \in Thread |-> Outcome[u]]
    BY DEF Outcome
  <2> HIDE DEF Outcome
  <2> QED
    BY <2>2, <2>3, <2>4
<1>6. Delivered' = [Delivered EXCEPT ![t] = got[t]]
  BY <1>1, <1>2 DEF Delivered
<1>7. got[t] = NoVal => Delivered' = Delivered
  BY <1>1, <1>2 DEF Delivered
<1>8. req[t].op \in {"read", "write"}
  BY <1>1 DEF FreshInv, InCall, Request
<1>9. CASE ret'[t] = 0
  <2>1. pc[t] = "unlock" /\ ret[t] = 0
    BY <1>1, <1>9 DEF UnlockMutex, FlockFails, Goto, TypeOK
  <2>2. Atomic!Leave(t, "ok")
    BY Zenon, <1>1, <1>3, <1>4, <1>5, <1>9 DEF Atomic!Leave, Busy, Done, Outcome
  <2>3. CASE req[t].op = "write"
    <3>1. ThisCall(t) \in applied /\ got[t] = NoVal
      BY <2>1, <2>3 DEF StepInv, CallInv, Returning
    <3>2. Done[t]
      BY <3>1 DEF Done
    <3> QED
      BY Zenon, <1>7, <2>2, <2>3, <3>1, <3>2 DEF Atomic!WriteOk, Done, Delivered
  <2>4. CASE req[t].op = "read"
    <3>1. got[t] \in seen[t]
      BY <2>1, <2>4 DEF FreshInv, ReadFresh, Returning
    <3> QED
      BY Zenon, <1>6, <2>2, <2>4, <3>1 DEF Atomic!ReadOk, Delivered
  <2> QED
    BY <1>8, <2>3, <2>4
<1>10. CASE ret'[t] # 0
  <2>1. ~Returning(t, "read")
    BY <1>1, <1>10 DEF UnlockMutex, FlockFails, Goto, Returning
  <2>2. got[t] = NoVal
    BY <1>1, <2>1 DEF StepInv, CallInv
  <2>3. Atomic!Leave(t, "failed")
    BY Zenon, <1>1, <1>3, <1>4, <1>5, <1>10 DEF Atomic!Leave, Busy, Done, Outcome
  <2> QED
    BY Zenon, <1>7, <2>2, <2>3 DEF Atomic!CallFails, Delivered
<1> QED
  BY <1>9, <1>10

(* The moment a write takes effect.                                        *)
LEMMA WriteTakesEffect ==
  ASSUME TypeOK, FreshInv, StepInv, McuWriteDone, CrcMatches(mcuCmd, mcuData)
  PROVE  \E t \in Thread : Atomic!TakeEffect(t)
<1>1. /\ mcuMode = "gotdata" /\ mcuCmd.op = "write"
      /\ regs' = [regs EXCEPT ![mcuCmd.addr] = mcuData.val]
      /\ seen' = [u \in Thread |->
                    IF req[u].addr = mcuCmd.addr THEN seen[u] \cup {mcuData.val} ELSE seen[u]]
      /\ applied' = applied \cup {sender}
      /\ UNCHANGED <<pc, req, ret, got, calls>>
  BY DEF McuWriteDone, host
<1>2. PICK t \in Thread :
        /\ pc[t] = "wait_data" /\ req[t].op = "write"
        /\ sender = ThisCall(t) /\ ThisCall(t) \notin applied
        /\ mcuCmd.addr = req[t].addr /\ mcuData.val = req[t].val
  BY <1>1, WriteInTime
<1>3. Busy[t] /\ ~Done[t]
  BY <1>2 DEF Busy, Done
<1>4. Done' = [Done EXCEPT ![t] = TRUE]
  <2>1. \A u \in Thread : ThisCall(u)' = ThisCall(u)
    BY <1>1 DEF ThisCall
  <2>2. \A u \in Thread : u # t => ThisCall(u) # sender
    BY <1>2 DEF ThisCall
  <2>3. (ThisCall(t)' \in applied') = TRUE
    BY <1>1, <1>2, <2>1
  <2>4. \A u \in Thread : u # t => (ThisCall(u)' \in applied') = (ThisCall(u) \in applied)
    BY <1>1, <2>1, <2>2
  <2> QED
    BY Zenon, <2>3, <2>4 DEF Done
<1>5. Busy' = Busy /\ Outcome' = Outcome /\ Delivered' = Delivered
  BY <1>1 DEF Busy, Outcome, Delivered
<1>6. regs' = [regs EXCEPT ![req[t].addr] = req[t].val]
  BY <1>1, <1>2
<1>7. seen' = [u \in Thread |->
                IF req[u].addr = req[t].addr THEN seen[u] \cup {req[t].val} ELSE seen[u]]
  BY <1>1, <1>2
<1>8. Atomic!TakeEffect(t)
  BY Zenon, <1>1, <1>2, <1>3, <1>4, <1>5, <1>6, <1>7
     DEF Atomic!TakeEffect, Busy, Done, Outcome, Delivered
<1> QED
  BY <1>8

(* A step inside a call that does not touch the registers.                 *)
LEMMA InsideCall ==
  ASSUME TypeOK, NEW t \in Thread, NEW s \in Pcs \ {"idle"},
         pc[t] # "idle", pc' = [pc EXCEPT ![t] = s],
         UNCHANGED <<regs, req, seen, calls, applied>>,
         \A u \in Thread : u # t => ret'[u] = ret[u] /\ got'[u] = got[u]
  PROVE  UNCHANGED Atomic!vars
<1>1. pc'[t] # "idle" /\ \A u \in Thread : u # t => pc'[u] = pc[u]
  BY DEF TypeOK
<1> QED
  BY <1>1, Stutter

LEMMA HostStutters ==
  ASSUME TypeOK, NEW t \in Thread, HostStep(t), ~UnlockMutex(t), ~FlockFails(t)
  PROVE  UNCHANGED Atomic!vars
<1> USE DEF Goto, hist, mcu, Pcs, LockedPcs, BusPcs, WaitPcs
<1>1. UNCHANGED <<regs, req, seen, calls, applied>>
  BY DEF HostStep, LockMutex, LockFlock, SendStart, StartWriteFails, StartAcked,
     TransferCommand, CommandAcked, TransferData, DataAcked, TransferFails, Refused,
     TimedOut, PollFails, UnlockFlock, Fail
<1>2. pc[t] # "idle" /\ \E s \in Pcs \ {"idle"} : pc' = [pc EXCEPT ![t] = s]
  BY DEF HostStep, LockMutex, LockFlock, SendStart, StartWriteFails, StartAcked,
     TransferCommand, CommandAcked, TransferData, DataAcked, TransferFails, Refused,
     TimedOut, PollFails, UnlockFlock, Fail
<1>3. \A u \in Thread : u # t => ret'[u] = ret[u] /\ got'[u] = got[u]
  BY DEF HostStep, LockMutex, LockFlock, SendStart, StartWriteFails, StartAcked,
     TransferCommand, CommandAcked, TransferData, DataAcked, TransferFails, Refused,
     TimedOut, PollFails, UnlockFlock, Fail, TypeOK
<1> QED
  BY <1>1, <1>2, <1>3, InsideCall

(* Every step maps to a step of RegAccess or to none.                      *)
LEMMA AtomicStep ==
  ASSUME InStep
  PROVE  TypeOK /\ FreshInv /\ StepInv /\ [Next]_vars => [Atomic!Next]_(Atomic!vars)
<1> SUFFICES ASSUME InStep, TypeOK, FreshInv, StepInv, [Next]_vars
             PROVE  Atomic!Next \/ UNCHANGED Atomic!vars
  OBVIOUS
<1>1. ASSUME NEW t \in Thread, Call(t) PROVE Atomic!Next
  <2>1. Atomic!Invoke(t)
    BY <1>1, CallInvokes
  <2> QED
    BY Zenon, <2>1 DEF Atomic!Next
<1>2. ASSUME NEW t \in Thread, HostStep(t) PROVE Atomic!Next \/ UNCHANGED Atomic!vars
  <2>1. CASE UnlockMutex(t) \/ FlockFails(t)
    <3>1. Atomic!WriteOk(t) \/ Atomic!ReadOk(t) \/ Atomic!CallFails(t)
      BY <2>1, CallLeaves
    <3> QED
      BY Zenon, <3>1 DEF Atomic!Next
  <2>2. CASE ~UnlockMutex(t) /\ ~FlockFails(t)
    BY <1>2, <2>2, HostStutters
  <2> QED
    BY <2>1, <2>2
<1>3. ASSUME NEW p \in Proc PROVE ~Crash(p) /\ ~Restart(p)
  BY DEF Crash, Restart, Fault, InStep, StepInv, CallInv
<1>4. CASE Deliver \/ LoseByte \/ McuGiveUp
  <2>1. UNCHANGED <<pc, req, ret, got, calls, regs, seen, applied>>
    BY <1>4 DEF Deliver, LoseByte, McuGiveUp, host, mcu, hist
  <2> QED
    BY <2>1, Stutter
<1>5. CASE McuStep
  <2>1. CASE McuWriteDone /\ CrcMatches(mcuCmd, mcuData)
    <3>1. PICK t \in Thread : Atomic!TakeEffect(t)
      BY <2>1, WriteTakesEffect
    <3> QED
      BY Zenon, <3>1 DEF Atomic!Next
  <2>2. CASE ~(McuWriteDone /\ CrcMatches(mcuCmd, mcuData))
    <3>1. UNCHANGED <<pc, req, ret, got, calls, regs, seen, applied>>
      BY <1>5, <2>2 DEF McuStep, McuStart, McuAcceptCommand, McuRefuse, McuReadDone,
         McuWriteDone, host, hist, mcu
    <3> QED
      BY <3>1, Stutter
  <2> QED
    BY <2>1, <2>2
<1>6. CASE UNCHANGED vars
  BY <1>6, Stutter DEF vars
<1> QED
  BY Zenon, <1>1, <1>2, <1>3, <1>4, <1>5, <1>6 DEF Next, Finished

(* The refinement: while host and MCU stay in step, every behaviour of the *)
(* handshake is one of the atomic accesses of RegAccess.  A write takes    *)
(* effect at most once and within its call, has done so if the call        *)
(* returned 0, and a read that returned 0 delivers what its register held  *)
(* during the call (spi_reg.c:120-170), for any number of threads,         *)
(* processes, calls and faults.                                            *)
THEOREM AccessIsAtomic == ASSUME InStep PROVE Spec => AtomicAccess
<1>1. Init => TypeOK /\ LockInv /\ FreshInv /\ StepInv
  BY TypeInit, LockInvInit, FreshInit, StepInit
<1>2. TypeOK /\ LockInv /\ FreshInv /\ StepInv /\ [Next]_vars
        => (TypeOK /\ LockInv /\ FreshInv /\ StepInv)'
  BY TypeStep, LockInvStep, FreshStep, StepStep
<1>3. Init => Atomic!Init
  BY AtomicInit
<1>4. TypeOK /\ FreshInv /\ StepInv /\ [Next]_vars => [Atomic!Next]_(Atomic!vars)
  BY AtomicStep
<1> QED
  BY <1>1, <1>2, <1>3, <1>4, PTL DEF Spec, AtomicAccess, Atomic!Spec
=============================================================================
