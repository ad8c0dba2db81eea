------------------------------- MODULE SpiReg -------------------------------
(***************************************************************************)
(* Register access over SPI with a UART handshake (src/src/spi_reg.c).     *)
(*                                                                         *)
(* Threads of several processes share one bus to the mirror MCU.  A call   *)
(* takes the pthread mutex of its handle, then flock() on the lock file,   *)
(* and then runs four exchanges: the byte 'S' answered by 'A', the command *)
(* frame answered by 'A', the data frame answered by 'A', and for a read   *)
(* the check of the CRC.  Every error path goes through the same unlock    *)
(* sequence.  The UART line and the MCU are the environment; the MCU is    *)
(* modelled from the protocol the host code relies on.                     *)
(***************************************************************************)
EXTENDS Naturals, Integers, Sequences, FiniteSets

CONSTANTS
  Thread,      \* threads that call SpiReg_Read / SpiReg_Write
  Proc,        \* processes; each has one SpiRegHandle
  ProcOf,      \* the process of a thread
  Addr,        \* register addresses
  Val,         \* register contents
  Requests,    \* the calls a thread may make
  Faults,      \* the kinds of fault the run allows
  MaxCalls,    \* bound: calls per thread
  MaxFaults,   \* bound: faults in a behaviour
  InitRegs,    \* register contents the MCU may start with
  NoThread, NoProc, NoAddr, NoVal, NoCrc   \* values outside the sets above

FaultKinds ==
  {"lost", "noise", "opcode", "nack", "giveup", "syscall", "poll", "crash",
   "late"}

Request == [op : {"read"}, addr : Addr, val : {NoVal}]
             \cup [op : {"write"}, addr : Addr, val : Val]
NoRequest == [op |-> "none", addr |-> NoAddr, val |-> NoVal]

(* A command frame as a receiver understands it; JunkCmd is one that is    *)
(* neither SPI_CMD_READ_REG nor SPI_CMD_WRITE_REG.                         *)
JunkCmd == [op |-> "junk", addr |-> NoAddr]
Cmd == [op : {"read", "write"}, addr : Addr] \cup {JunkCmd}

ASSUME ProcOfAssumption == ProcOf \in [Thread -> Proc]
ASSUME RequestsAssumption == Requests \subseteq Request
ASSUME InitRegsAssumption == InitRegs \subseteq [Addr -> Val]
ASSUME BoundsAssumption == MaxCalls \in Nat /\ MaxFaults \in Nat
ASSUME FaultsAssumption == Faults \subseteq FaultKinds
ASSUME NullAssumption ==
  /\ NoThread \notin Thread
  /\ NoProc \notin Proc
  /\ NoAddr \notin Addr
  /\ NoVal \notin Val
  /\ NoCrc \notin Cmd \X (Val \cup {NoVal})

Command(r) == [op |-> r.op, addr |-> r.addr]

(* The checksum of the data phase is seeded with the command frame, which  *)
(* has no checksum of its own.  It is taken as ideal: it tells any two     *)
(* (command, data) pairs apart.                                            *)
(* Mutant: a checksum of the data alone.                                   *)
CrcUnseeded(cmd, v) == <<JunkCmd, v>>

Crc(cmd, v) == <<cmd, v>>

Frame(cmd, v) == [val |-> v, crc |-> Crc(cmd, v)]

(* Bytes whose checksum fails: 0xff filler, a command frame, noise.        *)
Junk == [val |-> NoVal, crc |-> NoCrc]

FrameType == {Frame(c, v) : c \in Cmd, v \in Val} \cup {Junk}

VARIABLES
  pc,        \* pc[t]: where thread t is in SpiReg_Read / SpiReg_Write
  req,       \* req[t]: arguments of t's current or latest call
  ret,       \* ret[t]: the local variable ret
  got,       \* got[t]: what the call copied to reg_data
  calls,     \* calls[t]: calls made so far
  mutex,     \* mutex[p]: holder of the pthread mutex of p's handle
  flock,     \* the process that holds the advisory lock on the lock file
  rxbuf,     \* rxbuf[p]: h->rx_buf
  uplink,    \* 'S' bytes sent and not yet handled by the MCU
  wire,      \* answer bytes on their way to the host
  rxq,       \* answer bytes in the tty input queue
  mcuMode,   \* MCU: what it waits for, or the frame it is about to handle
  mcuCmd,    \* MCU: the last command frame
  mcuData,   \* MCU: data latched for a read, or received for a write
  regs,      \* MCU: the registers
  faults,    \* faults so far
  issued,    \* history: the requests calls have been made with
  seen,      \* history: contents of t's register since t's call began
  sender,    \* history: the call whose data frame the MCU holds
  applied    \* history: the calls whose data frame was written to regs

host  == <<pc, req, ret, got, calls>>
locks == <<mutex, flock>>
line  == <<uplink, wire, rxq>>
mcu   == <<mcuMode, mcuCmd, mcuData, regs>>
hist  == <<issued, seen, sender, applied>>
vars  == <<pc, req, ret, got, calls, mutex, flock, rxbuf, uplink, wire, rxq,
           mcuMode, mcuCmd, mcuData, regs, faults, issued, seen, sender,
           applied>>

(* The statements between flock(LOCK_EX) and flock(LOCK_UN).               *)
BusPcs == {"start", "wait_start", "command", "wait_command", "data",
           "wait_data", "out"}
LockedPcs == BusPcs \cup {"flock", "unlock"}
Pcs == LockedPcs \cup {"idle", "mutex", "dead"}
WaitPcs == {"wait_start", "wait_command", "wait_data"}

McuModes == {"idle", "cmd", "gotcmd", "data", "gotdata"}

ThisCall(t) == <<t, calls[t]>>

Init ==
  /\ pc = [t \in Thread |-> "idle"]
  /\ req = [t \in Thread |-> NoRequest]
  /\ ret = [t \in Thread |-> 0]
  /\ got = [t \in Thread |-> NoVal]
  /\ calls = [t \in Thread |-> 0]
  /\ mutex = [p \in Proc |-> NoThread]
  /\ flock = NoProc
  /\ rxbuf = [p \in Proc |-> Junk]
  /\ uplink = 0
  /\ wire = <<>>
  /\ rxq = <<>>
  /\ mcuMode = "idle"
  /\ mcuCmd = JunkCmd
  /\ mcuData = Junk
  /\ regs \in InitRegs
  /\ faults = 0
  /\ issued = {}
  /\ seen = [t \in Thread |-> {}]
  /\ sender = <<NoThread, 0>>
  /\ applied = {}

-----------------------------------------------------------------------------
(* Faults are counted, and a run chooses which kinds may happen.           *)
Fault(kind) ==
  /\ kind \in Faults
  /\ faults < MaxFaults
  /\ faults' = faults + 1

Goto(t, from, to) ==
  /\ pc[t] = from
  /\ pc' = [pc EXCEPT ![t] = to]

(* Mutant: errors are reported as positive numbers.                        *)
FailPositive(t, from, code) ==
  /\ Goto(t, from, "out")
  /\ ret' = [ret EXCEPT ![t] = -code]
  /\ UNCHANGED <<req, got, calls>>

(* "goto out" with the given value in ret                                  *)
Fail(t, from, code) ==
  /\ Goto(t, from, "out")
  /\ ret' = [ret EXCEPT ![t] = code]
  /\ UNCHANGED <<req, got, calls>>

-----------------------------------------------------------------------------
(* The locks.                                                              *)

Call(t) ==
  /\ calls[t] < MaxCalls
  /\ Goto(t, "idle", "mutex")
  /\ calls' = [calls EXCEPT ![t] = @ + 1]
  /\ \E r \in Requests :
       /\ req' = [req EXCEPT ![t] = r]
       /\ issued' = issued \cup {r}
       /\ seen' = [seen EXCEPT ![t] = {regs[r.addr]}]
  /\ ret' = [ret EXCEPT ![t] = 0]
  /\ got' = [got EXCEPT ![t] = NoVal]
  /\ UNCHANGED <<locks, rxbuf, line, mcu, faults, sender, applied>>

(* Mutant: the mutex does not exclude anybody.                             *)
LockMutexNoWait(t) ==
  /\ Goto(t, "mutex", "flock")
  /\ mutex' = [mutex EXCEPT ![ProcOf[t]] = t]
  /\ UNCHANGED <<req, ret, got, calls, flock, rxbuf, line, mcu, faults, hist>>

(* pthread_mutex_lock(&h->mutex)                                           *)
LockMutex(t) ==
  /\ mutex[ProcOf[t]] = NoThread
  /\ Goto(t, "mutex", "flock")
  /\ mutex' = [mutex EXCEPT ![ProcOf[t]] = t]
  /\ UNCHANGED <<req, ret, got, calls, flock, rxbuf, line, mcu, faults, hist>>

(* flock(LOCK_EX), which belongs to the process, then the memset of both   *)
(* buffers                                                                 *)
LockFlock(t) ==
  /\ flock \in {NoProc, ProcOf[t]}
  /\ Goto(t, "flock", "start")
  /\ flock' = ProcOf[t]
  /\ rxbuf' = [rxbuf EXCEPT ![ProcOf[t]] = Junk]
  /\ UNCHANGED <<req, ret, got, calls, mutex, line, mcu, faults, hist>>

(* flock returns an error (EINTR): unlock the mutex and return it          *)
FlockFails(t) ==
  /\ Fault("syscall")
  /\ Goto(t, "flock", "idle")
  /\ ret' = [ret EXCEPT ![t] = -1]
  /\ mutex' = [mutex EXCEPT ![ProcOf[t]] = NoThread]
  /\ UNCHANGED <<req, got, calls, flock, rxbuf, line, mcu, hist>>

UnlockFlock(t) ==
  /\ Goto(t, "out", "unlock")
  /\ flock' = NoProc
  /\ UNCHANGED <<req, ret, got, calls, mutex, rxbuf, line, mcu, faults, hist>>

(* pthread_mutex_unlock(&h->mutex); return ret                             *)
UnlockMutex(t) ==
  /\ Goto(t, "unlock", "idle")
  /\ mutex' = [mutex EXCEPT ![ProcOf[t]] = NoThread]
  /\ UNCHANGED <<req, ret, got, calls, flock, rxbuf, line, mcu, faults, hist>>

-----------------------------------------------------------------------------
(* The handshake bytes.  Taking a byte and the uart_InClean that follows   *)
(* are one step: a byte that arrives between them is one that arrived      *)
(* before both.                                                            *)

(* _GotoStartCmd: drop what is in the input queue and write 'S'            *)
SendStart(t) ==
  /\ Goto(t, "start", "wait_start")
  /\ rxq' = <<>>
  /\ uplink' = uplink + 1
  /\ UNCHANGED <<req, ret, got, calls, locks, rxbuf, wire, mcu, faults, hist>>

StartWriteFails(t) ==
  /\ Fault("syscall")
  /\ Fail(t, "start", -2)
  /\ rxq' = <<>>
  /\ UNCHANGED <<locks, rxbuf, uplink, wire, mcu, hist>>

(* Mutant: any byte is taken for an acknowledgement.                       *)
TakeAnyByte == rxq # <<>> /\ rxq' = <<>>

TakeAck ==
  /\ rxq # <<>>
  /\ Head(rxq) = "A"
  /\ rxq' = <<>>

StartAcked(t) ==
  /\ Goto(t, "wait_start", "command")
  /\ TakeAck
  /\ UNCHANGED <<req, ret, got, calls, locks, rxbuf, uplink, wire, mcu,
                 faults, hist>>

CommandAcked(t) ==
  /\ Goto(t, "wait_command", "data")
  /\ TakeAck
  /\ UNCHANGED <<req, ret, got, calls, locks, rxbuf, uplink, wire, mcu,
                 faults, hist>>

(* Mutant: a read does not check the CRC.                                  *)
DataAckedUnchecked(t) ==
  /\ Goto(t, "wait_data", "out")
  /\ TakeAck
  /\ ret' = [ret EXCEPT ![t] = 0]
  /\ got' = IF req[t].op = "read"
              THEN [got EXCEPT ![t] = rxbuf[ProcOf[t]].val] ELSE got
  /\ UNCHANGED <<req, calls, locks, rxbuf, uplink, wire, mcu, faults, hist>>

(* The last answer.  A write succeeds with it; a read still compares the   *)
(* CRC of what it received with one seeded with the command it sent.       *)
DataAcked(t) ==
  LET p == ProcOf[t]
      good == rxbuf[p].crc = Crc(Command(req[t]), rxbuf[p].val)
  IN /\ Goto(t, "wait_data", "out")
     /\ TakeAck
     /\ \/ /\ req[t].op = "write"
           /\ ret' = [ret EXCEPT ![t] = 0]
           /\ UNCHANGED got
        \/ /\ req[t].op = "read"
           /\ good
           /\ ret' = [ret EXCEPT ![t] = 0]
           /\ got' = [got EXCEPT ![t] = rxbuf[p].val]
        \/ /\ req[t].op = "read"
           /\ ~good
           /\ ret' = [ret EXCEPT ![t] = -3]
           /\ UNCHANGED got
     /\ UNCHANGED <<req, calls, locks, rxbuf, uplink, wire, mcu, faults, hist>>

(* Any other byte ends the call with -2; there is no flush on this path.   *)
Refused(t) ==
  /\ pc[t] \in WaitPcs
  /\ rxq # <<>>
  /\ Head(rxq) # "A"
  /\ rxq' = Tail(rxq)
  /\ Fail(t, pc[t], -2)
  /\ UNCHANGED <<locks, rxbuf, uplink, wire, mcu, faults, hist>>

(* The MCU still owes, or the line still carries, an answer.               *)
AnswerDue ==
  uplink > 0 \/ wire # <<>> \/ mcuMode \in {"gotcmd", "gotdata"}

(* Mutant: poll() is called again when it times out.                       *)
TimedOutPollsAgain(t) ==
  /\ pc[t] \in WaitPcs
  /\ rxq = <<>>
  /\ UNCHANGED vars

(* poll() times out.  The timeout is longer than an answer takes, unless   *)
(* answers may be late.                                                    *)
TimedOut(t) ==
  /\ pc[t] \in WaitPcs
  /\ rxq = <<>>
  /\ Fail(t, pc[t], -2)
  /\ IF AnswerDue THEN Fault("late") ELSE UNCHANGED faults
  /\ UNCHANGED <<locks, rxbuf, line, mcu, hist>>

(* poll() or read() returns an error                                       *)
PollFails(t) ==
  /\ pc[t] \in WaitPcs
  /\ Fault("poll")
  /\ Fail(t, pc[t], -2)
  /\ UNCHANGED <<locks, rxbuf, line, mcu, hist>>

-----------------------------------------------------------------------------
(* The SPI frames.  The host is the master: ioctl(SPI_IOC_MESSAGE) clocks  *)
(* both directions at once, whether the MCU is ready or not.               *)

(* What the MCU may take for the command frame c.  Noise on the operation  *)
(* byte that turns one operation into the other is a fault of its own,     *)
(* "opcode", because no checksum tells the host about it.                  *)
Misread(c) == {d \in Cmd \ {c} : d.op \in {c.op, "junk"}}
Swapped(c) == {d \in Cmd : d.op \notin {c.op, "junk"} /\ d.addr = c.addr}

Received(c, d) ==
  \/ d = c /\ UNCHANGED faults
  \/ d \in Misread(c) /\ Fault("noise")
  \/ d \in Swapped(c) /\ Fault("opcode")

TransferCommand(t) ==
  /\ Goto(t, "command", "wait_command")
  /\ \/ /\ mcuMode = "cmd"
        /\ \E d \in Cmd : Received(Command(req[t]), d) /\ mcuCmd' = d
        /\ mcuMode' = "gotcmd"
        /\ UNCHANGED <<mcuData, sender>>
     \/ \* out of step: the MCU still waits for a data frame
        /\ mcuMode = "data"
        /\ mcuMode' = "gotdata"
        /\ mcuData' = Junk
        /\ sender' = ThisCall(t)
        /\ UNCHANGED <<mcuCmd, faults>>
     \/ /\ mcuMode \notin {"cmd", "data"}
        /\ UNCHANGED <<mcuMode, mcuCmd, mcuData, faults, sender>>
  /\ UNCHANGED <<req, ret, got, calls, locks, rxbuf, line, regs,
                 issued, seen, applied>>

(* The data and its CRC as they leave tx_buf: a read clocks out the        *)
(* command that is still there.                                            *)
DataFrame(r) ==
  IF r.op = "write" THEN Frame(Command(r), r.val) ELSE Junk

(* A frame either arrives as sent or noise makes its CRC fail.             *)
Carried(f, g) ==
  \/ g = f /\ UNCHANGED faults
  \/ f # Junk /\ g = Junk /\ Fault("noise")

TransferData(t) ==
  LET p == ProcOf[t] IN
  /\ Goto(t, "data", "wait_data")
  /\ \/ /\ mcuMode = "data"
        /\ mcuCmd.op = "write"
        /\ \E g \in {Junk, DataFrame(req[t])} :
             Carried(DataFrame(req[t]), g) /\ mcuData' = g
        /\ rxbuf' = [rxbuf EXCEPT ![p] = Junk]
        /\ mcuMode' = "gotdata"
        /\ sender' = ThisCall(t)
        /\ UNCHANGED mcuCmd
     \/ /\ mcuMode = "data"
        /\ mcuCmd.op = "read"
        /\ \E g \in {Junk, mcuData} :
             Carried(mcuData, g) /\ rxbuf' = [rxbuf EXCEPT ![p] = g]
        /\ mcuMode' = "gotdata"
        /\ UNCHANGED <<mcuCmd, mcuData, sender>>
     \/ \* out of step: taken as a command, the host's own for a read
        /\ mcuMode = "cmd"
        /\ \E d \in (IF req[t].op = "read" THEN {Command(req[t])} ELSE Cmd) :
             mcuCmd' = d
        /\ rxbuf' = [rxbuf EXCEPT ![p] = Junk]
        /\ mcuMode' = "gotcmd"
        /\ UNCHANGED <<mcuData, faults, sender>>
     \/ /\ mcuMode \notin {"cmd", "data"}
        /\ rxbuf' = [rxbuf EXCEPT ![p] = Junk]
        /\ UNCHANGED <<mcuMode, mcuCmd, mcuData, faults, sender>>
  /\ UNCHANGED <<req, ret, got, calls, locks, line, regs,
                 issued, seen, applied>>

(* _TransferSpi returns an error, which becomes the result of the call     *)
TransferFails(t) ==
  /\ pc[t] \in {"command", "data"}
  /\ Fault("syscall")
  /\ Fail(t, pc[t], -1)
  /\ UNCHANGED <<locks, rxbuf, line, mcu, hist>>

-----------------------------------------------------------------------------
(* The UART line.                                                          *)

Deliver ==
  /\ wire # <<>>
  /\ rxq' = Append(rxq, Head(wire))
  /\ wire' = Tail(wire)
  /\ UNCHANGED <<host, locks, rxbuf, uplink, mcu, faults, hist>>

LoseByte ==
  /\ Fault("lost")
  /\ \/ /\ uplink > 0
        /\ uplink' = uplink - 1
        /\ UNCHANGED wire
     \/ /\ wire # <<>>
        /\ wire' = Tail(wire)
        /\ UNCHANGED uplink
  /\ UNCHANGED <<host, locks, rxbuf, rxq, mcu, hist>>

Answer(byte) == wire' = Append(wire, byte)

-----------------------------------------------------------------------------
(* The MCU.                                                                *)

(* 'S' begins an exchange whatever the MCU was waiting for.                *)
McuStart ==
  /\ uplink > 0
  /\ mcuMode \in {"idle", "cmd", "data"}
  /\ uplink' = uplink - 1
  /\ mcuMode' = "cmd"
  /\ Answer("A")
  /\ UNCHANGED <<host, locks, rxbuf, rxq, mcuCmd, mcuData, regs, faults, hist>>

(* A read latches the register before it is acknowledged.                  *)
McuAcceptCommand ==
  /\ mcuMode = "gotcmd"
  /\ mcuCmd # JunkCmd
  /\ mcuMode' = "data"
  /\ mcuData' = IF mcuCmd.op = "read" THEN Frame(mcuCmd, regs[mcuCmd.addr])
                                      ELSE Junk
  /\ Answer("A")
  /\ UNCHANGED <<host, locks, rxbuf, uplink, rxq, mcuCmd, regs, faults, hist>>

(* A command the MCU does not know, or that it refuses for reasons of its  *)
(* own (an address or a length it does not serve).                         *)
McuRefuse ==
  /\ mcuMode \in {"gotcmd", "gotdata"}
  /\ IF mcuMode = "gotcmd" /\ mcuCmd = JunkCmd THEN UNCHANGED faults
                                               ELSE Fault("nack")
  /\ mcuMode' = "idle"
  /\ Answer("N")
  /\ UNCHANGED <<host, locks, rxbuf, uplink, rxq, mcuCmd, mcuData, regs, hist>>

McuReadDone ==
  /\ mcuMode = "gotdata"
  /\ mcuCmd.op = "read"
  /\ mcuMode' = "idle"
  /\ Answer("A")
  /\ UNCHANGED <<host, locks, rxbuf, uplink, rxq, mcuCmd, mcuData, regs,
                 faults, hist>>

(* The receiver's side of the CRC: seeded with the command it received.    *)
CrcMatches(cmd, frame) == frame.crc = Crc(cmd, frame.val)

McuWriteDone ==
  /\ mcuMode = "gotdata"
  /\ mcuCmd.op = "write"
  /\ mcuMode' = "idle"
  /\ \/ /\ CrcMatches(mcuCmd, mcuData)
        /\ regs' = [regs EXCEPT ![mcuCmd.addr] = mcuData.val]
        /\ seen' = [t \in Thread |->
                      IF req[t].addr = mcuCmd.addr
                        THEN seen[t] \cup {mcuData.val} ELSE seen[t]]
        /\ applied' = applied \cup {sender}
        /\ Answer("A")
     \/ /\ ~CrcMatches(mcuCmd, mcuData)
        /\ Answer("N")
        /\ UNCHANGED <<regs, seen, applied>>
  /\ UNCHANGED <<host, locks, rxbuf, uplink, rxq, mcuCmd, mcuData, faults,
                 issued, sender>>

(* The MCU stops waiting for a frame that does not come.                   *)
McuGiveUp ==
  /\ mcuMode \in {"cmd", "data"}
  /\ Fault("giveup")
  /\ mcuMode' = "idle"
  /\ UNCHANGED <<host, locks, rxbuf, line, mcuCmd, mcuData, regs, hist>>

-----------------------------------------------------------------------------
(* A process is killed: the kernel releases its flock, its mutex is gone   *)
(* with its memory, and what it sent stays sent.                           *)
Crash(p) ==
  /\ Fault("crash")
  /\ \E t \in Thread : ProcOf[t] = p /\ pc[t] \notin {"idle", "dead"}
  /\ pc' = [t \in Thread |-> IF ProcOf[t] = p THEN "dead" ELSE pc[t]]
  /\ flock' = IF flock = p THEN NoProc ELSE flock
  /\ mutex' = [mutex EXCEPT ![p] = NoThread]
  /\ UNCHANGED <<req, ret, got, calls, rxbuf, line, mcu, hist>>

(* The program is started again: SpiReg_Init takes the flock, opens the    *)
(* UART, which flushes its input, and releases the flock.                  *)
Restart(p) ==
  /\ \E t \in Thread : ProcOf[t] = p /\ pc[t] = "dead"
  /\ flock = NoProc
  /\ pc' = [t \in Thread |-> IF ProcOf[t] = p THEN "idle" ELSE pc[t]]
  /\ rxq' = <<>>
  /\ rxbuf' = [rxbuf EXCEPT ![p] = Junk]
  /\ UNCHANGED <<req, ret, got, calls, locks, uplink, wire, mcu, faults, hist>>

-----------------------------------------------------------------------------
(* Steps inside a call, which the caller's thread takes by itself.         *)
HostStep(t) ==
  \/ LockMutex(t) \/ LockFlock(t) \/ FlockFails(t)
  \/ SendStart(t) \/ StartWriteFails(t) \/ StartAcked(t)
  \/ TransferCommand(t) \/ CommandAcked(t)
  \/ TransferData(t) \/ DataAcked(t) \/ TransferFails(t)
  \/ Refused(t) \/ TimedOut(t) \/ PollFails(t)
  \/ UnlockFlock(t) \/ UnlockMutex(t)

McuStep ==
  \/ McuStart \/ McuAcceptCommand \/ McuRefuse
  \/ McuReadDone \/ McuWriteDone

(* Every thread made its MaxCalls calls: the bound of a run, not the code. *)
Finished ==
  /\ \A t \in Thread : pc[t] = "idle" /\ calls[t] = MaxCalls
  /\ UNCHANGED vars

Next ==
  \/ \E t \in Thread : Call(t) \/ HostStep(t)
  \/ \E p \in Proc : Crash(p) \/ Restart(p)
  \/ Deliver \/ LoseByte
  \/ McuStep \/ McuGiveUp
  \/ Finished

Spec == Init /\ [][Next]_vars

(* A thread inside a call is scheduled, the line delivers what it does not *)
(* lose, and the MCU handles what it received.                             *)
Fairness ==
  /\ \A t \in Thread : WF_vars(HostStep(t))
  /\ WF_vars(Deliver)
  /\ WF_vars(McuStep)

FairSpec == Spec /\ Fairness

-----------------------------------------------------------------------------
(* Every variable stays in its domain.  No result other than the codes of  *)
(* spi_reg.c:112 and the -1 of a failing system call.                      *)
TypeOK ==
  /\ pc \in [Thread -> Pcs]
  /\ req \in [Thread -> Request \cup {NoRequest}]
  /\ ret \in [Thread -> {0, -1, -2, -3}]
  /\ got \in [Thread -> Val \cup {NoVal}]
  /\ calls \in [Thread -> 0 .. MaxCalls]
  /\ mutex \in [Proc -> Thread \cup {NoThread}]
  /\ flock \in Proc \cup {NoProc}
  /\ rxbuf \in [Proc -> FrameType]
  /\ uplink \in Nat
  /\ wire \in Seq({"A", "N"})
  /\ rxq \in Seq({"A", "N"})
  /\ mcuMode \in McuModes
  /\ mcuCmd \in Cmd
  /\ mcuData \in FrameType
  /\ regs \in [Addr -> Val]
  /\ faults \in 0 .. MaxFaults
  /\ issued \subseteq Request
  /\ seen \in [Thread -> SUBSET Val]
  /\ sender \in (Thread \cup {NoThread}) \X Nat
  /\ applied \subseteq (Thread \cup {NoThread}) \X Nat

(* The bus carries one exchange at a time: whatever fails, and whichever   *)
(* process dies, at most one thread of all processes is between taking     *)
(* the flock and releasing it (spi_reg.c:123-128, 166-169).  flock alone   *)
(* does not give this, it does not exclude threads of one process; the     *)
(* mutex alone does not exclude other processes.                           *)
BusExclusive ==
  \A t, u \in Thread : pc[t] \in BusPcs /\ pc[u] \in BusPcs => t = u

Returning(t, op) ==
  pc[t] \in {"out", "unlock"} /\ ret[t] = 0 /\ req[t].op = op

(* A read that is about to return 0 hands out a value its register held    *)
(* since the call began: never another register's, never a stale one, not  *)
(* even after a command frame was misread or answers got out of step       *)
(* (spi_reg.c:154-164).                                                    *)
ReadFresh ==
  \A t \in Thread : Returning(t, "read") => got[t] \in seen[t]

(* The registers change only as some caller asked: to the address and the  *)
(* value of one and the same write, although the command frame has no      *)
(* checksum (spi_reg.c:194, 206-208).                                      *)
IntendedChange ==
  \E r \in issued :
    r.op = "write" /\ regs' = [regs EXCEPT ![r.addr] = r.val]
NoMisdirectedWrite == [][regs' # regs => IntendedChange]_regs

(* Every call comes back, or its process is killed: no error path keeps    *)
(* the mutex or the flock, and no wait for an answer is without end.       *)
EveryCallReturns ==
  \A t \in Thread : pc[t] = "mutex" ~> pc[t] \in {"idle", "dead"}

(* As long as no wait ends while its answer is still due (an answer that   *)
(* comes after the timeout, a poll that fails, a process that is killed)   *)
(* and no operation byte is exchanged for the other, a call is the atomic  *)
(* access of RegAccess: whatever is lost, garbled or refused on the way.   *)
Atomic == INSTANCE RegAccess WITH
  busy <- [t \in Thread |-> pc[t] # "idle"],
  done <- [t \in Thread |-> ThisCall(t) \in applied],
  outcome <- [t \in Thread |->
                IF pc[t] # "idle" \/ calls[t] = 0 THEN "none"
                ELSE IF ret[t] = 0 THEN "ok" ELSE "failed"],
  got <- [t \in Thread |-> IF pc[t] # "idle" THEN NoVal ELSE got[t]]

AtomicAccess == Atomic!Spec
=============================================================================
