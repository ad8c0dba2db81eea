---------------------------- MODULE SpiLifecycle ----------------------------
(***************************************************************************)
(* Setting up and releasing the bus: SpiReg_Init and SpiReg_Exit           *)
(* (src/src/spi_reg.c:230-301), uart_Open (src/src/general/pp_uart.c) and  *)
(* main around them (src/src/main.c:223-230).  Descriptors are numbers of  *)
(* a table per process and are reused, as open does; the lock file, the    *)
(* SPI device and the UART are shared by the processes.                    *)
(*                                                                         *)
(* The accesses in between are modules SpiReg and RegAccess; here one      *)
(* is the time between its flock calls.                                    *)
(***************************************************************************)
EXTENDS Integers, FiniteSets

CONSTANTS
  Process,    \* the processes
  InitLine,   \* what the UART's settings may need at the start
  Sites,      \* the calls that may fail
  MaxFaults,  \* bound: failing calls in a behaviour
  MaxUses,    \* bound: accesses per process
  MaxKills    \* bound: processes killed in a behaviour

Fd == 0 .. 4                                \* numbers free for this program
NoFd == -1
File == {"lock", "spi", "uart", "log"}
Nobody == "nobody"

SpiSetting == {"mode", "lsb", "bits", "hz"}
LineFault == {"baud", "frame", "cooked"}    \* wrong speed, wrong 8N1, not raw
CallSites ==
  {"lock", "flock", "spi", "uart", "set_speed", "set_parity"} \cup SpiSetting

ASSUME LifecycleAssumption ==
  /\ Nobody \notin Process
  /\ InitLine \subseteq SUBSET LineFault
  /\ Sites \subseteq CallSites
  /\ MaxFaults \in Nat /\ MaxUses \in Nat /\ MaxKills \in Nat

VARIABLES
  pc,      \* pc[p]: the next call of p
  table,   \* table[p]: its open descriptors, number to file
  h,       \* h[p]: the three descriptors of the handle
  ret,     \* ret[p]: the variable ret of SpiReg_Init
  owner,   \* who holds the file lock
  spi,     \* settings the SPI device has
  line,    \* what is wrong with the settings of the UART
  uses, faults, kills

vars == <<pc, table, h, ret, owner, spi, line, uses, faults, kills>>
device == <<spi, line>>
counts == <<uses, faults, kills>>

Init ==
  /\ pc = [p \in Process |-> "lock"]
  /\ table = [p \in Process |-> [n \in Fd |-> "free"]]
  /\ h = [p \in Process |-> [lock |-> 0, spi |-> 0, uart |-> 0]]
  /\ ret = [p \in Process |-> 0]
  /\ owner = Nobody
  /\ spi \in {{}, SpiSetting}
  /\ line \in InitLine
  /\ uses = [p \in Process |-> 0] /\ faults = 0 /\ kills = 0

Holds(t, file) == \E n \in Fd : t[n] = file

(* open gives the lowest number that is free.                              *)
Lowest(t) == CHOOSE n \in Fd : t[n] = "free" /\ \A m \in Fd : t[m] = "free" => n <= m

(* close of numbers; of one that is not open it does nothing.  The lock    *)
(* goes with its descriptor.                                               *)
Close(p, fds) ==
  LET t == [n \in Fd |-> IF n \in fds THEN "free" ELSE table[p][n]]
  IN /\ table' = [table EXCEPT ![p] = t]
     /\ owner' = IF owner = p /\ ~Holds(t, "lock") THEN Nobody ELSE owner

(* flock: a process that has the lock gets it again.                       *)
Acquire(p) == owner \in {Nobody, p} /\ owner' = p

Keep == UNCHANGED <<table, owner>>

Goto(p, from, to) == pc[p] = from /\ pc' = [pc EXCEPT ![p] = to]

Fails(site) == site \in Sites /\ faults < MaxFaults /\ faults' = faults + 1

(* main goes on to run unless Init has returned a negative number; result  *)
(* is what it returns.                                                     *)
Return(p, result) ==
  /\ ret' = [ret EXCEPT ![p] = result]
  /\ pc' = [pc EXCEPT ![p] = IF result < 0 THEN "failed" ELSE "ready"]

-----------------------------------------------------------------------------
(* SpiReg_Init, call by call.                                              *)

OpenLock(p) ==
  /\ pc[p] = "lock"
  /\ UNCHANGED <<owner, device, uses, kills>>
  /\ \/ /\ Goto(p, "lock", "flock")
        /\ table' = [table EXCEPT ![p][Lowest(table[p])] = "lock"]
        /\ h' = [h EXCEPT ![p].lock = Lowest(table[p])]
        /\ UNCHANGED <<ret, faults>>
     \/ Fails("lock") /\ Return(p, -1) /\ UNCHANGED <<table, h>>

(* Mutant: the lock is opened but not taken.                               *)
TakeLockNot(p) ==
  Goto(p, "flock", "spi") /\ UNCHANGED <<table, h, ret, owner, device, uses, faults, kills>>

TakeLock(p) ==
  /\ pc[p] = "flock"
  /\ UNCHANGED <<h, device, uses, kills>>
  /\ \/ /\ Acquire(p)
        /\ Goto(p, "flock", "spi")
        /\ UNCHANGED <<table, ret, faults>>
     \/ Fails("flock") /\ Return(p, -1) /\ Close(p, {h[p].lock})

(* The error exits close what was opened and return ret as it stands.      *)
Abandon(p, fds, result) == Close(p, fds) /\ Return(p, result)

(* Mutant: the error exit forgets to close the lock.                       *)
DeviceFdsOnly(p) == {h[p].spi}

InitFds(p) == {h[p].spi, h[p].lock}

OpenSpi(p) ==
  /\ pc[p] = "spi"
  /\ UNCHANGED <<device, uses, kills>>
  /\ \/ /\ Goto(p, "spi", "mode")
        /\ table' = [table EXCEPT ![p][Lowest(table[p])] = "spi"]
        /\ h' = [h EXCEPT ![p].spi = Lowest(table[p])]
        /\ ret' = [ret EXCEPT ![p] = Lowest(table[p])]
        /\ UNCHANGED <<owner, faults>>
     \/ Fails("spi") /\ Abandon(p, {h[p].lock}, -1) /\ UNCHANGED h

AfterSetting == [mode |-> "lsb", lsb |-> "bits", bits |-> "hz", hz |-> "uart"]

(* The four ioctl calls.                                                   *)
Configure(p) ==
  /\ pc[p] \in SpiSetting
  /\ UNCHANGED <<h, line, uses, kills>>
  /\ \/ /\ spi' = spi \cup {pc[p]}
        /\ ret' = [ret EXCEPT ![p] = 0]
        /\ pc' = [pc EXCEPT ![p] = AfterSetting[pc[p]]]
        /\ Keep /\ UNCHANGED faults
     \/ Fails(pc[p]) /\ Abandon(p, InitFds(p), -1) /\ UNCHANGED spi

OpenUart(p) ==
  /\ pc[p] = "uart"
  /\ UNCHANGED <<device, uses, kills>>
  /\ \/ /\ Goto(p, "uart", "set_speed")
        /\ table' = [table EXCEPT ![p][Lowest(table[p])] = "uart"]
        /\ h' = [h EXCEPT ![p].uart = Lowest(table[p])]
        /\ UNCHANGED <<ret, owner, faults>>
     \/ Fails("uart") /\ Abandon(p, InitFds(p), ret[p]) /\ h' = [h EXCEPT ![p].uart = NoFd]

(* uart_Open closes its descriptor; SpiReg_Init the others.                *)
UartOpenFails(p) ==
  /\ h' = [h EXCEPT ![p].uart = NoFd]
  /\ Abandon(p, InitFds(p) \cup {h[p].uart}, ret[p])

SetSpeed(p) ==
  /\ pc[p] = "set_speed"
  /\ UNCHANGED <<spi, uses, kills>>
  /\ \/ /\ line' = line \ {"baud"}
        /\ Goto(p, "set_speed", "set_parity")
        /\ Keep /\ UNCHANGED <<h, ret, faults>>
     \/ Fails("set_speed") /\ UartOpenFails(p) /\ UNCHANGED line

(* Mutant: only the frame is set.                                          *)
RightedFrameOnly(l) == l \ {"frame"}

Righted(l) == l \ {"frame", "cooked"}

(* The last step: the mutex is made and the lock given back.               *)
SetParity(p) ==
  /\ pc[p] = "set_parity"
  /\ UNCHANGED <<spi, uses, kills>>
  /\ \/ /\ line' = Righted(line)
        /\ Return(p, 0)
        /\ owner' = Nobody
        /\ UNCHANGED <<table, h, faults>>
     \/ Fails("set_parity") /\ UartOpenFails(p) /\ UNCHANGED line

-----------------------------------------------------------------------------
(* run: accesses, and the log, whose file is opened at the first message.  *)

Names(p, fd, file) == fd \in Fd /\ table[p][fd] = file

OpenLog(p) ==
  /\ pc[p] = "ready"
  /\ ~Holds(table[p], "log")
  /\ table' = [table EXCEPT ![p][Lowest(table[p])] = "log"]
  /\ UNCHANGED <<pc, h, ret, owner, device, counts>>

(* An access begins with flock and is given up if that fails.  On another  *)
(* file that has got the number it locks nothing of the bus.               *)
Begin(p) ==
  /\ uses[p] < MaxUses
  /\ uses' = [uses EXCEPT ![p] = @ + 1]
  /\ \/ /\ Names(p, h[p].lock, "lock")
        /\ Acquire(p)
        /\ Goto(p, "ready", "access")
     \/ /\ ~Names(p, h[p].lock, "lock")
        /\ pc[p] = "ready" /\ UNCHANGED <<pc, owner>>
  /\ UNCHANGED <<table, h, ret, device, faults, kills>>

End(p) ==
  /\ Goto(p, "access", "ready")
  /\ owner' = Nobody
  /\ UNCHANGED <<table, h, ret, device, counts>>

-----------------------------------------------------------------------------
(* SpiReg_Exit waits for the lock, closes and gives it back.               *)
ExitLock(p) ==
  /\ Goto(p, "ready", "exit")
  /\ \/ Names(p, h[p].lock, "lock") /\ Acquire(p)
     \/ ~Names(p, h[p].lock, "lock") /\ UNCHANGED owner
  /\ UNCHANGED <<table, h, ret, device, counts>>

HandleFds(p) == {h[p].lock, h[p].spi, h[p].uart}

ExitClose(p) ==
  /\ Goto(p, "exit", "done")
  /\ Close(p, HandleFds(p))
  /\ UNCHANGED <<h, ret, device, counts>>

(* The kernel closes what a killed process had open.                       *)
Kill(p) ==
  /\ pc[p] \notin {"failed", "done", "killed"}
  /\ kills < MaxKills /\ kills' = kills + 1
  /\ pc' = [pc EXCEPT ![p] = "killed"]
  /\ Close(p, Fd)
  /\ UNCHANGED <<h, ret, device, uses, faults>>

Step(p) ==
  \/ OpenLock(p) \/ TakeLock(p) \/ OpenSpi(p) \/ Configure(p)
  \/ OpenUart(p) \/ SetSpeed(p) \/ SetParity(p)
  \/ OpenLog(p) \/ Begin(p) \/ End(p)
  \/ ExitLock(p) \/ ExitClose(p)

Next == \E p \in Process : Step(p) \/ Kill(p)

(* A process goes on running.  Who waits in flock gets the lock in the     *)
(* end, as the others ask for it only so often.                            *)
Spec == Init /\ [][Next]_vars
FairSpec == Spec /\ \A p \in Process : WF_vars(Step(p))

-----------------------------------------------------------------------------
Up == {"ready", "access", "exit"}
Over == {"failed", "done", "killed"}

LifecycleTypeOK ==
  /\ pc \in [Process -> CallSites \cup Up \cup Over]
  /\ table \in [Process -> [Fd -> File \cup {"free"}]]
  /\ h \in [Process -> [lock : Fd, spi : Fd, uart : Fd \cup {NoFd}]]
  /\ ret \in [Process -> Fd \cup {-1}]
  /\ owner \in Process \cup {Nobody}
  /\ spi \subseteq SpiSetting /\ line \subseteq LineFault
  /\ uses \in [Process -> 0 .. MaxUses]

UartOpened(p) == h[p].uart # NoFd

(* SpiReg_Init returns 0 in two cases.  Either uart_Open succeeded: then   *)
(* the handle names the three open files and both devices are set up,      *)
(* whatever another process that starts, fails or is killed does in the    *)
(* meantime.  Or uart_Open failed: spi_reg.c:275 leaves the 0 of the ioctl *)
(* in ret, and main goes on with a handle whose files are closed.          *)
ReadyIsUsableOrClosed ==
  \A p \in Process : pc[p] \in Up =>
    IF UartOpened(p)
      THEN /\ \A f \in {"lock", "spi", "uart"} : Names(p, h[p][f], f)
           /\ spi = SpiSetting /\ line = {}
      ELSE \A f \in {"lock", "spi", "uart"} : ~Holds(table[p], f)

(* Once Init has failed or Exit is done, nothing of the bus is left open   *)
(* and the lock is not held.                                               *)
NothingLeft ==
  \A p \in Process : pc[p] \in Over =>
    owner # p /\ \A f \in {"lock", "spi", "uart"} : ~Holds(table[p], f)

(* The devices are changed, and their input flushed, only by a process     *)
(* that holds the lock, never during another's access.                     *)
SetUpAlone ==
  \A p, q \in Process :
    pc[p] \in SpiSetting \cup {"uart", "set_speed", "set_parity"} =>
      owner = p /\ (q # p => pc[q] # "access")

(* Nobody waits for ever: each process ends Init, its accesses and Exit,   *)
(* also when others fail or are killed while they hold the lock.           *)
EveryoneEnds == \A p \in Process : <>(pc[p] \in Over)
=============================================================================
