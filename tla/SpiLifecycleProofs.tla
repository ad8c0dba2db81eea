------------------------- MODULE SpiLifecycleProofs -------------------------
(***************************************************************************)
(* Proofs about setting up and releasing the bus, for any number of        *)
(* processes, faults, kills and accesses: what Init leaves open and set,   *)
(* what Exit leaves, and who may change the devices.                       *)
(***************************************************************************)
EXTENDS SpiLifecycle, TLAPS

-----------------------------------------------------------------------------
(* The invariant: pc says which files a process has open, and the handle   *)
(* names them.                                                             *)

Leads(p) == pc[p] \in SpiSetting \cup {"uart", "set_speed", "set_parity"}
Working(p) == pc[p] \in Up /\ UartOpened(p)

HasLock(p) == pc[p] \in {"flock", "spi"} \/ Leads(p) \/ Working(p)
HasSpi(p) == Leads(p) \/ Working(p)
HasUart(p) == pc[p] \in {"set_speed", "set_parity"} \/ Working(p)

(* The file is open under the number n, and no other, or not at all.       *)
Just(p, file, n, has) == \A k \in Fd : table[p][k] = file <=> has /\ k = n

TableInv(p) ==
  /\ Just(p, "lock", h[p].lock, HasLock(p))
  /\ Just(p, "spi", h[p].spi, HasSpi(p))
  /\ Just(p, "uart", h[p].uart, HasUart(p))
  /\ pc[p] \in {"set_speed", "set_parity"} => UartOpened(p)
  /\ pc[p] \notin Up \cup {"done"} => ~Holds(table[p], "log")

(* Who holds the lock follows from where the processes are.                *)
Owns(p) ==
  \/ pc[p] \in {"spi", "access"} \/ Leads(p)
  \/ pc[p] = "exit" /\ UartOpened(p)

OwnerInv(p) ==
  /\ owner = p <=> Owns(p)
  /\ pc[p] = "access" => UartOpened(p)

(* The settings are made one after the other, and stay.                    *)
DeviceInv(p) ==
  /\ pc[p] \in {"lsb", "bits", "hz"} => "mode" \in spi
  /\ pc[p] \in {"bits", "hz"} => "lsb" \in spi
  /\ pc[p] = "hz" => "bits" \in spi
  /\ pc[p] \in {"uart", "set_speed", "set_parity"} \cup Up => spi = SpiSetting
  /\ pc[p] = "set_parity" => "baud" \notin line
  /\ Working(p) => line = {}

ProcInv(p) == TableInv(p) /\ OwnerInv(p) /\ DeviceInv(p)

BusInv == LifecycleTypeOK /\ \A p \in Process : ProcInv(p)

LEMMA BusInit == Init => BusInv
<1> SUFFICES ASSUME Init PROVE BusInv
  OBVIOUS
<1> USE LifecycleAssumption DEF Init
<1>1. LifecycleTypeOK
  <2>1. pc \in [Process -> CallSites \cup Up \cup Over] BY DEF CallSites
  <2>2. table \in [Process -> [Fd -> File \cup {"free"}]] BY DEF Fd
  <2>3. h \in [Process -> [lock : Fd, spi : Fd, uart : Fd \cup {NoFd}]] BY DEF Fd
  <2>4. ret \in [Process -> Fd \cup {-1}] /\ uses \in [Process -> 0 .. MaxUses] BY DEF Fd
  <2>5. owner \in Process \cup {Nobody} /\ spi \subseteq SpiSetting /\ line \subseteq LineFault
    OBVIOUS
  <2> QED BY <2>1, <2>2, <2>3, <2>4, <2>5 DEF LifecycleTypeOK
<1>2. ASSUME NEW p \in Process PROVE ProcInv(p)
  <2>1. pc[p] = "lock" /\ owner # p OBVIOUS
  <2>2. \A k \in Fd : table[p][k] = "free" OBVIOUS
  <2>3. ~HasLock(p) /\ ~HasSpi(p) /\ ~HasUart(p) /\ ~Working(p)
    BY <2>1 DEF HasLock, HasSpi, HasUart, Working, Leads, Up, SpiSetting
  <2>4. TableInv(p) BY <2>1, <2>2, <2>3 DEF TableInv, Just, Holds
  <2>5. OwnerInv(p) BY <2>1 DEF OwnerInv, Owns, Leads, SpiSetting
  <2>6. DeviceInv(p) BY <2>1, <2>3 DEF DeviceInv, Up
  <2> QED BY <2>4, <2>5, <2>6 DEF ProcInv
<1> QED BY <1>1, <1>2 DEF BusInv

-----------------------------------------------------------------------------
(* open has a number left: the program never has more than four files.     *)
LEMMA LowestFree ==
  ASSUME NEW t, NEW a, NEW b, NEW c, \A k \in Fd : t[k] = "free" \/ k \in {a, b, c}
  PROVE  Lowest(t) \in Fd /\ t[Lowest(t)] = "free"
<1>1. \E n \in Fd : t[n] = "free" /\ \A m \in Fd : t[m] = "free" => n <= m
  <2>1. PICK k \in Fd : t[k] = "free" BY DEF Fd
  <2>2. t[0] = "free" \/ t[1] = "free" \/ t[2] = "free" \/ t[3] = "free" \/ t[4] = "free"
    BY <2>1 DEF Fd
  <2>3. ASSUME NEW m \in Fd PROVE m \in {0, 1, 2, 3, 4} BY DEF Fd
  <2> QED BY <2>2, <2>3 DEF Fd
<1> QED BY <1>1 DEF Lowest

(* close of some numbers frees these and gives up the lock if it was among *)
(* them.                                                                   *)
LEMMA CloseFrees ==
  ASSUME LifecycleTypeOK, NEW p \in Process, NEW fds, Close(p, fds)
  PROVE  /\ \A k \in Fd : table'[p][k] = IF k \in fds THEN "free" ELSE table[p][k]
         /\ \A q \in Process \ {p} : table'[q] = table[q]
         /\ table' \in [Process -> [Fd -> File \cup {"free"}]]
         /\ owner' \in Process \cup {Nobody}
         /\ \A q \in Process \ {p} : owner' = q <=> owner = q
         /\ (\A k \in Fd : table'[p][k] # "lock") => owner' # p
<1> USE LifecycleAssumption
<1> DEFINE t == [n \in Fd |-> IF n \in fds THEN "free" ELSE table[p][n]]
<1>1. table' = [table EXCEPT ![p] = t] BY DEF Close
<1>2. owner' = IF owner = p /\ ~Holds(t, "lock") THEN Nobody ELSE owner BY DEF Close
<1>3. t \in [Fd -> File \cup {"free"}] BY DEF LifecycleTypeOK
<1>4. table'[p] = t BY <1>1 DEF LifecycleTypeOK
<1>5. (\A k \in Fd : table'[p][k] # "lock") => ~Holds(t, "lock") BY <1>4 DEF Holds
<1> HIDE DEF t
<1>6. owner' \in Process \cup {Nobody} /\ (\A q \in Process \ {p} : owner' = q <=> owner = q)
  BY <1>2 DEF LifecycleTypeOK
<1>7. (\A k \in Fd : table'[p][k] # "lock") => owner' # p BY <1>2, <1>5
<1>8. /\ \A q \in Process \ {p} : table'[q] = table[q]
      /\ table' \in [Process -> [Fd -> File \cup {"free"}]]
  BY <1>1, <1>3 DEF LifecycleTypeOK
<1>9. \A k \in Fd : table'[p][k] = IF k \in fds THEN "free" ELSE table[p][k]
  BY <1>4 DEF t
<1> QED BY <1>6, <1>7, <1>8, <1>9

(* A step of p that leaves the others what they have and only adds to the  *)
(* settings keeps the invariant if it keeps that of p.                     *)
Apart(p) ==
  /\ \A q \in Process \ {p} :
       pc'[q] = pc[q] /\ table'[q] = table[q] /\ h'[q] = h[q] /\ (owner' = q <=> owner = q)
  /\ spi \subseteq spi' /\ line' \subseteq line

LEMMA OthersKept ==
  ASSUME BusInv, NEW p \in Process, LifecycleTypeOK', Apart(p), ProcInv(p)'
  PROVE  BusInv'
<1>1. ASSUME NEW q \in Process \ {p} PROVE ProcInv(q)'
  <2>1. ProcInv(q) BY DEF BusInv
  <2>2. pc'[q] = pc[q] /\ table'[q] = table[q] /\ h'[q] = h[q] /\ (owner' = q <=> owner = q)
    BY DEF Apart
  <2>3. TableInv(q)'
    BY <2>1, <2>2 DEF ProcInv, TableInv, Just, HasLock, HasSpi, HasUart, Leads, Working,
                      UartOpened, Holds
  <2>4. OwnerInv(q)' BY <2>1, <2>2 DEF ProcInv, OwnerInv, Owns, Leads, UartOpened
  <2>5. spi \subseteq spi' /\ spi' \subseteq SpiSetting /\ line' \subseteq line
    BY DEF Apart, LifecycleTypeOK
  <2>6. DeviceInv(q)'
    BY <2>1, <2>2, <2>5 DEF ProcInv, DeviceInv, Working, UartOpened, SpiSetting
  <2> QED BY <2>3, <2>4, <2>6 DEF ProcInv
<1> QED BY <1>1 DEF BusInv

-----------------------------------------------------------------------------
(* Every action keeps the invariant.                                       *)

LEMMA OpenLockStep ==
  ASSUME BusInv, NEW p \in Process, OpenLock(p)
  PROVE  BusInv'
<1> DEFINE n == Lowest(table[p])
<1>1. LifecycleTypeOK /\ ProcInv(p) /\ pc[p] = "lock" BY DEF BusInv, OpenLock
<1>2. \A k \in Fd : table[p][k] \notin {"lock", "spi", "uart", "log"}
  BY <1>1 DEF ProcInv, TableInv, Just, HasLock, HasSpi, HasUart, Leads, Working, Up,
              SpiSetting, Holds
<1>3. n \in Fd /\ table[p][n] = "free"
  <2>1. \A k \in Fd : table[p][k] = "free" BY <1>1, <1>2 DEF LifecycleTypeOK, File
  <2> QED BY <2>1, LowestFree
<1> HIDE DEF n
<1>4. owner # p /\ UNCHANGED <<owner, spi, line, uses>>
  BY <1>1 DEF ProcInv, OwnerInv, Owns, Leads, SpiSetting, OpenLock, device
<1>5. CASE /\ pc' = [pc EXCEPT ![p] = "flock"]
           /\ table' = [table EXCEPT ![p][n] = "lock"]
           /\ h' = [h EXCEPT ![p].lock = n] /\ ret' = ret
  <2>1. LifecycleTypeOK'
    BY <1>1, <1>3, <1>4, <1>5 DEF LifecycleTypeOK, CallSites, File
  <2>2. pc'[p] = "flock" /\ h'[p].lock = n BY <1>1, <1>5 DEF LifecycleTypeOK
  <2>3. \A k \in Fd : table'[p][k] = IF k = n THEN "lock" ELSE table[p][k]
    BY <1>1, <1>5 DEF LifecycleTypeOK
  <2>4. Apart(p) BY <1>1, <1>4, <1>5 DEF Apart, LifecycleTypeOK
  <2>5. ProcInv(p)'
    BY <1>2, <1>3, <1>4, <2>2, <2>3
       DEF ProcInv, TableInv, OwnerInv, DeviceInv, Just, HasLock, HasSpi, HasUart,
           Leads, Working, Owns, Up, SpiSetting, Holds
  <2> QED BY <2>1, <2>4, <2>5, OthersKept
<1>6. CASE Return(p, -1) /\ UNCHANGED <<table, h>>
  <2>1. pc' = [pc EXCEPT ![p] = "failed"] /\ ret' = [ret EXCEPT ![p] = -1]
    BY <1>6 DEF Return
  <2>2. LifecycleTypeOK'
    BY <1>1, <1>4, <1>6, <2>1 DEF LifecycleTypeOK, Over
  <2>3. pc'[p] = "failed" BY <1>1, <2>1 DEF LifecycleTypeOK
  <2>4. Apart(p) BY <1>1, <1>4, <1>6, <2>1 DEF Apart, LifecycleTypeOK
  <2>5. ProcInv(p)'
    BY <1>2, <1>4, <1>6, <2>3
       DEF ProcInv, TableInv, OwnerInv, DeviceInv, Just, HasLock, HasSpi, HasUart,
           Leads, Working, Owns, Up, SpiSetting, Holds
  <2> QED BY <2>2, <2>4, <2>5, OthersKept
<1> QED BY <1>5, <1>6 DEF OpenLock, Goto, n

(* Every error exit: what was opened is closed.  Only a failed uart_Open   *)
(* leads on to run, with no UART in the handle.                            *)
LEMMA AbandonStep ==
  ASSUME BusInv, NEW p \in Process, pc[p] \in CallSites, NEW fds, NEW result \in Fd \cup {-1},
         \A k \in Fd : table[p][k] # "free" => k \in fds,
         Abandon(p, fds, result), UNCHANGED <<device, uses>>,
         \/ h' = h /\ result = -1
         \/ h' = [h EXCEPT ![p].uart = NoFd] /\ spi = SpiSetting
  PROVE  BusInv'
<1>1. LifecycleTypeOK /\ ProcInv(p) /\ spi' = spi /\ line' = line /\ uses' = uses
  BY DEF BusInv, device
<1>2. /\ \A k \in Fd : table'[p][k] = IF k \in fds THEN "free" ELSE table[p][k]
      /\ \A q \in Process \ {p} : table'[q] = table[q]
      /\ table' \in [Process -> [Fd -> File \cup {"free"}]]
      /\ owner' \in Process \cup {Nobody}
      /\ \A q \in Process \ {p} : owner' = q <=> owner = q
      /\ (\A k \in Fd : table'[p][k] # "lock") => owner' # p
  BY <1>1, CloseFrees DEF Abandon
<1>3. \A k \in Fd : table'[p][k] = "free" BY <1>2
<1>4. owner' # p BY <1>2, <1>3
<1>5. /\ ret' = [ret EXCEPT ![p] = result]
      /\ pc' = [pc EXCEPT ![p] = IF result < 0 THEN "failed" ELSE "ready"]
  BY DEF Abandon, Return
<1>6. pc'[p] \in {"failed", "ready"} /\ (result = -1 => pc'[p] = "failed")
  BY <1>1, <1>5 DEF LifecycleTypeOK
<1>7. h' \in [Process -> [lock : Fd, spi : Fd, uart : Fd \cup {NoFd}]]
  <2>1. h \in [Process -> [lock : Fd, spi : Fd, uart : Fd \cup {NoFd}]]
    BY <1>1 DEF LifecycleTypeOK
  <2>2. CASE h' = h BY <2>1, <2>2
  <2>3. CASE h' = [h EXCEPT ![p].uart = NoFd] BY <2>1, <2>3
  <2> QED BY <2>2, <2>3
<1>8. (h'[p].uart = NoFd /\ spi = SpiSetting) \/ pc'[p] = "failed"
  <2>1. CASE result = -1 BY <1>6, <2>1
  <2>2. CASE h' = [h EXCEPT ![p].uart = NoFd] /\ spi = SpiSetting
    BY <1>1, <2>2 DEF LifecycleTypeOK
  <2> QED BY <2>1, <2>2
<1>9. LifecycleTypeOK'
  BY <1>1, <1>2, <1>5, <1>7 DEF LifecycleTypeOK, Over, Up
<1>10. Apart(p) BY <1>1, <1>2, <1>5 DEF Apart, LifecycleTypeOK
<1>11. ProcInv(p)'
  <2>1. ~(Working(p)') BY <1>6, <1>8 DEF Working, UartOpened, Up
  <2>2. TableInv(p)'
    BY <1>3, <1>6, <2>1
       DEF TableInv, Just, HasLock, HasSpi, HasUart, Leads, SpiSetting, Up, Holds
  <2>3. OwnerInv(p)' BY <1>4, <1>6 DEF OwnerInv, Owns, Leads, SpiSetting
  <2>4. DeviceInv(p)' BY <1>1, <1>6, <1>8, <2>1 DEF DeviceInv, SpiSetting, Up
  <2> QED BY <2>2, <2>3, <2>4 DEF ProcInv
<1> QED BY <1>9, <1>10, <1>11, OthersKept

LEMMA TakeLockStep ==
  ASSUME BusInv, NEW p \in Process, TakeLock(p)
  PROVE  BusInv'
<1>1. LifecycleTypeOK /\ ProcInv(p) /\ pc[p] = "flock" BY DEF BusInv, TakeLock
<1>2. UNCHANGED <<h, spi, line, uses>> BY DEF TakeLock, device
<1>3. CASE Acquire(p) /\ Goto(p, "flock", "spi") /\ UNCHANGED <<table, ret>>
  <2>1. owner \in {Nobody, p} /\ owner' = p /\ pc' = [pc EXCEPT ![p] = "spi"]
    BY <1>3 DEF Acquire, Goto
  <2>2. LifecycleTypeOK' BY <1>1, <1>2, <1>3, <2>1 DEF LifecycleTypeOK, CallSites
  <2>3. pc'[p] = "spi" BY <1>1, <2>1 DEF LifecycleTypeOK
  <2>4. Apart(p) BY <1>1, <1>2, <1>3, <2>1, LifecycleAssumption DEF Apart, LifecycleTypeOK
  <2>5. ProcInv(p)'
    BY <1>1, <1>2, <1>3, <2>1, <2>3
       DEF ProcInv, TableInv, OwnerInv, DeviceInv, Just, HasLock, HasSpi, HasUart,
           Leads, Working, Owns, Up, SpiSetting, Holds
  <2> QED BY <2>2, <2>4, <2>5, OthersKept
<1>4. CASE Return(p, -1) /\ Close(p, {h[p].lock})
  <2>1. \A k \in Fd : table[p][k] # "free" => k \in {h[p].lock}
    BY <1>1 DEF ProcInv, TableInv, Just, HasLock, HasSpi, HasUart, Leads, Working, Up,
                SpiSetting, Holds, LifecycleTypeOK, File
  <2> QED BY <1>1, <1>2, <1>4, <2>1, AbandonStep DEF Abandon, device, CallSites
<1> QED BY <1>3, <1>4 DEF TakeLock

LEMMA OpenSpiStep ==
  ASSUME BusInv, NEW p \in Process, OpenSpi(p)
  PROVE  BusInv'
<1> DEFINE n == Lowest(table[p])
<1>1. LifecycleTypeOK /\ ProcInv(p) /\ pc[p] = "spi" BY DEF BusInv, OpenSpi
<1>2. \A k \in Fd : table[p][k] \notin {"spi", "uart", "log"}
                    /\ (table[p][k] = "lock" <=> k = h[p].lock)
  BY <1>1 DEF ProcInv, TableInv, Just, HasLock, HasSpi, HasUart, Leads, Working, Up,
              SpiSetting, Holds
<1>3. \A k \in Fd : table[p][k] = "free" \/ k = h[p].lock
  BY <1>1, <1>2 DEF LifecycleTypeOK, File
<1>4. n \in Fd /\ table[p][n] = "free"
  <2>1. \A k \in Fd : table[p][k] = "free" \/ k \in {h[p].lock, 0, 0} BY <1>3
  <2> QED BY <2>1, LowestFree
<1> HIDE DEF n
<1>5. owner = p /\ UNCHANGED <<spi, line, uses>>
  BY <1>1 DEF ProcInv, OwnerInv, Owns, OpenSpi, device
<1>6. CASE /\ pc' = [pc EXCEPT ![p] = "mode"]
           /\ table' = [table EXCEPT ![p][n] = "spi"]
           /\ h' = [h EXCEPT ![p].spi = n] /\ ret' = [ret EXCEPT ![p] = n]
           /\ owner' = owner
  <2>1. LifecycleTypeOK'
    BY <1>1, <1>4, <1>5, <1>6 DEF LifecycleTypeOK, CallSites, SpiSetting, File
  <2>2. pc'[p] = "mode" /\ h'[p].spi = n /\ h'[p].lock = h[p].lock
    BY <1>1, <1>6 DEF LifecycleTypeOK
  <2>3. \A k \in Fd : table'[p][k] = IF k = n THEN "spi" ELSE table[p][k]
    BY <1>1, <1>6 DEF LifecycleTypeOK
  <2>4. Apart(p) BY <1>1, <1>5, <1>6 DEF Apart, LifecycleTypeOK
  <2>5. ProcInv(p)'
    BY <1>2, <1>4, <1>5, <1>6, <2>2, <2>3
       DEF ProcInv, TableInv, OwnerInv, DeviceInv, Just, HasLock, HasSpi, HasUart,
           Leads, Working, Owns, Up, SpiSetting, Holds
  <2> QED BY <2>1, <2>4, <2>5, OthersKept
<1>7. CASE Abandon(p, {h[p].lock}, -1) /\ UNCHANGED h
  BY <1>1, <1>3, <1>5, <1>7, AbandonStep DEF device, CallSites
<1> QED BY <1>6, <1>7 DEF OpenSpi, Goto, n

LEMMA ConfigureStep ==
  ASSUME BusInv, NEW p \in Process, Configure(p)
  PROVE  BusInv'
<1>1. LifecycleTypeOK /\ ProcInv(p) /\ pc[p] \in SpiSetting BY DEF BusInv, Configure
<1>2. UNCHANGED <<h, line, uses>> /\ owner = p
  BY <1>1 DEF ProcInv, OwnerInv, Owns, Leads, Configure
<1>3. CASE /\ spi' = spi \cup {pc[p]} /\ ret' = [ret EXCEPT ![p] = 0]
           /\ pc' = [pc EXCEPT ![p] = AfterSetting[pc[p]]] /\ Keep
  <2>1. pc'[p] = AfterSetting[pc[p]] /\ table' = table /\ owner' = owner
    BY <1>1, <1>3 DEF LifecycleTypeOK, Keep
  <2>2. /\ pc[p] = "mode" => pc'[p] = "lsb"
        /\ pc[p] = "lsb" => pc'[p] = "bits"
        /\ pc[p] = "bits" => pc'[p] = "hz"
        /\ pc[p] = "hz" => pc'[p] = "uart"
    BY <2>1 DEF AfterSetting
  <2>3. pc'[p] \in {"lsb", "bits", "hz", "uart"} BY <1>1, <2>2 DEF SpiSetting
  <2>4. LifecycleTypeOK'
    <3>1. pc' \in [Process -> CallSites \cup Up \cup Over]
      BY <1>1, <1>3, <2>1, <2>3 DEF LifecycleTypeOK, CallSites, SpiSetting
    <3>2. ret' \in [Process -> Fd \cup {-1}] BY <1>1, <1>3 DEF LifecycleTypeOK, Fd
    <3> QED BY <1>1, <1>2, <1>3, <2>1, <3>1, <3>2 DEF LifecycleTypeOK
  <2>5. Apart(p) BY <1>1, <1>2, <1>3, <2>1 DEF Apart, LifecycleTypeOK
  <2>6. TableInv(p)' /\ OwnerInv(p)'
    BY <1>1, <1>2, <2>1, <2>3
       DEF ProcInv, TableInv, OwnerInv, Just, HasLock, HasSpi, HasUart, Leads, Working,
           Owns, Up, SpiSetting, Holds
  <2>7. DeviceInv(p)'
    <3>1. spi' = spi \cup {pc[p]} /\ spi \subseteq SpiSetting
      BY <1>1, <1>3 DEF LifecycleTypeOK
    <3>2. DeviceInv(p) BY <1>1 DEF ProcInv
    <3>3. pc[p] \in {"mode", "lsb", "bits", "hz"} BY <1>1 DEF SpiSetting
    <3> QED BY <2>2, <2>3, <3>1, <3>2, <3>3 DEF DeviceInv, Working, Up, SpiSetting
  <2> QED BY <2>4, <2>5, <2>6, <2>7, OthersKept DEF ProcInv
<1>4. CASE Abandon(p, InitFds(p), -1) /\ UNCHANGED spi
  <2>1. \A k \in Fd : table[p][k] # "free" => k \in InitFds(p)
    BY <1>1 DEF ProcInv, TableInv, Just, HasUart, Working, Up, SpiSetting, Holds, InitFds,
                LifecycleTypeOK, File
  <2> QED BY <1>1, <1>2, <1>4, <2>1, AbandonStep DEF device, CallSites
<1> QED BY <1>3, <1>4 DEF Configure

LEMMA OpenUartStep ==
  ASSUME BusInv, NEW p \in Process, OpenUart(p)
  PROVE  BusInv'
<1> DEFINE n == Lowest(table[p])
<1>1. LifecycleTypeOK /\ ProcInv(p) /\ pc[p] = "uart" BY DEF BusInv, OpenUart
<1>2. \A k \in Fd : /\ table[p][k] \notin {"uart", "log"}
                    /\ table[p][k] = "lock" <=> k = h[p].lock
                    /\ table[p][k] = "spi" <=> k = h[p].spi
  BY <1>1 DEF ProcInv, TableInv, Just, HasLock, HasSpi, HasUart, Leads, Working, Up,
              SpiSetting, Holds
<1>3. \A k \in Fd : table[p][k] = "free" \/ k \in InitFds(p)
  BY <1>1, <1>2 DEF LifecycleTypeOK, File, InitFds
<1>4. n \in Fd /\ table[p][n] = "free"
  <2>1. \A k \in Fd : table[p][k] = "free" \/ k \in {h[p].spi, h[p].lock, 0}
    BY <1>3 DEF InitFds
  <2> QED BY <2>1, LowestFree
<1> HIDE DEF n
<1>5. owner = p /\ UNCHANGED <<spi, line, uses>> /\ spi = SpiSetting
  BY <1>1 DEF ProcInv, OwnerInv, Owns, Leads, OpenUart, device, DeviceInv
<1>6. CASE /\ pc' = [pc EXCEPT ![p] = "set_speed"]
           /\ table' = [table EXCEPT ![p][n] = "uart"]
           /\ h' = [h EXCEPT ![p].uart = n] /\ UNCHANGED <<ret, owner>>
  <2>1. LifecycleTypeOK'
    BY <1>1, <1>4, <1>5, <1>6 DEF LifecycleTypeOK, CallSites, File
  <2>2. pc'[p] = "set_speed" /\ h'[p].uart = n /\ h'[p].lock = h[p].lock /\ h'[p].spi = h[p].spi
    BY <1>1, <1>6 DEF LifecycleTypeOK
  <2>3. \A k \in Fd : table'[p][k] = IF k = n THEN "uart" ELSE table[p][k]
    BY <1>1, <1>6 DEF LifecycleTypeOK
  <2>4. Apart(p) BY <1>1, <1>5, <1>6 DEF Apart, LifecycleTypeOK
  <2>5. UartOpened(p)' BY <1>4, <2>2 DEF UartOpened, NoFd, Fd
  <2>6. TableInv(p)'
    BY <1>2, <1>4, <2>2, <2>3, <2>5
       DEF TableInv, Just, HasLock, HasSpi, HasUart, Leads, Working, Up, SpiSetting, Holds
  <2>7. OwnerInv(p)' /\ DeviceInv(p)'
    BY <1>5, <1>6, <2>2 DEF OwnerInv, DeviceInv, Leads, Working, Owns, Up, SpiSetting
  <2> QED BY <2>1, <2>4, <2>6, <2>7, OthersKept DEF ProcInv
<1>7. CASE Abandon(p, InitFds(p), ret[p]) /\ h' = [h EXCEPT ![p].uart = NoFd]
  <2>1. ret[p] \in Fd \cup {-1} BY <1>1 DEF LifecycleTypeOK
  <2> QED BY <1>1, <1>3, <1>5, <1>7, <2>1, AbandonStep DEF device, CallSites
<1> QED BY <1>6, <1>7 DEF OpenUart, Goto, n

(* While uart_Open sets up the line all three files are open.              *)
LEMMA UartOpenFailsStep ==
  ASSUME BusInv, NEW p \in Process, pc[p] \in {"set_speed", "set_parity"},
         UartOpenFails(p), UNCHANGED <<device, uses>>
  PROVE  BusInv'
<1>1. LifecycleTypeOK /\ ProcInv(p) BY DEF BusInv
<1>2. ret[p] \in Fd \cup {-1} BY <1>1 DEF LifecycleTypeOK
<1>3. spi = SpiSetting BY <1>1 DEF ProcInv, DeviceInv
<1>4. \A k \in Fd : table[p][k] # "free" => k \in InitFds(p) \cup {h[p].uart}
  BY <1>1 DEF ProcInv, TableInv, Just, Up, Holds, InitFds, LifecycleTypeOK, File
<1>5. Abandon(p, InitFds(p) \cup {h[p].uart}, ret[p]) /\ h' = [h EXCEPT ![p].uart = NoFd]
  BY DEF UartOpenFails
<1>6. pc[p] \in CallSites BY DEF CallSites
<1> QED BY <1>2, <1>3, <1>4, <1>5, <1>6, AbandonStep

LEMMA SetSpeedStep ==
  ASSUME BusInv, NEW p \in Process, SetSpeed(p)
  PROVE  BusInv'
<1>1. LifecycleTypeOK /\ ProcInv(p) /\ pc[p] = "set_speed" BY DEF BusInv, SetSpeed
<1>2. UNCHANGED <<spi, uses>> BY DEF SetSpeed
<1>3. CASE /\ line' = line \ {"baud"} /\ pc' = [pc EXCEPT ![p] = "set_parity"]
           /\ Keep /\ UNCHANGED <<h, ret>>
  <2>1. table' = table /\ owner' = owner BY <1>3 DEF Keep
  <2>2. LifecycleTypeOK' BY <1>1, <1>2, <1>3, <2>1 DEF LifecycleTypeOK, CallSites
  <2>3. pc'[p] = "set_parity" BY <1>1, <1>3 DEF LifecycleTypeOK
  <2>4. Apart(p) BY <1>1, <1>2, <1>3, <2>1 DEF Apart, LifecycleTypeOK
  <2>5. TableInv(p)'
    BY <1>1, <1>3, <2>1, <2>3
       DEF ProcInv, TableInv, Just, HasLock, HasSpi, HasUart, Leads, Working, Up, SpiSetting,
           Holds, UartOpened
  <2>6. OwnerInv(p)' /\ DeviceInv(p)'
    BY <1>1, <1>2, <1>3, <2>1, <2>3
       DEF ProcInv, OwnerInv, DeviceInv, Leads, Working, Owns, Up, SpiSetting
  <2> QED BY <2>2, <2>4, <2>5, <2>6, OthersKept DEF ProcInv
<1>4. CASE UartOpenFails(p) /\ UNCHANGED line
  BY <1>1, <1>2, <1>4, UartOpenFailsStep DEF device
<1> QED BY <1>3, <1>4 DEF SetSpeed, Goto

LEMMA SetParityStep ==
  ASSUME BusInv, NEW p \in Process, SetParity(p)
  PROVE  BusInv'
<1>1. LifecycleTypeOK /\ ProcInv(p) /\ pc[p] = "set_parity" BY DEF BusInv, SetParity
<1>2. UNCHANGED <<spi, uses>> /\ owner = p
  BY <1>1 DEF SetParity, ProcInv, OwnerInv, Owns, Leads
<1>3. CASE line' = Righted(line) /\ Return(p, 0) /\ owner' = Nobody /\ UNCHANGED <<table, h>>
  <2>1. pc' = [pc EXCEPT ![p] = "ready"] /\ ret' = [ret EXCEPT ![p] = 0]
    BY <1>3 DEF Return
  <2>2. line \subseteq LineFault \ {"baud"}
    BY <1>1 DEF ProcInv, DeviceInv, LifecycleTypeOK
  <2>3. line' = {} BY <1>3, <2>2 DEF Righted, LineFault
  <2>4. LifecycleTypeOK'
    BY <1>1, <1>2, <1>3, <2>1, <2>3 DEF LifecycleTypeOK, Up, Fd
  <2>5. pc'[p] = "ready" BY <1>1, <2>1 DEF LifecycleTypeOK
  <2>6. owner' # p /\ \A q \in Process \ {p} : owner' # q /\ owner # q
    BY <1>2, <1>3, LifecycleAssumption
  <2>7. Apart(p) BY <1>1, <1>2, <1>3, <2>1, <2>3, <2>6 DEF Apart, LifecycleTypeOK
  <2>8. TableInv(p)'
    BY <1>1, <1>3, <2>5
       DEF ProcInv, TableInv, Just, HasLock, HasSpi, HasUart, Leads, Working, Up, SpiSetting,
           Holds, UartOpened
  <2>9. OwnerInv(p)' /\ DeviceInv(p)'
    BY <1>1, <1>2, <2>3, <2>5, <2>6
       DEF ProcInv, OwnerInv, DeviceInv, Leads, Working, Owns, Up, SpiSetting
  <2> QED BY <2>4, <2>7, <2>8, <2>9, OthersKept DEF ProcInv
<1>4. CASE UartOpenFails(p) /\ UNCHANGED line
  BY <1>1, <1>2, <1>4, UartOpenFailsStep DEF device
<1> QED BY <1>3, <1>4 DEF SetParity

LEMMA OpenLogStep ==
  ASSUME BusInv, NEW p \in Process, OpenLog(p)
  PROVE  BusInv'
<1> DEFINE n == Lowest(table[p])
<1>1. LifecycleTypeOK /\ ProcInv(p) /\ pc[p] = "ready" BY DEF BusInv, OpenLog
<1>2. /\ \A k \in Fd : table[p][k] # "log"
      /\ table' = [table EXCEPT ![p][n] = "log"]
      /\ UNCHANGED <<pc, h, ret, owner, spi, line, uses>>
  BY DEF OpenLog, Holds, device, counts
<1>3. n \in Fd /\ table[p][n] = "free"
  <2>1. \A k \in Fd : table[p][k] = "free" \/ k \in {h[p].lock, h[p].spi, h[p].uart}
    BY <1>1, <1>2 DEF ProcInv, TableInv, Just, LifecycleTypeOK, File
  <2> QED BY <2>1, LowestFree
<1> HIDE DEF n
<1>4. LifecycleTypeOK' BY <1>1, <1>2, <1>3 DEF LifecycleTypeOK, File
<1>5. \A k \in Fd : table'[p][k] = IF k = n THEN "log" ELSE table[p][k]
  BY <1>1, <1>2 DEF LifecycleTypeOK
<1>6. Apart(p) BY <1>1, <1>2 DEF Apart, LifecycleTypeOK
<1>7. ProcInv(p)'
  BY <1>1, <1>2, <1>3, <1>5
     DEF ProcInv, TableInv, OwnerInv, DeviceInv, Just, HasLock, HasSpi, HasUart, Leads,
         Working, Owns, Up, UartOpened
<1> QED BY <1>4, <1>6, <1>7, OthersKept

(* A process that is set up has its lock under the number of the handle;   *)
(* one whose uart_Open failed has not.                                     *)
LEMMA LockNamed ==
  ASSUME LifecycleTypeOK, NEW p \in Process, TableInv(p), pc[p] \in Up
  PROVE  Names(p, h[p].lock, "lock") <=> UartOpened(p)
BY DEF LifecycleTypeOK, TableInv, Just, HasLock, Leads, Working, Up, SpiSetting, Names

LEMMA BeginStep ==
  ASSUME BusInv, NEW p \in Process, Begin(p)
  PROVE  BusInv'
<1>1. LifecycleTypeOK /\ ProcInv(p) /\ pc[p] = "ready" BY DEF BusInv, Begin, Goto
<1>2. UNCHANGED <<table, h, ret, spi, line>> BY DEF Begin, device
<1>3. uses' \in [Process -> 0 .. MaxUses]
  BY <1>1, LifecycleAssumption DEF Begin, LifecycleTypeOK
<1>4. CASE Names(p, h[p].lock, "lock") /\ Acquire(p) /\ pc' = [pc EXCEPT ![p] = "access"]
  <2>1. UartOpened(p) BY <1>1, <1>4, LockNamed DEF ProcInv, Up
  <2>2. owner \in {Nobody, p} /\ owner' = p BY <1>4 DEF Acquire
  <2>3. LifecycleTypeOK' BY <1>1, <1>2, <1>3, <1>4, <2>2 DEF LifecycleTypeOK, Up
  <2>4. pc'[p] = "access" BY <1>1, <1>4 DEF LifecycleTypeOK
  <2>5. Apart(p) BY <1>1, <1>2, <1>4, <2>2, LifecycleAssumption DEF Apart, LifecycleTypeOK
  <2>6. ProcInv(p)'
    BY <1>1, <1>2, <2>1, <2>2, <2>4
       DEF ProcInv, TableInv, OwnerInv, DeviceInv, Just, HasLock, HasSpi, HasUart, Leads,
           Working, Owns, Up, SpiSetting, UartOpened, Holds
  <2> QED BY <2>3, <2>5, <2>6, OthersKept
<1>5. CASE UNCHANGED <<pc, owner>>
  <2>1. LifecycleTypeOK' BY <1>1, <1>2, <1>3, <1>5 DEF LifecycleTypeOK
  <2>2. Apart(p) BY <1>2, <1>5 DEF Apart
  <2>3. ProcInv(p)'
    BY <1>1, <1>2, <1>5
       DEF ProcInv, TableInv, OwnerInv, DeviceInv, Just, HasLock, HasSpi, HasUart, Leads,
           Working, Owns, UartOpened, Holds
  <2> QED BY <2>1, <2>2, <2>3, OthersKept
<1> QED BY <1>4, <1>5 DEF Begin, Goto

LEMMA EndStep ==
  ASSUME BusInv, NEW p \in Process, End(p)
  PROVE  BusInv'
<1>1. LifecycleTypeOK /\ ProcInv(p) /\ pc[p] = "access" BY DEF BusInv, End, Goto
<1>2. /\ UNCHANGED <<table, h, ret, spi, line, uses>>
      /\ owner' = Nobody /\ pc' = [pc EXCEPT ![p] = "ready"]
  BY DEF End, Goto, device, counts
<1>3. owner = p /\ UartOpened(p) BY <1>1 DEF ProcInv, OwnerInv, Owns
<1>4. owner' # p /\ \A q \in Process \ {p} : owner' # q /\ owner # q
  BY <1>2, <1>3, LifecycleAssumption
<1>5. LifecycleTypeOK' BY <1>1, <1>2 DEF LifecycleTypeOK, Up
<1>6. pc'[p] = "ready" BY <1>1, <1>2 DEF LifecycleTypeOK
<1>7. Apart(p) BY <1>1, <1>2, <1>4 DEF Apart, LifecycleTypeOK
<1>8. ProcInv(p)'
  BY <1>1, <1>2, <1>3, <1>4, <1>6
     DEF ProcInv, TableInv, OwnerInv, DeviceInv, Just, HasLock, HasSpi, HasUart, Leads,
         Working, Owns, Up, SpiSetting, UartOpened, Holds
<1> QED BY <1>5, <1>7, <1>8, OthersKept

LEMMA ExitLockStep ==
  ASSUME BusInv, NEW p \in Process, ExitLock(p)
  PROVE  BusInv'
<1>1. LifecycleTypeOK /\ ProcInv(p) /\ pc[p] = "ready" BY DEF BusInv, ExitLock, Goto
<1>2. UNCHANGED <<table, h, ret, spi, line, uses>> /\ pc' = [pc EXCEPT ![p] = "exit"]
  BY DEF ExitLock, Goto, device, counts
<1>3. \/ UartOpened(p) /\ owner \in {Nobody, p} /\ owner' = p
      \/ ~UartOpened(p) /\ owner' = owner
  BY <1>1, LockNamed DEF ExitLock, Acquire, ProcInv, Up
<1>4. LifecycleTypeOK' BY <1>1, <1>2, <1>3 DEF LifecycleTypeOK, Up
<1>5. pc'[p] = "exit" BY <1>1, <1>2 DEF LifecycleTypeOK
<1>6. Apart(p) BY <1>1, <1>2, <1>3, LifecycleAssumption DEF Apart, LifecycleTypeOK
<1>7. TableInv(p)' /\ DeviceInv(p)'
  BY <1>1, <1>2, <1>5
     DEF ProcInv, TableInv, DeviceInv, Just, HasLock, HasSpi, HasUart, Leads,
         Working, Up, SpiSetting, UartOpened, Holds
<1>8. OwnerInv(p)'
  BY <1>1, <1>2, <1>3, <1>5 DEF ProcInv, OwnerInv, Owns, Leads, SpiSetting, UartOpened
<1> QED BY <1>4, <1>6, <1>7, <1>8, OthersKept DEF ProcInv

(* Exit closes the bus and nothing else, if the UART had been opened.      *)
LEMMA ExitCloseStep ==
  ASSUME BusInv, NEW p \in Process, ExitClose(p)
  PROVE  BusInv'
<1>1. LifecycleTypeOK /\ ProcInv(p) /\ pc[p] = "exit" BY DEF BusInv, ExitClose, Goto
<1>2. UNCHANGED <<h, ret, spi, line, uses>> /\ pc' = [pc EXCEPT ![p] = "done"]
  BY DEF ExitClose, Goto, device, counts
<1>3. /\ \A k \in Fd : table'[p][k] = IF k \in HandleFds(p) THEN "free" ELSE table[p][k]
      /\ \A q \in Process \ {p} : table'[q] = table[q]
      /\ table' \in [Process -> [Fd -> File \cup {"free"}]]
      /\ owner' \in Process \cup {Nobody}
      /\ \A q \in Process \ {p} : owner' = q <=> owner = q
      /\ (\A k \in Fd : table'[p][k] # "lock") => owner' # p
  BY <1>1, CloseFrees DEF ExitClose
<1>4. \A k \in Fd : table'[p][k] \notin {"lock", "spi", "uart"}
  BY <1>1, <1>3 DEF ProcInv, TableInv, Just, HandleFds
<1>5. owner' # p BY <1>3, <1>4
<1>6. LifecycleTypeOK' BY <1>1, <1>2, <1>3 DEF LifecycleTypeOK, Over
<1>7. pc'[p] = "done" BY <1>1, <1>2 DEF LifecycleTypeOK
<1>8. Apart(p) BY <1>1, <1>2, <1>3 DEF Apart, LifecycleTypeOK
<1>9. ProcInv(p)'
  BY <1>4, <1>5, <1>7
     DEF ProcInv, TableInv, OwnerInv, DeviceInv, Just, HasLock, HasSpi, HasUart, Leads,
         Working, Owns, Up, SpiSetting
<1> QED BY <1>6, <1>8, <1>9, OthersKept

LEMMA KillStep ==
  ASSUME BusInv, NEW p \in Process, Kill(p)
  PROVE  BusInv'
<1>1. LifecycleTypeOK /\ ProcInv(p) BY DEF BusInv
<1>2. UNCHANGED <<h, ret, spi, line, uses>> /\ pc' = [pc EXCEPT ![p] = "killed"]
  BY DEF Kill, device
<1>3. /\ \A k \in Fd : table'[p][k] = "free"
      /\ \A q \in Process \ {p} : table'[q] = table[q]
      /\ table' \in [Process -> [Fd -> File \cup {"free"}]]
      /\ owner' \in Process \cup {Nobody}
      /\ \A q \in Process \ {p} : owner' = q <=> owner = q
      /\ owner' # p
  BY <1>1, CloseFrees DEF Kill
<1>4. LifecycleTypeOK' BY <1>1, <1>2, <1>3 DEF LifecycleTypeOK, Over
<1>5. pc'[p] = "killed" BY <1>1, <1>2 DEF LifecycleTypeOK
<1>6. Apart(p) BY <1>1, <1>2, <1>3 DEF Apart, LifecycleTypeOK
<1>7. ProcInv(p)'
  BY <1>3, <1>5
     DEF ProcInv, TableInv, OwnerInv, DeviceInv, Just, HasLock, HasSpi, HasUart, Leads,
         Working, Owns, Up, SpiSetting, Holds
<1> QED BY <1>4, <1>6, <1>7, OthersKept

LEMMA BusStep == BusInv /\ [Next]_vars => BusInv'
<1> SUFFICES ASSUME BusInv, [Next]_vars PROVE BusInv'
  OBVIOUS
<1>1. ASSUME NEW p \in Process, Step(p) PROVE BusInv'
  BY <1>1, OpenLockStep, TakeLockStep, OpenSpiStep, ConfigureStep, OpenUartStep,
     SetSpeedStep, SetParityStep, OpenLogStep, BeginStep, EndStep, ExitLockStep,
     ExitCloseStep DEF Step
<1>2. ASSUME NEW p \in Process, Kill(p) PROVE BusInv'
  BY <1>2, KillStep
<1>3. CASE UNCHANGED vars
  <2>1. LifecycleTypeOK' BY <1>3 DEF vars, BusInv, LifecycleTypeOK
  <2>2. ASSUME NEW p \in Process PROVE ProcInv(p)'
    <3>1. ProcInv(p) BY DEF BusInv
    <3> QED
      BY <1>3, <3>1
         DEF vars, ProcInv, TableInv, OwnerInv, DeviceInv, Just, HasLock, HasSpi, HasUart,
             Leads, Working, Owns, UartOpened, Holds
  <2> QED BY <2>1, <2>2 DEF BusInv
<1> QED BY <1>1, <1>2, <1>3 DEF Next

-----------------------------------------------------------------------------
(* The invariant holds of every behaviour.                                 *)
THEOREM BusInvariant == Spec => []BusInv
BY BusInit, BusStep, PTL DEF Spec

(* Every variable stays in its domain; in particular open always has a     *)
(* number to give.                                                         *)
THEOREM LifecycleTypeCorrect == Spec => []LifecycleTypeOK
<1>1. BusInv => LifecycleTypeOK BY DEF BusInv
<1> QED BY <1>1, BusInvariant, PTL

(* When SpiReg_Init has returned 0, for any number of processes that       *)
(* start, fail or are killed meanwhile: if uart_Open succeeded the handle  *)
(* names the three open files and both devices are set up; if it failed,   *)
(* which spi_reg.c:275-288 does not report, all three are closed.          *)
THEOREM ReadyMeansUsableOrClosed == Spec => []ReadyIsUsableOrClosed
<1>1. ASSUME BusInv, NEW p \in Process, pc[p] \in Up, UartOpened(p)
      PROVE  /\ \A f \in {"lock", "spi", "uart"} : Names(p, h[p][f], f)
             /\ spi = SpiSetting /\ line = {}
  <2>1. LifecycleTypeOK /\ ProcInv(p) /\ Working(p) BY <1>1 DEF BusInv, Working
  <2>2. h[p].lock \in Fd /\ h[p].spi \in Fd /\ h[p].uart \in Fd
    BY <1>1, <2>1 DEF LifecycleTypeOK, UartOpened
  <2>3. /\ Names(p, h[p].lock, "lock") /\ Names(p, h[p].spi, "spi")
        /\ Names(p, h[p].uart, "uart")
    BY <2>1, <2>2 DEF ProcInv, TableInv, Just, HasLock, HasSpi, HasUart, Names
  <2>4. spi = SpiSetting /\ line = {} BY <1>1, <2>1 DEF ProcInv, DeviceInv
  <2>5. ASSUME NEW f \in {"lock", "spi", "uart"} PROVE Names(p, h[p][f], f)
    BY <2>3
  <2> QED BY <2>4, <2>5
<1>2. ASSUME BusInv, NEW p \in Process, pc[p] \in Up, ~UartOpened(p)
      PROVE  \A f \in {"lock", "spi", "uart"} : ~Holds(table[p], f)
  <2>1. ProcInv(p) BY <1>2 DEF BusInv
  <2>2. ~HasLock(p) /\ ~HasSpi(p) /\ ~HasUart(p)
    BY <1>2 DEF HasLock, HasSpi, HasUart, Leads, Working, Up, SpiSetting
  <2> QED BY <2>1, <2>2 DEF ProcInv, TableInv, Just, Holds
<1>3. BusInv => ReadyIsUsableOrClosed BY <1>1, <1>2 DEF ReadyIsUsableOrClosed
<1> QED BY <1>3, BusInvariant, PTL

(* A process whose Init failed, whose Exit is done or that was killed      *)
(* leaves none of the three files open and does not hold the lock.         *)
THEOREM NothingIsLeft == Spec => []NothingLeft
<1>1. ASSUME BusInv, NEW p \in Process, pc[p] \in Over
      PROVE  owner # p /\ \A f \in {"lock", "spi", "uart"} : ~Holds(table[p], f)
  <2>1. ProcInv(p) BY <1>1 DEF BusInv
  <2>2. ~HasLock(p) /\ ~HasSpi(p) /\ ~HasUart(p) /\ ~Owns(p)
    BY <1>1 DEF HasLock, HasSpi, HasUart, Owns, Leads, Working, Up, Over, SpiSetting
  <2> QED BY <2>1, <2>2 DEF ProcInv, TableInv, OwnerInv, Just, Holds
<1>2. BusInv => NothingLeft BY <1>1 DEF NothingLeft
<1> QED BY <1>2, BusInvariant, PTL

(* Only the holder of the lock configures the devices, and no other        *)
(* process is within an access while it does.                              *)
THEOREM SetUpIsAlone == Spec => []SetUpAlone
<1>1. ASSUME BusInv, NEW p \in Process, NEW q \in Process, Leads(p)
      PROVE  owner = p /\ (q # p => pc[q] # "access")
  <2>1. OwnerInv(p) /\ OwnerInv(q) BY <1>1 DEF BusInv, ProcInv
  <2> QED BY <1>1, <2>1 DEF OwnerInv, Owns
<1>2. BusInv => SetUpAlone BY <1>1 DEF SetUpAlone, Leads
<1> QED BY <1>2, BusInvariant, PTL

-----------------------------------------------------------------------------
(* The safety part of EveryoneEnds.                                        *)

(* The places of a process at which it asks for the lock.                  *)
Asking(p) == pc[p] \in {"flock", "ready"}

LockGoesRound == owner # Nobody => owner \in Process /\ pc[owner] \notin Over /\ ~Asking(owner)

(* The lock belongs to a process that lives and is before the statement    *)
(* that gives it back, and does not wait for it itself: after every failed *)
(* call and whoever is killed (spi_reg.c:230-301).                         *)
THEOREM LockIsGivenBack == Spec => []LockGoesRound
<1>1. ASSUME BusInv, owner # Nobody
      PROVE  owner \in Process /\ pc[owner] \notin Over /\ ~Asking(owner)
  <2>1. owner \in Process BY <1>1 DEF BusInv, LifecycleTypeOK
  <2>2. Owns(owner) BY <1>1, <2>1 DEF BusInv, ProcInv, OwnerInv
  <2> QED BY <2>1, <2>2 DEF Owns, Leads, Asking, Over, SpiSetting
<1>2. BusInv => LockGoesRound BY <1>1 DEF LockGoesRound
<1> QED BY <1>2, BusInvariant, PTL

(* How far a process has come between two accesses.                        *)
Place ==
  [lock |-> 13, flock |-> 12, spi |-> 11, mode |-> 10, lsb |-> 9, bits |-> 8, hz |-> 7,
   uart |-> 6, set_speed |-> 5, set_parity |-> 4, access |-> 3, ready |-> 2, exit |-> 1,
   failed |-> 0, done |-> 0, killed |-> 0]

Moves(p) == pc'[p] # pc[p] \/ uses'[p] # uses[p] \/ table'[p] # table[p]

(* It has made one more of its accesses, or is nearer to its end, or has   *)
(* opened the log.                                                         *)
Nearer(p) ==
  \/ uses'[p] > uses[p] /\ uses'[p] <= MaxUses
  \/ uses'[p] = uses[p] /\ Place[pc'[p]] < Place[pc[p]]
  \/ /\ uses'[p] = uses[p] /\ pc'[p] = pc[p]
     /\ ~Holds(table[p], "log") /\ Holds(table'[p], "log")

LEMMA OthersStay ==
  ASSUME LifecycleTypeOK, NEW p \in Process, NEW q \in Process, p # q, Step(q) \/ Kill(q)
  PROVE  ~Moves(p)
<1>1. table'[p] = table[p]
  <2>1. ASSUME NEW fds, Close(q, fds) PROVE table'[p] = table[p] BY <2>1, CloseFrees
  <2>2. ASSUME table' = table PROVE table'[p] = table[p] BY <2>2
  <2>3. ASSUME NEW n, NEW f, table' = [table EXCEPT ![q][n] = f] PROVE table'[p] = table[p]
    BY <2>3 DEF LifecycleTypeOK
  <2> QED
    BY <2>1, <2>2, <2>3
       DEF Step, OpenLock, TakeLock, OpenSpi, Configure, OpenUart, SetSpeed, SetParity,
           OpenLog, Begin, End, ExitLock, ExitClose, Kill, Abandon, UartOpenFails, Keep
<1>2. uses'[p] = uses[p]
  BY DEF Step, OpenLock, TakeLock, OpenSpi, Configure, OpenUart, SetSpeed, SetParity,
         OpenLog, Begin, End, ExitLock, ExitClose, Kill, counts, LifecycleTypeOK
<1>3. pc'[p] = pc[p]
  BY DEF Step, OpenLock, TakeLock, OpenSpi, Configure, OpenUart, SetSpeed, SetParity,
         OpenLog, Begin, End, ExitLock, ExitClose, Kill, Goto, Return, Abandon, UartOpenFails,
         LifecycleTypeOK
<1> QED BY <1>1, <1>2, <1>3 DEF Moves

(* Where a process goes on from a call of SpiReg_Init or SpiReg_Exit.      *)
LEMMA GoesOn ==
  ASSUME LifecycleTypeOK, NEW p \in Process, Step(p), ~Begin(p), ~OpenLog(p)
  PROVE  uses'[p] = uses[p] /\ Place[pc'[p]] < Place[pc[p]]
<1>1. uses'[p] = uses[p]
  BY DEF Step, OpenLock, TakeLock, OpenSpi, Configure, OpenUart, SetSpeed, SetParity,
         End, ExitLock, ExitClose, counts
<1>2. ASSUME NEW a, NEW b, Goto(p, a, b) PROVE pc[p] = a /\ pc'[p] = b
  BY <1>2 DEF Goto, LifecycleTypeOK
<1>3. ASSUME NEW result, Return(p, result) PROVE pc'[p] \in {"failed", "ready"}
  BY <1>3 DEF Return, LifecycleTypeOK
<1>4. ASSUME NEW result, Return(p, result), result = -1 PROVE pc'[p] = "failed"
  BY <1>4 DEF Return, LifecycleTypeOK
<1>5. \/ pc[p] = "lock" /\ pc'[p] \in {"flock", "failed"}
      \/ pc[p] = "flock" /\ pc'[p] \in {"spi", "failed"}
      \/ pc[p] = "spi" /\ pc'[p] \in {"mode", "failed"}
      \/ pc[p] = "mode" /\ pc'[p] \in {"lsb", "failed"}
      \/ pc[p] = "lsb" /\ pc'[p] \in {"bits", "failed"}
      \/ pc[p] = "bits" /\ pc'[p] \in {"hz", "failed"}
      \/ pc[p] = "hz" /\ pc'[p] \in {"uart", "failed"}
      \/ pc[p] = "uart" /\ pc'[p] \in {"set_speed", "failed", "ready"}
      \/ pc[p] = "set_speed" /\ pc'[p] \in {"set_parity", "failed", "ready"}
      \/ pc[p] = "set_parity" /\ pc'[p] \in {"failed", "ready"}
      \/ pc[p] = "access" /\ pc'[p] = "ready"
      \/ pc[p] = "ready" /\ pc'[p] = "exit"
      \/ pc[p] = "exit" /\ pc'[p] = "done"
  <2>1. CASE OpenLock(p) \/ TakeLock(p) \/ OpenSpi(p)
    BY <1>2, <1>4, <2>1 DEF OpenLock, TakeLock, OpenSpi, Abandon
  <2>2. CASE Configure(p)
    <3>1. pc[p] \in SpiSetting /\ pc'[p] \in {AfterSetting[pc[p]], "failed"}
      BY <1>4, <2>2 DEF Configure, Abandon, LifecycleTypeOK
    <3> QED BY <3>1 DEF SpiSetting, AfterSetting
  <2>3. CASE OpenUart(p) \/ SetSpeed(p) \/ SetParity(p)
    BY <1>2, <1>3, <2>3 DEF OpenUart, SetSpeed, SetParity, UartOpenFails, Abandon
  <2>4. CASE End(p) \/ ExitLock(p) \/ ExitClose(p)
    BY <1>2, <2>4 DEF End, ExitLock, ExitClose
  <2> QED BY <2>1, <2>2, <2>3, <2>4 DEF Step
<1>6. Place[pc'[p]] < Place[pc[p]] BY <1>5 DEF Place
<1> QED BY <1>1, <1>6

LEMMA LogIsOpened ==
  ASSUME BusInv, NEW p \in Process, OpenLog(p) PROVE Nearer(p)
<1> DEFINE n == Lowest(table[p])
<1>1. LifecycleTypeOK /\ ProcInv(p) /\ pc[p] = "ready" BY DEF BusInv, OpenLog
<1>2. \A k \in Fd : table[p][k] = "free" \/ k \in {h[p].lock, h[p].spi, h[p].uart}
  BY <1>1 DEF OpenLog, ProcInv, TableInv, Just, Holds, LifecycleTypeOK, File
<1>3. n \in Fd BY <1>2, LowestFree
<1>4. table'[p][n] = "log"
  <2>1. table' = [table EXCEPT ![p][n] = "log"] BY DEF OpenLog
  <2> HIDE DEF n
  <2> QED BY <1>1, <1>3, <2>1 DEF LifecycleTypeOK
<1>5. Holds(table'[p], "log") BY <1>3, <1>4 DEF Holds
<1> QED BY <1>5 DEF OpenLog, counts, Nearer

(* Every step of a process brings it nearer to its end, in the accesses it *)
(* makes and the calls of Init and Exit, of which none is repeated, in     *)
(* spite of all failures and kills (spi_reg.c:230-301, main.c:216-233).    *)
THEOREM ProcessesGoForward == Spec => [][\A p \in Process : Moves(p) => Nearer(p)]_vars
<1>1. ASSUME BusInv, NEW p \in Process, NEW q \in Process, Step(q), Moves(p) PROVE Nearer(p)
  <2>1. LifecycleTypeOK /\ p = q
    BY <1>1, OthersStay DEF BusInv
  <2>2. CASE Begin(p)
    <3>1. uses[p] < MaxUses /\ uses'[p] = uses[p] + 1 BY <2>1, <2>2 DEF Begin, LifecycleTypeOK
    <3>2. uses[p] \in Nat /\ MaxUses \in Nat BY <2>1, LifecycleAssumption DEF LifecycleTypeOK
    <3> QED BY <3>1, <3>2 DEF Nearer
  <2>3. CASE OpenLog(p) BY <1>1, <2>3, LogIsOpened
  <2>4. CASE ~Begin(p) /\ ~OpenLog(p) BY <1>1, <2>1, <2>4, GoesOn DEF Nearer
  <2> QED BY <2>2, <2>3, <2>4
<1>2. ASSUME BusInv, NEW p \in Process, NEW q \in Process, Kill(q), Moves(p) PROVE Nearer(p)
  <2>1. LifecycleTypeOK /\ p = q
    BY <1>2, OthersStay DEF BusInv
  <2>2. /\ pc'[p] = "killed" /\ uses'[p] = uses[p]
        /\ pc[p] \in CallSites \cup Up
    BY <1>2, <2>1 DEF Kill, LifecycleTypeOK, Over
  <2>3. Place[pc'[p]] < Place[pc[p]]
    BY <2>2 DEF Place, CallSites, SpiSetting, Up
  <2> QED BY <2>2, <2>3 DEF Nearer
<1> DEFINE A == \A p \in Process : Moves(p) => Nearer(p)
<1>3. BusInv /\ [Next]_vars => [A]_vars
  BY <1>1, <1>2 DEF Next
<1> HIDE DEF A
<1>4. Spec => [][A]_vars BY <1>3, BusInvariant, PTL DEF Spec
<1> QED BY <1>4 DEF A
=============================================================================
