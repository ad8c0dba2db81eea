# TLA+ verification of linux_uart (rear-view mirror host program)

The program runs on the Linux host (MPU) of a rear-view mirror and talks to the
mirror's microcontroller (MCU). Everything it does, diagnostics, CAN messages,
watchdog, firmware download, is built from one primitive: reading and writing
the MCU's registers over SPI, with a byte handshake on a UART. This directory
holds TLA+ modules of that program, TLC configurations that check them and
TLAPS proofs about them. Paths are relative to the repository (`src/src/...`).

## 1. Inventory

| component | source | state | operations | what makes it correct |
|---|---|---|---|---|
| register access | `spi_reg.c` | handle: three descriptors, `tx_buf`, `rx_buf`, mutex; the lock file | `SpiReg_Read`, `SpiReg_Write`, `SpiReg_Init`, `SpiReg_Exit` | one exchange at a time; a read returns a current value of its register; a write changes what it names, once; every call returns and releases both locks |
| UART link | `general/pp_uart.c` | tty input queue, termios | open, write, read with timeout, flush | a read ends by data, timeout or error |
| CRC | `general/crc_check.c` | none | `crc16` | equals the bitwise CRC, seeds chain |
| register ring buffers | `regwr_cb.c` | none here (the ring is in the MCU) | size, free size, read, write, clean, read-air, peep, whole-item read and write | what calls return adds up to what moved; items are not torn, lost or duplicated |
| MCU services | `rearview_mcu.c` | the handles, `last_cnt` of the watchdog | registers, CAN messages, burn, force burn, watchdog, NVM, DTC, reset, type | burn reports success only for firmware the MCU verified; watchdog counter always moves; no command over a busy one |
| program modes | `run.c` | `RunConfig` | one function per mode | read-modify-write of shared registers loses no update |
| bus set-up and release | `spi_reg.c`, `general/pp_uart.c` | descriptors, settings of the two devices | `SpiReg_Init`, `SpiReg_Exit`, `uart_Open` | success means usable, failure leaves nothing open or locked, no set-up during another's access |
| CAN event table | `run.c`, `include/mcu-reg/can-event.h` | none here (the table is in the MCU) | show all events | what is shown was in the table at one moment, nothing steady is missed |
| command line | `main.c`, `general/argparse.c` | `RunConfig`, the parser's position and pending value | parse, check, choose the mode | the mode that runs was asked for, has its arguments, and options get their own values |
| log and debug output | `general/debug.c` | log files, `logRecord`, print mutex | print, rotate | at most the configured number of files, old ones go, `log_fp` is open or NULL |
| MD5, list, byte-order macros, binary library | `general/md5.c`, `general/inc/ulist.h`, `general/inc/memctrl.h`, `out-lib/` | | vendored | not this program's logic |
| MCU firmware | not in the repository | registers, ring buffers, bootloader | | external, modelled from what the host relies on |

**Interaction.** `main` parses the options, calls `RVMcu_Init` (which opens the
bus) and then `run`, which calls functions of `rearview_mcu.c`; these use
`RegWrCb_*` for ring buffers and `RVMcu_ReadReg`/`RVMcu_WriteReg` for plain
registers; both end in `SpiReg_Read`/`SpiReg_Write`. Several instances of the
program may run at once (a watchdog process, a CAN logger, a burn); they share
the bus through a lock file and share nothing else. Threads of a process share
the handle.

**Hard behaviour.** Two levels of locks; an acknowledgement byte that names no
exchange; a command frame without checksum; timeouts with an answer still to
come; processes killed in the middle of an exchange; two-step operations
(query, then transfer; read, then write) that are atomic only step by step;
retries that repeat what may already have happened; return codes that do not
distinguish "did nothing" from "did it".

## 2. Plan

| module | of | builds on | state |
|---|---|---|---|
| `SpiReg`, `RegAccess`, `SpiRegProofs` | register access and its abstract specification | | checked and proved, the refinement too |
| `BurnMcu`, `BurnMcuProofs` | firmware download | accesses as in `RegAccess` | checked, proved |
| `RegWrCb`, `RegWrCbProofs` | ring-buffer operations of several clients | accesses as in `RegAccess` | checked, proved |
| `CanFlow`, `CanFlowProofs` | CAN messages: echo test, monitor, sender | whole items as in `RegWrCb` | checked, proved |
| `MpuBusiness`, `MpuBusinessProofs` | watchdog, fault map, NVM, settings, reset, boot mode | accesses as in `RegAccess` | checked, proved |
| `SpiLifecycle`, `SpiLifecycleProofs` | set-up and release of the bus | | checked, proved |
| `CanEvent`, `CanEventProofs` | showing the CAN event table | accesses as in `RegAccess` | checked, proved |
| `CliConfig`, `ProgramProofs` | command line to mode | | checked, proved |
| `DebugLog`, `ProgramProofs` | rotation of the log files | | checked, proved |

Every module above `SpiReg` takes one register access as one step that succeeds,
fails without effect, or fails after its effect: that is what `RegAccess`
promises and what `AtomicAccess` shows `SpiReg` to implement.

**Proved and checked.** Every safety property and every action property of the passing
runs is also a theorem; each proof section below names the invariant it rests on.
These invariants were checked on the configurations of the runs before they were
proved. TLC alone shows liveness (`EveryCallReturns`, `BurnEnds`, `EchoSends`,
`CounterKeepsMoving`, `EveryoneEnds`), which needs ENABLED and fairness, beyond the
provers. Of three of them the safety part is proved: each step of a call, a burn
or a process lowers a bounded measure (`CallsGoForward`, `EveryStepIsAhead`,
`ProcessesGoForward`), and whoever owns a lock can go on and gives it back
(`LocksAreReleased`, `LocksMakeNoCircle`, `LockIsGivenBack`). What is left to
TLC there is that the awaited step comes: an answer or its timeout, the MCU at
work, the turn of one who waits for a lock. `EchoSends` and
`CounterKeepsMoving` are about loops without an end and have no such measure.

A fold over a sequence is out of reach too (its proofs are by induction), so
the properties are stated by elements, order and length (`EchoExact`), and a
number is the sum of its bytes written out (`Number` of `CanEvent`).

## 3. SpiReg: the register access

`SpiReg.tla` models `SpiReg_Read` and `SpiReg_Write` for threads of several
processes, one action per step that another actor can see.

| model | code |
|---|---|
| `pc[t]`, `ret[t]`, `got[t]` | where the call is, its `ret`, what it copied to `reg_data` |
| `mutex[p]`, `flock` | `h->mutex`; the advisory lock, owned by a process |
| `rxbuf[p]` | `h->rx_buf`, one per handle, so shared by a process's threads |
| `uplink`, `wire`, `rxq` | `'S'` bytes under way, answers under way, the tty input queue |
| `mcuMode`, `mcuCmd`, `mcuData`, `regs` | the MCU's side of the exchange |
| `LockMutex`, `LockFlock`, `FlockFails` | `spi_reg.c:123-131` |
| `SendStart`, `StartAcked`, `StartWriteFails` | `_GotoStartCmd` |
| `TransferCommand`, `TransferData`, `TransferFails` | `_TransferSpi` and what it clocks in and out |
| `CommandAcked`, `DataAcked`, `Refused`, `TimedOut`, `PollFails` | `_WaitAck` with `uart_Read`, and the CRC check of a read |
| `UnlockFlock`, `UnlockMutex` | `out:` |
| `Crash`, `Restart` | a killed process (the kernel drops its flock) and `SpiReg_Init` of the next one |

Data is abstracted to an address and a value. The checksum is ideal: it tells
any two pairs (command, data) apart; that it is *seeded with the command* is in
the model, and is what the two data properties depend on. Taking an answer byte
and the flush after it are one step, because a byte that arrives in between is
indistinguishable from one that arrived before.

The MCU is external. It follows the protocol the host relies on: `'S'` starts
an exchange whatever it was doing, a command frame is acknowledged once it is
understood, a read latches its register before the acknowledgement, data of a
write is stored if its checksum, seeded with the command *as received*,
matches. It only receives a frame in the mode that expects one, and since the
host clocks the bus, frames can meet it out of step; the model has those cases.

**Faults** (`Faults`, at most `MaxFaults` in a behaviour): `lost` handshake
bytes, `noise` that makes a frame invalid or changes the address of a command,
`opcode` noise that turns a read into a write or back, `nack` and `giveup` by
the MCU, failing system calls (`syscall`), a failing wait (`poll`), `late`
answers, `crash`. Noise on the operation byte is separate because the host
cannot notice it: the answers to a read and to a write look alike.

**Properties.**

- `BusExclusive`: at most one thread of all processes is between taking and
  releasing the flock. Neither lock gives this alone.
- `ReadFresh`: a read that returns 0 returns a value its register held during
  the call, under all faults.
- `NoMisdirectedWrite`: registers change only to the address and value of one
  issued write, under all faults.
- `AtomicAccess`: `SpiReg` implements `RegAccess`, in which a call is an atomic
  read or write at some moment between call and return, an error means "done or
  not done, but not later", and 0 means done. The mapping takes a call as
  pending until the mutex is released. It is checked under `LineFaults`, the
  faults after which no answer is left over.
- `EveryCallReturns`: a call returns or its process is killed.

**Fairness.** A thread inside a call keeps running, the line delivers what it
does not lose, the MCU handles what it received: weak fairness of `HostStep(t)`,
`Deliver` and `McuStep`. Nothing is assumed of calls, faults and restarts. Weak
fairness of the locks is enough because calls are bounded; with callers that
never stop, `pthread_mutex_lock` and `flock` promise no order and starvation
is possible.

**Bounds.** Three threads, two of one process and one of another, are the
smallest set in which both locks matter; two processes are enough for leftovers
of a call, or of a killed process, to meet the next call. One call each gives two
or three consecutive exchanges. Two faults let one prepare what the other
exploits (a late answer and noise, a killed process and a lost byte).

**Runs.** `SpiRegFaults.cfg`: two processes, two faults of any kind: `TypeOK`,
`ReadFresh`, `NoMisdirectedWrite`, `EveryCallReturns`. `SpiRegAtomic.cfg`: three
threads, two faults of `LineFaults`: `AtomicAccess`, `BusExclusive`. All end with
every call made; that is `Finished`, so deadlock is checked.

**Proofs** (`SpiRegProofs.tla`), for all threads, processes, addresses, values,
requests, faults and bounds, from the named assumptions in `SpiReg.tla`:

- `TypeCorrect`.
- `Exclusion`. `BusExclusive` is not inductive; `LockInv` is: past the mutex a
  thread owns its process's mutex, past the flock its process owns the flock.
  Two threads on the bus are then of one process, hence one thread.
- `ChangesIntended`. `IssuedInv`: a frame the MCU is about to store and whose
  checksum matches is the frame of an issued write, by injectivity of the
  checksum (`DataFrameMatches`).
- `ReadsAreFresh`. `FreshInv`: sending the command frame takes the MCU out of
  the mode "data", so if it is in that mode when the data frame is sent it
  latched the register during this call; and `rx_buf` is not overwritten by
  another thread, by `Exclusion`.

- `AccessIsAtomic`: the refinement, for `Faults` without `late`, `poll`, `crash`
  and `opcode` (`InStep`), which include those of the run. With any of the four
  it is false (see Observations): an answer is left over for the next call, or
  a read is carried out as a write. `StepInv` says that host and MCU never
  disagree about where in which exchange they are. `ExchangeInv`: while nobody
  waits, no byte is under way and the MCU has no frame to handle (`Quiet`); while
  a thread waits, there is one byte at most, and it is the answer to what this
  thread sent (`Starting`, `Commanding`, `Finishing`); the data frame that the MCU
  holds is that of the call that waits (`Held`). `CallInv`: a write that is about
  to return 0 has been applied, one before its data frame has not, and
  nothing of a later call has. From it each step maps: `CallInvokes`,
  `WriteTakesEffect` (the MCU stores a frame only while its call waits),
  `CallLeaves` (with what the call promised, by `ReadFresh`), and `Stutter`.

`EveryCallReturns` itself needs fairness and is model-checked. Its safety part is
proved, for all faults:

- `LocksAreReleased`: a mutex belongs to a thread inside its section, the file lock
  to a process of which a thread is on the bus (`LocksInUse`), so no error path
  keeps a lock. It needs that a process is killed with all its threads
  (`DiesWhole`): otherwise a dead thread could own a mutex of the living.
- `LocksMakeNoCircle`: while anybody waits for a lock, some thread waits for none
  or for one it can have.
- `CallsGoForward`: a call never returns to an earlier statement; its ten places
  are the measure.

## 4. BurnMcu: the firmware download

`BurnMcu.tla` models one burn, from `RVMcu_BurnMcu` or `RVMcu_ForceBurnMcu` to
its return, one action per register access or file operation. The MCU acts
between any two of them.

| model | code |
|---|---|
| `pc`, `ret`, `retry`, `sent`, `end`, `room` | the position in the procedure; its locals; `start` and `end` as positions in the file; the free size that `RegWrCb_Write` queried |
| `mode`, `parameter` | the register `BurnStaReg`; the host writes only its first byte, so `parameter` stays |
| `app`, `target`, `ring`, `flash`, `installed` | the MCU: application or bootloader, partition to burn, ring buffer, flash, image verified |
| `ReadInfo`, `ForcePoll`, `GotoBootloader`, `CheckMode`, `Reject`, `FirmwarePart` | `rearview_mcu.c:243-325`, `_GetBurnFirmwarePart` |
| `StartErase`, `EraseStatus`, `StartBurn`, `Clean`, `OpenFile` | `rearview_mcu.c:79-106` |
| `ReadParticle`, `QueryFree`, `WriteChunk`, `PollStatus`, `Retry` | the transfer loop, with `RegWrCb_Write` and `RegWrCb_FreeSize` |
| `FinishTransfer`, `ReadResult`, `Exit` | `rearview_mcu.c:138-163` |
| `Mcu...` | the bootloader, external, from the protocol in `mpu-burn-mcu.h` |

Bytes are their positions in the file, so that a skipped, repeated or foreign
byte (0, left in the ring buffer by an aborted burn) shows. A firmware file is
its size, whether it has the magic number, and its partition. The bootloader
verifies what it programmed against the file and the header against its
partition: it is assumed that a checksum finds every difference.

**Faults.** `Sites` names the register accesses that may fail, `Faults` how:
`lost` (without effect), `unacked` (a write that took effect), `busy` (the MCU
is not done when the host looks), `nofile` and `readerr` (the file), and errors
of the bootloader. A write whose result the code does not look at is the same
whether it is unacknowledged or succeeds. The host never waits for room in the
ring buffer: with none it goes on to the status and the next try, as
`rearview_mcu.c:116-133` does, at the cost of no fault.

**Properties.**

- `SuccessMeansInstalled`: a burn that returns 0 has installed firmware that
  the MCU verified, or has given up on a full ring buffer (`GaveUpOnFull`), which
  returns 0 too (see Observations). Duplicated chunks, foreign bytes, half files
  and images for the other partition must all be caught on the way.
- `EraseOnlyMatching`: a partition is erased only for an image meant for it, or
  for a file whose one or two bytes pass for its number (`ShortAs`).
- `NothingSkippedOrRepeated`: what the MCU received is what the host counts as
  written, however particles are cut, refused and retried, as long as that is
  `certain`: no chunk was written and reported as failed, and no bytes of an earlier
  burn got in before, or without, the clean.
- `BurnEnds`: a burn returns. A forced burn is excepted: it waits for someone
  to restart the MCU.

**Fairness.** The host runs on and the bootloader does what it was told: weak
fairness of `HostStep` and `McuStep`. A read that finds the MCU still at work
leaves the state as it is and is repeated in the code; it is no step of the
model. Faults, the restart by hand and the timeout of the bootloader are not
assumed to happen.

**Bounds.** Particles of 3 bytes, a ring buffer of 2: every particle is cut.
Files of 4 and 7 bytes end inside the second and the third particle; one has no
magic number, and files of 1 and 2 bytes are shorter than a header and as long as
the numbers of the partitions. `MaxRetry` is 1, so two failures are
survived and three end the burn; four failures reach beyond the end of the
retries.

**Runs.** `BurnMcuSafe.cfg`: all accesses but the unchecked last write may
fail in every way, with and without bytes of an earlier burn; `TypeOK`, the three
safety properties and `BurnEnds` (506,249 states). `BurnMcuFinishLost.cfg`: the last
write may be lost, and the run ends in a violation (see Findings).

**Proofs** (`BurnMcuProofs.tla`), for all files, sizes, retries and faults:

- `BurnTypeCorrect`, from `TypeInv`: positions stay in the file, and what the
  host believes to be free still is, because nobody else fills the ring buffer.
- `ErasesOnlyMatching`, for every set of files: while it waits the bootloader
  names its target, and the erase is ahead only once the number that
  `_GetBurnFirmwarePart` returned was compared with it (`EraseInv`).
- `SuccessIsInstalled`, if the write of FINISH_TRANSFER does not fail
  (`Dependable`): `ResultInv` says which modes are possible at each point of the
  burn, and that one which leaves the loop without the end of the file has
  an error or gave up on a full ring buffer. If that write may fail the property is
  false (see Findings).
- `StreamIsExact`, from `StreamInv`: as long as it is certain, flash and ring
  buffer together are the file up to `sent`, and empty before the transfer.

- `EveryStepIsAhead`: each step of the host is nearer to the end of the burn, in
  the order of stage, bytes left, tries left for this particle and place in the
  loop. `WorkInv`: while a particle is written bytes of it are left, and a
  chunk is written only when there is room; without either the loop could go round
  and write nothing.

With it `BurnEnds` depends only on the two waits for the MCU (of the forced burn
and for the result), which the measure does not count; that the MCU moves there
is fairness, and `BurnEnds` is model-checked.

## 5. RegWrCb: the ring buffers

`RegWrCb.tla` models every operation of `regwr_cb.c` for several clients: the
query of the size or free size, the arithmetic on it, and the transfer, between
which other clients and the MCU act. The buffer is the range `head + 1 .. tail`
of all bytes ever put in. The MCU is external.

| model | code |
|---|---|
| `Invoke`, `call`, `pc` | the call of one of the seven operations |
| `Query`, `Bytes`, `Available`, `Clamped` | the first access, and the smaller of what there is and what was asked for, in 16 bits |
| `Transfer`, `Length`, `Effect`, `Told` | the second access, its length in bytes (a product in 16 bits), what it returns |
| `McuPut`, `McuTake` | the MCU at the other end, by whole items |

A call that failed returns a negative number and nothing is counted for it, whatever
it moved; `failed` counts the transfers that took effect and were reported as failed.
Reading or peeping more than there is, and writing more than there is room for, is
refused (`regwr_cb.h:25-26`, `29`). Of read-air the header only says that its length is
what is discarded, so the model leaves both open: more than there is is refused, or
discards what there is and succeeds.

**Run** `RegWrCb.cfg`, with `Uses` choosing between two clients that move whole
items, one that does anything, and two readers that peek and discard.
`CountsAddUp`: no return value counts a byte that was not moved, and what moved and
was not counted is at most one buffer for each failed transfer; only read-air may
count what another reader took. `ItemsWhole`: no item is torn, although size and
transfer are two accesses and calls fail after their effect. `NothingSkipped`: an
only reader that peeks and then discards what it was shown loses nothing; with two
readers one discards what the other has read. **Bounds.** `Word` is 8 for 2^16, and
larger than the capacity, as in the program (with a buffer of 64 KiB or more the
product would be cut and items torn); requests beyond `Word` are among the calls, and
a request for a multiple of it is one for nothing. Items of two bytes, a capacity of
five, so half an item is over, and five calls: each client can meet the other between
its query and its transfer. 1,154,970 states.

**Proofs** (`RegWrCbProofs.tla`), for all clients, item sizes, ways of use and
faults, and every capacity less than 2^16 (`BufferFits`): `RingTypeCorrect`, `ReturnsAddUp`,
`ItemsStayWhole`, `NothingIsSkipped`. None of the properties is inductive. The
invariant `RingInv` adds what a client carries from one access to the next:
`AmountFits` (items times their size, kept since the query, is at most the
capacity, so the 16-bit product of the transfer is not cut, whatever others did
in between), `CallsWhole` (the calls made are those of the way of use) and
`ShownInv` (an only client that peeked with success has been given every byte up
to `head + ret`, and what it is about to discard lies within). The arithmetic
(`ItemsFit`, `CutFits`, `WholePlus`) is proved as lemmas of its own; `EffectMoves`
says what a transfer does and is used for its normal and its unacknowledged end;
what the failed ones moved is bounded by what the buffer can hold.

## 6. CanFlow: CAN messages

`CanFlow.tla` is the layer above: the echo test, the monitor and the sender of
`run.c:352-453` share the buffers of received messages and of messages to send.
Messages are the numbers of their arrivals.

| model | code |
|---|---|
| `QueryRx`, `TakeRx`, `Wanted` | `RVMcu_ReceiveCanMsgBlock`, at most `Block` messages |
| `QueryTx`, `PutTx`, `Rest`, `PutError` | the inner loop of the echo test, `can_msg_pos += ret` |
| `CleanRxFifo`, `PrintMessage`, `TimePassed` | the monitor and its times in the ASC format |
| `SendQuery`, `SendPut` | sending one message |

**Run** `CanFlow.cfg`. `EchoExact`: the echo test sends what it received, in order
and without gaps; the only repeated messages are those of writes that were done
and reported as failed. `EachReceivedOnce`: two programs that receive get
different messages, in order. `AscTimeDrift`: the printed time is the time since the
first message and one microsecond more for each message after it, as long as
no two printed messages are a whole turn of the 16-bit clock apart (`run.c:396` adds
0.000001 each time; the model counts in microseconds and leaves the rounding of the
double out). `EchoSends`:
what was received goes out in the end. **Fairness**: the echo test goes on and
the MCU sends; nothing is assumed of arrivals, the monitor or the sender.
**Bounds.** One process per mode, three arrivals, room for three messages in and
two out, blocks of two: blocks are cut, buffers full, messages dropped. `Word` is
4, gaps 3 and 5: less and more than a turn. One failing access.

**Proofs** (`CanFlowProofs.tla`), for all processes of each mode, arrivals, sizes
of buffers and blocks, and faults: `FlowTypeCorrect`, `ReceivedOnce`, `EchoIsExact`,
`TimesDrift`. `PlaceInv`: what a process holds at each access; a block that is
to be sent is not empty, and what is asked for fits it. `OrderInv`: the buffer, every
block and all that was received are in the order of arrival, and what was taken is
before what is still there; so of two readers that found the same messages each
takes others. On these rests `EchoExact`, which is inductive with them: it speaks
of what was sent with the rest of the block (`Sent`) by its elements, by the order
of first occurrences and by its length, which `EchoTake` and `EchoPut` keep. `TimeInv`:
`last_rtime` is the cut time of a message that arrived, before all that are still to
be printed.

## 7. MpuBusiness: the MCU's services

`MpuBusiness.tla` models the business registers and the services that use them
(`rearview_mcu.c:327-506`, `run.c:289-350`, `456-505`), one action per access.
Each process runs one service, a feeder for ever.

| model | code |
|---|---|
| `FeedRead`, `Feed`, `last` | `RVMcu_WdogFeed` and its static `last_cnt`, 0xff for "not read yet" |
| `ConfigRead`, `ConfigFeed`, `ConfigWrite` | `RVMcu_WdogConfig` |
| `DtcRead`, `Changed`, `DtcWrite` | `fun_set_or_clean_mpu_dtc`, with the feed in between |
| `NvmRead`, `NvmWrite` | `RVMcu_CleanNvm` |
| `WriteSetting`, `Reset`, `ReadInfo`, `SetMode` | the settings, `RVMcu_McuReset`, the switch of the boot mode |
| `Fed`, `Restarted`, `McuNvmDone`, `McuSwitch`, `McuOffline` | the MCU, external |

The services compose accesses that are atomic, and are not atomic themselves.
`unseen[p]` records what happened to `p`'s service that `p` cannot notice: a
failure whose result is not looked at, another process between its read and its
write, a restart. The properties hold except then, and each exception does
occur (see Observations).

**Run** `Mpu.cfg`. `AckedDtcSticks`: a fault set with result 0 is set.
`OtherDtcUntouched`: nobody changes a fault it was not told to. `DtcHeard`: the
map was written to an MCU that listens. `NvmNotReplaced`: no command is written
over a busy one. `FeedMoves`: an acknowledged feed changes the counter, also
around 0xff. `CounterKeepsMoving`: the counter never stops for good while someone
feeds. **Fairness**: a process that runs goes on; failures are bounded, which
stands for "not for ever". **Bounds.** A feeder with each other service, and the
pairs that touch the same registers; `Byte` is 4, so the counter and the sentinel
come around; `MaxFaults` is 2, less than `Byte - 1`: more failed feeds in a row
would bring `last_cnt` back to the MCU's counter, in the program 255 of them.
`McuOffline` takes longer than feeding and writing the fault map.

**Proofs** (`MpuBusinessProofs.tla`), for all processes, mixes of services, widths
of the counter and faults. The assumptions say that the mirror's setting is a byte.
`ServiceInv`: the access a process is at belongs to its service, and everything is
of its type (`MpuTypeCorrect`). `MapInv`: the map a process is about to write is
the MCU's with its own changes, unless it is noted that another wrote meanwhile
(`CopyInv`), and of two that change it at the same time both are noted; from it
`AckedSticks`, `OthersUntouched` and, with who was heard, `MapIsHeard`. `NvmInv`: the
NVM is idle for one that found it idle, unless noted; from it `CommandsFinish`.
`FeedingMoves` needs `FeedInv`: `last_cnt` is ahead of the counter by one and the
feeds lost meanwhile. With as many losses as the counter has values it would be
all the way around, and the property is false; hence `FewFaults`, which in the
program means fewer than 255 failed accesses. `CounterKeepsMoving` is
model-checked only.

## 8. SpiLifecycle: set-up and release

`SpiLifecycle.tla` models `SpiReg_Init`, `uart_Open` and `SpiReg_Exit` call by
call, each with its failure, in several processes with their descriptor tables
(`open` gives the lowest free number), the file lock and the settings of the two
devices. The log opens a file of its own in between. `Kill` ends a process
anywhere; the kernel closes what it had.

**Run** `Life.cfg`. `ReadyIsUsableOrClosed`: when Init has returned 0, either the
handle names the three files and both devices are set up, whatever others do, or
`uart_Open` failed and everything is closed (`spi_reg.c:275-288`, see
Observations). `NothingLeft`: a failed or finished process has nothing open and not
the lock. `SetUpAlone`: devices are set up only under the lock, never during
another's access. `EveryoneEnds`:
nobody waits for the lock for ever. **Fairness**: processes run; who waits for
the lock gets it in the end because the others ask only `MaxUses` times. **Bounds.**
Two processes, two failing calls, one kill, two accesses each: one process can
fail twice, or fail while the other is killed, in any place of the sequence. One
thread per process; a failing `tcgetattr` is a failing `set_speed`.

**Proofs** (`SpiLifecycleProofs.tla`), for all processes, uses, faults and kills:
`LifecycleTypeCorrect`, `ReadyMeansUsableOrClosed`, `NothingIsLeft`, `SetUpIsAlone`.
All follow from one invariant, `BusInv`: where a process is says which
files it has open, each once and under the number in its handle (`TableInv`), whether
it owns the lock (`OwnerInv`), and how far the devices are set up (`DeviceInv`; settings
are made in an order and never undone). `OthersKept` proves once that a
step of one process keeps it for the others. `LowestFree`: a process never has
more than four files, so `open` has a number to give. `LockIsGivenBack`: the lock's owner lives,
is before the statement that gives it back and does not wait for it itself;
`ProcessesGoForward`: each step of a process is one more of its `MaxUses` accesses
or nearer to its end. `EveryoneEnds` follows from these with the fairness above
and is model-checked.

## 9. CanEvent: the event table

`CanEvent.tla` models `fun_show_mcu_can_event`: the valid flags are read in one
access, the values up to the last valid one in a second, and the MCU changes its
table in between. `Line` and `Say` give the events of each line and what it says;
wording and units are left out.

**Run** `Event.cfg`. `ShownWasHeld`: what is shown was all in the table at one
moment. `AllShown`: a line whose events were valid throughout is shown (but event
0 alone). The distance is multiplied in 32 bits as in the code (`Metres`); no
property says that it is five times the value, for it is not always (see
Observations).
**Bounds.** Up to three changes, so one before, one between and one after the two
reads; `Byte` is 8.

**Proofs** (`CanEventProofs.tla`), for all tables, changes and values: `EventTypeCorrect`,
`ShownWasThere`, `NothingIsMissed`. `ShownInv`: events valid
all along are among the flags that were read, so the second access reaches as
far as the last of them, and what is shown is said of values read in one
access. `LastValid` is the arithmetic of the last flag; a number
is written as the sum of up to four bytes, as the code reads it, not as a fold.

## 10. CliConfig: the command line

`CliConfig.tla` models `argparse_parse` token by token, the checks and the choice
of the mode in `main.c`, and the loop of the register test in `run.c`. A word is
what the program makes of it: its number, whether it is one as a whole, how many
bytes it has.

**Runs.** `Cli.cfg`: every line of up to four arguments out of fifteen, up to three
out of fourteen options with values, and `--no-` options. `RunHasArguments`: a read
or a test has a count from 1 to `WrBufMax - 2`, which is the one typed if that has
16 bits; a write has as many bytes as were typed (a test of no rounds is no test).
`AskedModeRuns`: the mode that runs was asked for; the program falls back to feeding
the watchdog only without any option, or with a value that stands for none.
`OwnValue`: an option gets the value typed with it. `CliTooLong.cfg`: `RoomForCrc`,
that a write has at most `WrBufMax - 2` bytes, is violated (see Findings); no
property of `Cli.cfg` bounds the typed data. **Bounds.** 16 bits are 5, the buffer has
8 bytes, so counts beyond both and data that fill the buffer are among the words.

**Proofs** (`ProgramProofs.tla`), for every set of command lines and all sizes with
`WrBufMax` below `U16`: `CliTypeCorrect`, `RunHasItsArguments`, `AskedMode`,
`OwnValues`. The properties speak of the end and the checks of what the parser left,
so `CliInv` ties both together. `ParseInv`: an option's variable has left its
initial value only if the option was typed, a flag was typed exactly if its
count is positive, and no value is pending unless a flag had one. `CheckInv`: after the
checks, mode, count and data are still those that follow from the options and
words; the modes are tested in the order of `main.c`, of which the proof needs that
registers come first and the date last.

## 11. DebugLog: the log files

`DebugLog.tla` models `dbg_out_str`: it reads the time (`TakeTime`), writes to stdout,
which may hold the process up, and then looks at the deadline and, when it is over,
makes a file named by the time it read; after that the directory is scanned and the
oldest file removed, in separate steps. Processes share the directory and not the
mutex. `upset` records what else happened: `back`, the clock was set back; `dir`, the
directory was gone after the old file was closed; `killed`, a process was killed
after making a file; `together`, two made a file at the same time; `late`, a file was
made with an earlier name than one that is there.

**Run** `Log.cfg`. `AtMostFiles`: at most `MaxFiles`, if nobody was killed and no file
was made late or together. `FileSpan`: no string is in a file older than the
interval, whatever happens. `OldestGoes`: only the earliest file is removed, unless
one was made late. `NewestStays`: whoever removes a file leaves a later one, whatever
happens. `OpenIsKept`: a file in use is removed only after `MaxFiles` later ones were
made, unless one was made late. `FpIsOpen`: `log_fp` is an open file or NULL,
except after a missing directory. **Bounds.** Two processes, two files, an interval
of two units of the clock, three messages of one or two strings; processes are
interchangeable. 3,086,770 states, with processes held up across the scans of others.

**Proofs** (`ProgramProofs.tla`, shared with `CliConfig`), for all processes, intervals
and numbers of files: `LogTypeCorrect`, `FilesSpan`, `FpIsOpenOrNull`,
`OldestIsRemoved`, `NewestIsKept`, `OpenFilesStay`, `FilesAreFew`. `LogInv`: a process
has its file for the interval at most; a file as late as its own is always there, and
the one it is about to remove is earlier than its own (`NewestInv`); as long as none is
made late that one is the earliest, with `MaxFiles` later ones as long as it is there,
although others make and remove files between its scan and its `remove` (`PioneerInv`). `FilesAreFew` needs `CountInv` too: as long
as nothing is upset one process at a time makes a file, and without that file, or the
one to be removed, there are not too many; it supposes a directory that begins so
(`CleanStart`), for the program removes one file for each it makes and would keep an
excess for ever.

## 12. Findings

- `BurnMcuFinishLost.cfg`: the write of FINISH_TRANSFER fails unnoticed, the
  wait for the verification ends at once with the mode START_BURN and
  parameter 0, and the burn returns 0 (`rearview_mcu.c:140`).
- `CliTooLong.cfg`: data typed for a write may have `WR_BUF_MAX` (1024) bytes
  (`main.c:74`), although the text printed for longer ones says not more than
  `WR_BUF_MAX-2` (`main.c:77`). `SpiReg_Write` adds the CRC and fills up to a multiple of
  eight bytes (`spi_reg.c:205-213`): with 1023 or 1024 bytes it writes and transfers
  1032 bytes in `tx_buf` and `rx_buf` of 1024 (`spi_reg.h:15`), and with them what
  follows in the handle, `speed` and the mutex. `SpiReg` has data of one value
  and does not show what comes of that.

**Observations.** Where the code falls short of what a property would say, the
property names the exception; dropping the exception makes TLC show it. These
are:

- `spi_reg.c:98`: an acknowledgement names no exchange. One that arrives after
  its timeout shifts those of the next call by one, and a write may return 0 that
  the MCU dropped; hence `LineFaults` in `SpiRegAtomic.cfg`.
- `rearview_mcu.c:131`: with the ring buffer full until the retries are used up the
  burn ends with the `ret` 0 of the last status read, for firmware that was not
  transferred (`SuccessMeansInstalled`, `GaveUpOnFull`; reached in `BurnMcuSafe.cfg`).
- `rearview_mcu.c:55-58`: the length of a short read is returned where a partition
  is expected, so a file of 1 or 2 bytes passes for an image for partition 1 or 2
  and that partition is erased (`EraseOnlyMatching`, `ShortAs`; reached too).
- `rearview_mcu.c:101`: the ring buffer is cleaned after START_BURN and without a look at
  the result: bytes of an earlier burn may be programmed before the first of the file
  (`NothingSkippedOrRepeated`, `certain`); the verification finds them.
- `regwr_cb.c:101`, `122`: a transfer that took effect and was reported as failed moves
  bytes nobody counts (`CountsAddUp`, `failed`).
- `run.c:396`: the printed time gains a microsecond with every message, so after a
  thousand messages it is a millisecond ahead (`AscTimeDrift`).
- `run.c:297`: two processes that change the fault map at the same time; one
  change is lost with result 0 (`AckedDtcSticks`, "map").
- `run.c:302`: a fault outside the mask is dropped with result 0, while
  `main.c:201` offers 1 to 12 (`AckedDtcSticks`, `Mask`).
- `run.c:310`, `rearview_mcu.c:372`: results of the feed and of its first read are
  not looked at (`DtcHeard`, `FeedMoves`).
- `rearview_mcu.c:403`: two processes find the NVM idle; the second command
  replaces the first (`NvmNotReplaced`, "command").
- `spi_reg.c:275`: when `uart_Open` fails `SpiReg_Init` returns 0 with everything
  closed, and the program goes on (`ReadyIsUsableOrClosed`). `SpiReg_Exit` then closes
  the old numbers once more, whatever has them by then, the log file for one
  (`spi_reg.c:295-297`): the model does so, and no property says that it does not.
- `run.c:129`: event 0 alone is taken for no event (`AllShown`); `run.c:224`: the
  distance is multiplied in 32 bits before it is stored in 64, so it is not the
  value x 5 m of `can-event.h:58` from 2^32 / 5 units on, some 4.3 million km.
- `main.c:67`: a count is cut to 16 bits before it is checked, so 65537 is a count of
  1; `main.c:66`: a test
  of 0 rounds is none, and its count is taken for data (`RunHasArguments`);
  `argparse.c:192`: a flag takes a value and keeps it for the next option
  (`OwnValue`).
- `debug.c:105`, `107`: two new files at the same time, a process killed before it
  removes, or a file made late leave one file too many for good (`AtMostFiles`).
- `debug.c:53-93`: a process held up at stdout makes a file named by a time long past,
  when others have made and scanned later ones: what they then remove is not the
  earliest (`OldestGoes`, "late"). A clock set back does the same.
- `debug.c:82`: a closed file stays in `log_fp` (`FpIsOpen`).

## 13. Not modelled

The components marked so in `PROJECT.json`, with their reasons: vendored code,
build files, layouts of registers nobody acts on. Of the modelled ones: the
printing of the MCU's information and fault map, help texts and units
(formatting); the tables of baud rates and parities; the arithmetic of the CRC
table, for which the models have an ideal checksum. The MCU is modelled only as
far as the host relies on it; what its bootloader does when it restarts in the
middle of a burn, or when two hosts burn at once, is not in the repository.
What is checked and not proved is listed in section 2.
