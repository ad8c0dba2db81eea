------------------------------- MODULE BurnMcu -------------------------------
(***************************************************************************)
(* Downloading firmware into the MCU: RVMcu_BurnMcu, RVMcu_ForceBurnMcu,   *)
(* _BurnMcu and _GetBurnFirmwarePart (src/src/rearview_mcu.c), with the    *)
(* ring-buffer writes of src/src/regwr_cb.c that carry the data.           *)
(*                                                                         *)
(* Each step is one register access, atomic as RegAccess promises: it      *)
(* succeeds, or it fails without effect ("lost"), or it fails after it     *)
(* took effect ("unacked").  The bootloader is external and modelled from  *)
(* the protocol of src/src/include/mcu-reg/mpu-burn-mcu.h.                 *)
(***************************************************************************)
EXTENDS Integers, Sequences

CONSTANTS
  Files,       \* the firmware files a run may be given
  HeadSize,    \* sizeof(head_data): bytes needed to find the image's header
  Particle,    \* BURN_PARTICLE_SIZE
  Capacity,    \* size of the MCU's ring buffer
  MaxRetry,    \* BURN_WR_MAX_RETRY
  Leftovers,   \* what an aborted burn may have left in the ring buffer
  Sites,       \* the register accesses that may fail
  Faults,      \* the kinds of fault the run allows
  MaxFaults    \* bound: faults in a behaviour

AppA == 1      \* BFP_APP_A
AppB == 2      \* BFP_APP_B

AllSites ==
  {"info", "goto", "check", "erase", "erase_status", "start", "clean", "free",
   "chunk", "poll", "finish", "result", "exit"}

FaultKinds ==
  {"lost", "unacked", "busy", "nofile", "readerr", "erase_error",
   "flash_error", "timeout"}

ASSUME FilesAssumption ==
  Files \subseteq [size : Nat, magic : BOOLEAN, part : {AppA, AppB}]
ASSUME SizesAssumption ==
  /\ HeadSize \in Nat \ {0} /\ Particle \in Nat \ {0}
  /\ Capacity \in Nat \ {0} /\ MaxRetry \in Nat /\ MaxFaults \in Nat
ASSUME LeftoversAssumption ==
  \A s \in Leftovers : s \in Seq({0}) /\ Len(s) <= Capacity
ASSUME BurnFaultsAssumption == Sites \subseteq AllSites /\ Faults \subseteq FaultKinds

(* BURNMODE_..., and the values of MBMErrorCode in the register parameter. *)
Modes ==
  {"FORBID", "WAIT_BURN", "START_ERASE", "ERASE_OK", "START_BURN",
   "FINISH_TRANSFER", "FINISH_BURN", "BURN_ERROR", "EXIT_BURN",
   "APP_GOTO_BOOTLOADER"}
CrcError == 1
WriteError == 2
TimeoutError == 3
EraseError == 4

VARIABLES
  pc,        \* where the burn is
  ret,       \* the local variable ret, and the result when pc = "done"
  file,      \* the firmware file
  sent,      \* bytes of the file that RegWrCb_Write reported as written
  end,       \* end of the particle being written, as a position in the file
  room,      \* what the last query of the free size said
  retry,     \* the local variable retry
  mode,      \* MCU: burn_mode
  parameter, \* MCU: parameter
  app,       \* MCU: it runs the application, not the bootloader
  target,    \* MCU: the partition the bootloader burns
  ring,      \* MCU: the ring buffer
  flash,     \* MCU: what has been programmed since the erase
  installed, \* MCU: the target partition is verified and may be booted
  certain,   \* history: what the MCU has received is what was reported
  faults     \* faults so far

host == <<pc, ret, sent, end, room, retry>>
boot == <<mode, parameter, app, ring, flash, installed>>
vars == <<pc, ret, file, sent, end, room, retry, mode, parameter, app, target,
          ring, flash, installed, certain, faults>>

(* The bytes of the file, by position: byte i is i.                        *)
Image(f) == [i \in 1 .. f.size |-> i]

ValidFor(f, p) == f.size >= HeadSize /\ f.magic /\ f.part = p

Smaller(a, b) == IF a < b THEN a ELSE b

(* _GetBurnFirmwarePart.  A file shorter than the header yields the number *)
(* of bytes that read() returned.  One that cannot be opened yields -1,    *)
(* like one without the magic number.                                      *)
FirmwarePart(f) ==
  IF f.size < HeadSize THEN f.size
  ELSE IF f.magic THEN f.part ELSE -1

Init ==
  /\ pc \in {"info", "force"}
  /\ ret = 0
  /\ file \in Files
  /\ sent = 0 /\ end = 0 /\ room = 0 /\ retry = 0
  /\ target \in {AppA, AppB}
  /\ app \in BOOLEAN
  /\ mode = IF app THEN "FORBID" ELSE "WAIT_BURN"
  /\ parameter = IF app THEN 0 ELSE target
  /\ ring \in Leftovers
  /\ flash = <<>>
  /\ installed = FALSE
  /\ certain = (ring = <<>>)
  /\ faults = 0

-----------------------------------------------------------------------------
Fault(kind) ==
  /\ kind \in Faults
  /\ faults < MaxFaults
  /\ faults' = faults + 1

Goto(from, to) == pc = from /\ pc' = to

(* A register read, or write, that succeeds.                               *)
Succeeds == ret' = 0 /\ UNCHANGED faults

(* One that fails and has no effect in the MCU; reads only fail so.        *)
Lost(site) ==
  /\ site \in Sites
  /\ Fault("lost")
  /\ ret' = -2
  /\ UNCHANGED boot

(* A write that takes effect although the caller is told it failed.        *)
Unacked(site) ==
  /\ site \in Sites
  /\ Fault("unacked")
  /\ ret' = -2

Return(from, code) == Goto(from, "done") /\ ret' = code

(* Only the mode byte is written, the parameter stays (sizeof burn_mode).  *)
WriteMode(m) ==
  /\ mode' = m
  /\ UNCHANGED <<parameter, app, ring, flash, installed>>

locals == <<file, target, sent, end, room, retry, certain>>

(* A write of the mode whose failure ends the burn.                        *)
ModeOrReturn(site, m, next) ==
  /\ \/ Goto(site, next) /\ Succeeds /\ WriteMode(m)
     \/ Goto(site, "done") /\ Unacked(site) /\ WriteMode(m)
     \/ Goto(site, "done") /\ Lost(site)
  /\ UNCHANGED locals

(* A read whose failure ends the burn.                                     *)
ReadFails(site) ==
  /\ Goto(site, "done")
  /\ Lost(site)
  /\ UNCHANGED locals

(* The MCU is done with what it was told, when the host looks.             *)
Settled(busyModes) ==
  IF mode \in busyModes THEN Fault("busy") ELSE UNCHANGED faults

-----------------------------------------------------------------------------
(* RVMcu_BurnMcu and RVMcu_ForceBurnMcu: bring the MCU into its bootloader *)
(* and compare the partition with the file's.                              *)

ReadInfo ==
  \/ /\ pc = "info"
     /\ pc' = IF app THEN "goto" ELSE "check"
     /\ Succeeds
     /\ UNCHANGED <<boot, locals>>
  \/ ReadFails("info")

(* The forced burn reads the info register until it finds the bootloader:  *)
(* a read that fails or finds the application changes nothing.             *)
ForcePoll ==
  /\ ~app
  /\ Goto("force", "check")
  /\ Succeeds
  /\ UNCHANGED <<boot, locals>>

GotoBootloader == ModeOrReturn("goto", "APP_GOTO_BOOTLOADER", "check")

(* Mutant: the partition is not compared.                                  *)
CheckModeOnly ==
  /\ pc = "check"
  /\ Settled({"APP_GOTO_BOOTLOADER"})
  /\ \/ mode # "WAIT_BURN" /\ Return("check", -1)
     \/ mode = "WAIT_BURN" /\ Goto("check", "erase") /\ ret' = 0
  /\ UNCHANGED <<boot, locals>>

(* Read after the 400 ms that the MCU has to restart.                      *)
CheckMode ==
  \/ /\ pc = "check"
     /\ Settled({"APP_GOTO_BOOTLOADER"})
     /\ \/ mode # "WAIT_BURN" /\ Return("check", -1)
        \/ /\ mode = "WAIT_BURN"
           /\ pc' = IF parameter \in {AppA, AppB}
                         /\ parameter # FirmwarePart(file)
                      THEN "reject" ELSE "erase"
           /\ ret' = 0
     /\ UNCHANGED <<boot, locals>>
  \/ ReadFails("check")

(* Leave the bootloader; the result of the write is not looked at.         *)
Reject ==
  /\ Goto("reject", "done")
  /\ ret' = -1
  /\ \/ WriteMode("EXIT_BURN") /\ UNCHANGED faults
     \/ "exit" \in Sites /\ Fault("lost") /\ UNCHANGED boot
  /\ UNCHANGED locals

-----------------------------------------------------------------------------
(* _BurnMcu: erase.                                                        *)

StartErase == ModeOrReturn("erase", "START_ERASE", "erase_status")

EraseStatus ==
  \/ /\ pc = "erase_status"
     /\ Settled({"START_ERASE"})
     /\ \/ mode = "ERASE_OK" /\ Goto("erase_status", "start") /\ ret' = 0
        \/ mode # "ERASE_OK" /\ Return("erase_status", -parameter)
     /\ UNCHANGED <<boot, locals>>
  \/ ReadFails("erase_status")

StartBurn == ModeOrReturn("start", "START_BURN", "clean")

(* RegWrCb_Clean; its result is not looked at.  The MCU burns since        *)
(* StartBurn and may have programmed what was left in the ring buffer.     *)
Clean ==
  /\ Goto("clean", "open")
  /\ \/ /\ ring' = <<>> /\ certain' = (certain \/ flash = <<>>)
        /\ UNCHANGED <<mode, parameter, app, flash, installed, faults>>
     \/ "clean" \in Sites /\ Fault("lost") /\ UNCHANGED <<boot, certain>>
  /\ UNCHANGED <<ret, file, target, sent, end, room, retry>>

(* open() of the file, which may be gone since its partition was checked   *)
OpenFile ==
  /\ \/ Goto("open", "read") /\ UNCHANGED <<ret, faults>>
     \/ Return("open", -1) /\ Fault("nofile")
  /\ UNCHANGED <<boot, locals>>

-----------------------------------------------------------------------------
(* _BurnMcu: transfer, particle by particle.                               *)

(* read(): a particle, the end of the file, or an error, which is taken    *)
(* for the end of the file                                                 *)
ReadParticle ==
  /\ pc = "read"
  /\ \/ /\ sent < file.size
        /\ pc' = "free"
        /\ end' = Smaller(sent + Particle, file.size)
        /\ retry' = 0
        /\ UNCHANGED faults
     \/ /\ sent = file.size
        /\ pc' = "finish"
        /\ UNCHANGED <<end, retry, faults>>
     \/ /\ sent < file.size
        /\ Fault("readerr")
        /\ pc' = "finish"
        /\ UNCHANGED <<end, retry>>
  /\ UNCHANGED <<boot, file, target, ret, sent, room, certain>>

Free == Capacity - Len(ring)

(* RegWrCb_Write, first half: the free size.  The host does not wait for   *)
(* the MCU to make room.                                                   *)
QueryFree ==
  /\ \/ /\ pc = "free"
        /\ Succeeds
        /\ room' = Free
        /\ pc' = IF Free = 0 THEN "poll" ELSE "chunk"
     \/ /\ Goto("free", "retry")
        /\ Lost("free")
        /\ UNCHANGED room
  /\ UNCHANGED <<boot, file, target, sent, end, retry, certain>>

(* Mutant: the whole particle, whatever there is room for.                 *)
ParticleEnd == end

ChunkEnd == Smaller(sent + room, end)

Put ==
  /\ ring' = ring \o SubSeq(Image(file), sent + 1, ChunkEnd)
  /\ UNCHANGED <<mode, parameter, app, flash, installed>>

(* Mutant: the particle counts as written after a part of it.              *)
WriteChunkOnce ==
  /\ pc = "chunk"
  /\ \/ Succeeds /\ Put /\ sent' = end /\ pc' = "read"
     \/ Goto("chunk", "retry") /\ Lost("chunk") /\ UNCHANGED sent
  /\ UNCHANGED <<file, target, end, room, retry, certain>>

(* RegWrCb_Write, second half: as much as there is room for                *)
WriteChunk ==
  /\ pc = "chunk"
  /\ \/ /\ Succeeds
        /\ Put
        /\ sent' = ChunkEnd
        /\ pc' = IF ChunkEnd < end THEN "free" ELSE "read"
        /\ UNCHANGED certain
     \/ Goto("chunk", "retry") /\ Unacked("chunk") /\ Put /\ certain' = FALSE /\ UNCHANGED sent
     \/ Goto("chunk", "retry") /\ Lost("chunk") /\ UNCHANGED <<sent, certain>>
  /\ UNCHANGED <<file, target, end, room, retry>>

(* The ring buffer was full: has the MCU given up?                         *)
PollStatus ==
  \/ /\ pc = "poll"
     /\ \/ mode = "BURN_ERROR" /\ Return("poll", -parameter)
        \/ mode # "BURN_ERROR" /\ Goto("poll", "retry") /\ ret' = 0
     /\ UNCHANGED <<faults, boot, locals>>
  \/ ReadFails("poll")

(* if(retry++ > BURN_WR_MAX_RETRY) the burn ends with what ret happens to  *)
(* be: 0 if the ring buffer was full                                       *)
Retry ==
  /\ pc = "retry"
  /\ retry' = retry + 1
  /\ pc' = IF retry > MaxRetry THEN "done" ELSE "free"
  /\ UNCHANGED <<ret, boot, faults, file, target, sent, end, room, certain>>

-----------------------------------------------------------------------------
(* _BurnMcu: verification by the MCU.                                      *)

(* The result of this write is not looked at.                              *)
FinishTransfer ==
  /\ Goto("finish", "result")
  /\ \/ WriteMode("FINISH_TRANSFER") /\ UNCHANGED faults
     \/ "finish" \in Sites /\ Fault("lost") /\ UNCHANGED boot
  /\ UNCHANGED <<ret, locals>>

(* Mutant: wait for the end of the transfer without looking at its result. *)
ReadResultBlind ==
  /\ mode # "FINISH_TRANSFER"
  /\ Goto("result", "exit")
  /\ ret' = 0
  /\ UNCHANGED <<faults, boot, locals>>

(* Mutant: wait for the one good result.                                   *)
ReadResultUntilFinished ==
  /\ pc = "result"
  /\ IF mode = "FINISH_BURN"
       THEN Goto("result", "exit") /\ ret' = 0 /\ UNCHANGED <<faults, boot, locals>>
       ELSE UNCHANGED vars

(* A read that still finds FINISH_TRANSFER is repeated after 2 ms.         *)
ReadResult ==
  \/ /\ mode # "FINISH_TRANSFER"
     /\ ret' = -parameter
     /\ Goto("result", IF parameter > 0 THEN "done" ELSE "exit")
     /\ UNCHANGED <<faults, boot, locals>>
  \/ ReadFails("result")

Exit ==
  /\ Goto("exit", "done")
  /\ \/ WriteMode("EXIT_BURN") /\ UNCHANGED faults
     \/ "exit" \in Sites /\ Fault("lost") /\ UNCHANGED boot
  /\ UNCHANGED <<ret, locals>>

-----------------------------------------------------------------------------
(* The bootloader.                                                         *)

Report(m, code) == mode' = m /\ parameter' = code

McuEnterBoot ==
  /\ app
  /\ mode = "APP_GOTO_BOOTLOADER"
  /\ app' = FALSE
  /\ Report("WAIT_BURN", target)
  /\ UNCHANGED <<host, file, target, certain, ring, flash, installed, faults>>

(* The MCU is restarted by hand and stays in the bootloader: what a forced *)
(* burn waits for.                                                         *)
McuRestart ==
  /\ app
  /\ pc = "force"
  /\ app' = FALSE
  /\ Report("WAIT_BURN", target)
  /\ UNCHANGED <<host, file, target, certain, ring, flash, installed, faults>>

McuErase ==
  /\ mode = "START_ERASE"
  /\ flash' = <<>>
  /\ installed' = FALSE
  /\ \/ Report("ERASE_OK", 0) /\ UNCHANGED faults
     \/ Report("BURN_ERROR", EraseError) /\ Fault("erase_error")
  /\ UNCHANGED <<host, file, target, certain, app, ring>>

McuProgram ==
  /\ mode \in {"START_BURN", "FINISH_TRANSFER"}
  /\ ring # <<>>
  /\ ring' = Tail(ring)
  /\ \/ flash' = Append(flash, Head(ring)) /\ UNCHANGED <<mode, parameter, faults>>
     \/ Report("BURN_ERROR", WriteError) /\ Fault("flash_error") /\ UNCHANGED flash
  /\ UNCHANGED <<host, file, target, certain, app, installed>>

(* The checksum of the image and its header are checked.                   *)
McuVerify ==
  /\ mode = "FINISH_TRANSFER"
  /\ ring = <<>>
  /\ installed' = (flash = Image(file) /\ ValidFor(file, target))
  /\ IF installed' THEN Report("FINISH_BURN", 0) ELSE Report("BURN_ERROR", CrcError)
  /\ UNCHANGED <<host, file, target, certain, app, ring, flash, faults>>

(* No data for RWREG_CB_WRITE_TIMEOUT ms                                   *)
McuTimeout ==
  /\ mode = "START_BURN"
  /\ ring = <<>>
  /\ Fault("timeout")
  /\ Report("BURN_ERROR", TimeoutError)
  /\ UNCHANGED <<host, file, target, certain, app, ring, flash, installed>>

McuExit ==
  /\ mode = "EXIT_BURN"
  /\ app' = TRUE
  /\ Report("FORBID", 0)
  /\ UNCHANGED <<host, file, target, certain, ring, flash, installed, faults>>

-----------------------------------------------------------------------------
HostStep ==
  \/ ReadInfo \/ ForcePoll \/ GotoBootloader \/ CheckMode \/ Reject
  \/ StartErase \/ EraseStatus \/ StartBurn \/ Clean \/ OpenFile
  \/ ReadParticle \/ QueryFree \/ WriteChunk \/ PollStatus \/ Retry
  \/ FinishTransfer \/ ReadResult \/ Exit

McuStep ==
  \/ McuEnterBoot \/ McuErase \/ McuProgram \/ McuVerify \/ McuExit

Finished == pc = "done" /\ UNCHANGED vars

Next == HostStep \/ McuStep \/ McuRestart \/ McuTimeout \/ Finished

Spec == Init /\ [][Next]_vars

(* The program runs on and the bootloader does what it was told.           *)
FairSpec == Spec /\ WF_vars(HostStep) /\ WF_vars(McuStep)

-----------------------------------------------------------------------------
Pcs ==
  {"info", "force", "goto", "check", "reject", "erase", "erase_status",
   "start", "clean", "open", "read", "free", "chunk", "poll", "retry",
   "finish", "result", "exit", "done"}

(* Every variable stays in its domain, and the ring buffer is never asked  *)
(* to hold more than it can.                                               *)
TypeOK ==
  /\ pc \in Pcs
  /\ ret \in -4 .. 0
  /\ file \in Files
  /\ sent \in Nat /\ end \in Nat /\ room \in 0 .. Capacity
  /\ retry \in 0 .. MaxRetry + 2
  /\ mode \in Modes
  /\ parameter \in 0 .. 4
  /\ app \in BOOLEAN /\ installed \in BOOLEAN /\ certain \in BOOLEAN
  /\ target \in {AppA, AppB}
  /\ ring \in Seq(Nat) /\ Len(ring) <= Capacity
  /\ flash \in Seq(Nat)
  /\ faults \in 0 .. MaxFaults

(* The retries of a particle were used up, the last time on a full ring    *)
(* buffer: the burn returns the 0 of the last status read                  *)
(* (rearview_mcu.c:121-133).                                               *)
GaveUpOnFull == retry = MaxRetry + 2 /\ room = 0

(* A burn that returns 0 has put the file into the MCU: the MCU verified   *)
(* it and may boot it (rearview_mcu.c:142, "the MCU will check the         *)
(* result").  There is one exception, with every access but the write of   *)
(* FINISH_TRANSFER free to fail: the burn that gave up on a full ring      *)
(* buffer returns 0 too.                                                   *)
SuccessMeansInstalled == pc = "done" /\ ret = 0 => installed \/ GaveUpOnFull

(* A file shorter than a header, whose length passes for the partition.    *)
ShortAs(f, p) == f.size < HeadSize /\ f.size = p

(* The partition is erased only for an image that is meant for it          *)
(* (rearview_mcu.c:276, 314), or for a file of 1 or 2 bytes whose length   *)
(* _GetBurnFirmwarePart returns in place of a partition                    *)
(* (rearview_mcu.c:55-58): never for another image, nor for another file.  *)
EraseOnlyMatching == mode = "START_ERASE" => ValidFor(file, target) \/ ShortAs(file, target)

Transferring ==
  pc \in {"read", "free", "chunk", "poll", "retry", "finish"}
    /\ mode \in {"START_BURN", "FINISH_TRANSFER"}

(* Nothing is skipped, repeated or reordered on the way through the ring   *)
(* buffer, however chunks are cut and retried: what the MCU has received   *)
(* is what RegWrCb_Write reported as written (rearview_mcu.c:115-135),     *)
(* unless a chunk was written and reported as failed, or bytes of an       *)
(* earlier burn were programmed or left because they were cleaned late or  *)
(* not at all: then only the verification helps.                           *)
NothingSkippedOrRepeated ==
  Transferring /\ certain => flash \o ring = SubSeq(Image(file), 1, sent)

(* Every burn ends: no retry and no wait goes on for ever.                 *)
BurnEnds == pc = "info" ~> pc = "done"
=============================================================================
