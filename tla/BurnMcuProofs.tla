--------------------------- MODULE BurnMcuProofs ---------------------------
(* Proofs about the firmware download, for all files, sizes and faults.    *)
EXTENDS BurnMcu, TLAPS, SequenceTheorems

(* The strengthening of EraseOnlyMatching: what the bootloader says while  *)
(* it waits is its target, and the erase is only ahead for that target.    *)
EraseInv ==
  /\ file \in Files
  /\ target \in {AppA, AppB}
  /\ mode = "WAIT_BURN" => parameter = target
  /\ pc = "erase" => ValidFor(file, target) \/ ShortAs(file, target)
  /\ EraseOnlyMatching

(* _GetBurnFirmwarePart returns a partition only for an image meant for    *)
(* it, or for a file of as many bytes (rearview_mcu.c:44).                 *)
LEMMA PartMatches ==
  ASSUME NEW f \in Files, NEW p \in {AppA, AppB}, FirmwarePart(f) = p
  PROVE  ValidFor(f, p) \/ ShortAs(f, p)
BY FilesAssumption, SizesAssumption DEF FirmwarePart, ValidFor, ShortAs, AppA, AppB

(* The initial states erase nothing.                                       *)
LEMMA EraseInit == Init => EraseInv
BY DEF Init, EraseInv, EraseOnlyMatching, AppA, AppB

(* Every step keeps EraseInv: only StartErase sets the mode, only          *)
(* CheckMode leads to it, and it compares the partitions.                  *)
LEMMA EraseStep == EraseInv /\ [Next]_vars => EraseInv'
<1> SUFFICES ASSUME EraseInv, [Next]_vars PROVE EraseInv'
  OBVIOUS
<1> USE DEF EraseInv, EraseOnlyMatching
<1>1. CASE UNCHANGED vars
  BY <1>1 DEF vars, ValidFor, ShortAs
<1>2. CASE ReadInfo \/ ForcePoll
  BY <1>2 DEF ReadInfo, ForcePoll, ReadFails, Goto, Succeeds, Lost, boot, locals, ValidFor, ShortAs
<1>3. CASE GotoBootloader \/ StartErase \/ StartBurn
  BY <1>3 DEF GotoBootloader, StartErase, StartBurn, ModeOrReturn, Goto, Lost,
              WriteMode, boot, locals, ValidFor, ShortAs
<1>4. CASE CheckMode
  <2>1. UNCHANGED <<boot, file, target>>
    BY <1>4 DEF CheckMode, ReadFails, Lost, boot, locals
  <2>2. ASSUME pc' = "erase" PROVE FirmwarePart(file) = target
    BY <1>4, <2>2 DEF CheckMode, ReadFails, Return, Goto
  <2>3. pc' = "erase" => ValidFor(file, target) \/ ShortAs(file, target)
    BY <2>2, PartMatches
  <2> QED
    BY <2>1, <2>3 DEF boot, ValidFor, ShortAs
<1>5. CASE Reject \/ Clean \/ FinishTransfer \/ Exit
  BY <1>5 DEF Reject, Clean, FinishTransfer, Exit, Goto, WriteMode, boot, locals, ValidFor, ShortAs
<1>6. CASE EraseStatus \/ OpenFile \/ PollStatus \/ ReadResult
  BY <1>6 DEF EraseStatus, OpenFile, PollStatus, ReadResult, ReadFails, Return, Goto,
              Lost, boot, locals, ValidFor, ShortAs
<1>7. CASE ReadParticle \/ QueryFree \/ WriteChunk \/ Retry
  BY <1>7 DEF ReadParticle, QueryFree, WriteChunk, Retry, Goto, Lost, Put, boot, ValidFor, ShortAs
<1>8. CASE McuStep \/ McuRestart \/ McuTimeout
  BY <1>8 DEF McuStep, McuEnterBoot, McuErase, McuProgram, McuVerify, McuExit,
              McuRestart, McuTimeout, Report, host, ValidFor, ShortAs
<1> QED
  BY <1>1, <1>2, <1>3, <1>4, <1>5, <1>6, <1>7, <1>8 DEF Next, HostStep, Finished

(* No burn erases a partition for an image that is not meant for it,       *)
(* whatever fails, whatever files there are: the only other file it can    *)
(* erase for is the one of rearview_mcu.c:55-58, shorter than a header and *)
(* with as many bytes as the partition's number (rearview_mcu.c:276-284,   *)
(* 314-322).                                                               *)
THEOREM ErasesOnlyMatching == Spec => []EraseOnlyMatching
<1>1. Init => EraseInv
  BY EraseInit
<1>2. EraseInv /\ [Next]_vars => EraseInv'
  BY EraseStep
<1>3. EraseInv => EraseOnlyMatching
  BY DEF EraseInv
<1> QED
  BY <1>1, <1>2, <1>3, PTL DEF Spec

-----------------------------------------------------------------------------
InTransfer == {"free", "chunk", "poll", "retry"}

(* The strengthening of TypeOK: the position stays in the file, the end of *)
(* the particle too, and what the host believes to be free still is.       *)
TypeInv ==
  /\ TypeOK
  /\ sent <= file.size
  /\ pc \in InTransfer => sent <= end /\ end <= file.size
  /\ pc = "chunk" => room <= Capacity - Len(ring)
  /\ pc # "done" => retry <= MaxRetry + 1

(* A part of the file is a sequence of numbers, as long as it should be.   *)
LEMMA ChunkType ==
  ASSUME NEW f \in Files, NEW a \in Nat, NEW b \in Nat, a <= b, b <= f.size
  PROVE  /\ SubSeq(Image(f), a + 1, b) \in Seq(Nat)
         /\ Len(SubSeq(Image(f), a + 1, b)) = b - a
<1>1. f.size \in Nat
  BY FilesAssumption
<1>2. Image(f) \in Seq(Nat) /\ Len(Image(f)) = f.size
  BY <1>1 DEF Image
<1> QED
  BY <1>1, <1>2

(* The initial states are typed.                                           *)
LEMMA TypeInit == Init => TypeInv
<1> SUFFICES ASSUME Init PROVE TypeInv
  OBVIOUS
<1>1. file \in Files /\ file.size \in Nat
  BY FilesAssumption DEF Init
<1>2. ring \in Seq(Nat) /\ Len(ring) <= Capacity
  <2>1. ring \in Seq({0}) /\ Len(ring) <= Capacity
    BY LeftoversAssumption DEF Init
  <2> QED
    BY <2>1
<1>3. /\ pc \in Pcs /\ pc \notin InTransfer /\ pc # "done"
      /\ mode \in Modes /\ parameter \in 0 .. 4
      /\ app \in BOOLEAN /\ installed \in BOOLEAN /\ certain \in BOOLEAN
      /\ target \in {AppA, AppB}
  <2>1. pc \in Pcs /\ pc \notin InTransfer /\ pc # "done"
    BY DEF Init, Pcs, InTransfer
  <2>2. target \in {AppA, AppB} /\ parameter \in 0 .. 4
    BY DEF Init, AppA, AppB
  <2>3. mode \in Modes
    BY DEF Init, Modes
  <2>4. app \in BOOLEAN /\ installed \in BOOLEAN /\ certain \in BOOLEAN
    BY Zenon DEF Init
  <2> QED
    BY <2>1, <2>2, <2>3, <2>4
<1>4. flash \in Seq(Nat)
  BY DEF Init
<1>5. ret = 0 /\ sent = 0 /\ end = 0 /\ room = 0 /\ retry = 0 /\ faults = 0
  BY DEF Init
<1>6. TypeOK
  BY <1>1, <1>2, <1>3, <1>4, <1>5, SizesAssumption DEF TypeOK
<1>7. pc # "chunk"
  BY <1>3 DEF InTransfer
<1> QED
  BY <1>1, <1>3, <1>5, <1>6, <1>7, SizesAssumption DEF TypeInv

(* A step that leaves the positions alone, and the ring buffer alone or    *)
(* empty, keeps TypeInv if it keeps the domains of the rest.               *)
LEMMA PositionsKept ==
  ASSUME TypeInv,
         UNCHANGED <<file, target, sent, end, room, retry, flash>>,
         ring' \in {ring, <<>>},
         pc' \in Pcs,
         pc' \in InTransfer => pc \in InTransfer,
         pc' = "chunk" => pc = "chunk",
         pc # "done" \/ pc' = "done",
         ret' \in -4 .. 0, mode' \in Modes, parameter' \in 0 .. 4,
         app' \in BOOLEAN, installed' \in BOOLEAN, certain' \in BOOLEAN,
         faults' \in 0 .. MaxFaults
  PROVE  TypeInv'
<1>1. ring' \in Seq(Nat) /\ Len(ring') <= Len(ring)
  <2>1. ring \in Seq(Nat) /\ Len(ring) \in Nat
    BY DEF TypeInv, TypeOK
  <2>2. CASE ring' = ring
    BY <2>1, <2>2
  <2>3. CASE ring' = <<>>
    BY <2>1, <2>3
  <2> QED
    BY <2>2, <2>3
<1>2. Len(ring) \in Nat /\ Len(ring') \in Nat /\ room \in Int
  BY <1>1 DEF TypeInv, TypeOK
<1>3. Len(ring') <= Capacity
  BY <1>1, <1>2, SizesAssumption DEF TypeInv, TypeOK
<1>4. TypeOK'
  BY <1>1, <1>3 DEF TypeInv, TypeOK
<1>5. pc' = "chunk" => room' <= Capacity - Len(ring')
  BY <1>1, <1>2, SizesAssumption DEF TypeInv
<1> QED
  BY <1>4, <1>5 DEF TypeInv

(* Writing a chunk: it is cut to the room, so the ring buffer holds it.    *)
LEMMA ChunkStep == TypeInv /\ WriteChunk => TypeInv'
<1> SUFFICES ASSUME TypeInv, WriteChunk PROVE TypeInv'
  OBVIOUS
<1>1. /\ pc = "chunk" /\ pc' \in {"free", "read", "retry"}
      /\ ret' \in -4 .. 0 /\ faults' \in 0 .. MaxFaults
      /\ UNCHANGED <<file, target, end, room, retry, mode, parameter, app, flash, installed>>
  BY SMTT(30), SizesAssumption
     DEF TypeInv, TypeOK, WriteChunk, Succeeds, Goto, Lost, Unacked, Fault, Put, boot
<1>9. certain' \in BOOLEAN
  <2>1. certain \in BOOLEAN
    BY DEF TypeInv, TypeOK
  <2> QED
    BY Zenon, <2>1 DEF WriteChunk
<1>2. /\ file \in Files /\ file.size \in Nat
      /\ sent \in Nat /\ end \in Nat /\ room \in Nat
      /\ sent <= end /\ end <= file.size
      /\ ring \in Seq(Nat) /\ Len(ring) \in Nat
      /\ room <= Capacity - Len(ring) /\ Capacity \in Nat
  BY <1>1, FilesAssumption, SizesAssumption DEF TypeInv, TypeOK, InTransfer
<1>3. /\ ChunkEnd \in Nat /\ sent <= ChunkEnd /\ ChunkEnd <= end
      /\ ChunkEnd - sent <= room
  BY <1>2 DEF ChunkEnd, Smaller
<1>4. ASSUME Put PROVE ring' \in Seq(Nat) /\ Len(ring') <= Capacity
  <2> DEFINE chunk == SubSeq(Image(file), sent + 1, ChunkEnd)
  <2>1. ChunkEnd <= file.size
    BY <1>2, <1>3
  <2>2. chunk \in Seq(Nat) /\ Len(chunk) = ChunkEnd - sent
    BY ONLY <2>1, <1>2, <1>3, ChunkType
  <2>3. ring' = ring \o chunk
    BY <1>4 DEF Put
  <2> HIDE DEF chunk
  <2>4. ring' \in Seq(Nat) /\ Len(ring') = Len(ring) + Len(chunk)
    BY ONLY <1>2, <2>2, <2>3, ConcatProperties
  <2> QED
    BY ONLY <2>2, <2>4, <1>2, <1>3
<1>5. ring' \in Seq(Nat) /\ Len(ring') <= Capacity
  BY <1>2, <1>4 DEF WriteChunk, Lost, boot, TypeInv, TypeOK
<1>6. sent' \in {sent, ChunkEnd}
  BY DEF WriteChunk
<1>7. sent' \in Nat /\ sent' <= end' /\ sent' <= file'.size /\ end' <= file'.size
  BY <1>1, <1>2, <1>3, <1>6
<1>8. TypeOK'
  BY <1>1, <1>5, <1>7, <1>9 DEF TypeInv, TypeOK, Pcs
<1> QED
  BY <1>1, <1>7, <1>8 DEF TypeInv, InTransfer

(* Every step keeps TypeInv.                                               *)
LEMMA TypeStep == TypeInv /\ [Next]_vars => TypeInv'
<1> SUFFICES ASSUME TypeInv, [Next]_vars PROVE TypeInv'
  OBVIOUS
<1>0. /\ file \in Files /\ file.size \in Nat
      /\ pc \in Pcs /\ ret \in -4 .. 0 /\ mode \in Modes /\ parameter \in 0 .. 4
      /\ app \in BOOLEAN /\ installed \in BOOLEAN /\ certain \in BOOLEAN
      /\ faults \in 0 .. MaxFaults
      /\ MaxFaults \in Nat
  BY FilesAssumption, SizesAssumption DEF TypeInv, TypeOK
<1> USE DEF Pcs, InTransfer, Modes
<1>1. CASE UNCHANGED vars
  BY <1>1 DEF vars, TypeInv, TypeOK
<1>2. CASE ReadInfo \/ ForcePoll
  BY <1>0, <1>2, PositionsKept
     DEF ReadInfo, ForcePoll, ReadFails, Goto, Succeeds, Lost, Fault, boot, locals
<1>3. CASE GotoBootloader \/ StartErase \/ StartBurn
  BY <1>0, <1>3, PositionsKept
     DEF GotoBootloader, StartErase, StartBurn, ModeOrReturn, Goto, Lost, Unacked,
         Succeeds, Fault, WriteMode, boot, locals
<1>4. CASE CheckMode
  BY <1>0, <1>4, PositionsKept
     DEF CheckMode, ReadFails, Return, Goto, Lost, Fault, Settled, boot, locals
<1>5. CASE Reject \/ FinishTransfer \/ Exit
  BY <1>0, <1>5, PositionsKept
     DEF Reject, FinishTransfer, Exit, Goto, Fault, WriteMode, boot, locals
<1>16. CASE Clean
  <2>1. certain' \in BOOLEAN
    <3>1. CASE certain' = certain
      BY Zenon, <1>0, <3>1
    <3>2. CASE certain' = (certain \/ flash = <<>>)
      BY Zenon, <3>2
    <3> QED
      BY Zenon, <1>16, <3>1, <3>2 DEF Clean
  <2>2. /\ pc = "clean" /\ pc' = "open" /\ ring' \in {ring, <<>>} /\ faults' \in 0 .. MaxFaults
        /\ UNCHANGED <<mode, parameter, app, flash, installed, ret, file, target, sent, end, room, retry>>
    BY <1>0, <1>16 DEF Clean, Goto, Fault, boot
  <2> QED
    BY <1>0, <2>1, <2>2, PositionsKept
<1>6. CASE EraseStatus \/ OpenFile
  BY <1>0, <1>6, PositionsKept
     DEF EraseStatus, OpenFile, ReadFails, Return, Goto, Lost, Fault, Settled, boot, locals
<1>7. CASE PollStatus \/ ReadResult
  BY <1>0, <1>7, PositionsKept
     DEF PollStatus, ReadResult, ReadFails, Return, Goto, Lost, Fault, boot, locals
<1>8. CASE ReadParticle
  BY SMTT(30), <1>0, <1>8, SizesAssumption DEF ReadParticle, Goto, Fault, Smaller, boot, TypeInv, TypeOK
<1>9. CASE QueryFree
  BY <1>0, <1>9, SizesAssumption DEF QueryFree, Free, Goto, Succeeds, Lost, Fault, boot, TypeInv, TypeOK
<1>10. CASE WriteChunk
  BY <1>10, ChunkStep
<1>11. CASE Retry
  BY <1>0, <1>11, SizesAssumption DEF Retry, boot, TypeInv, TypeOK
<1>12. CASE McuProgram
  <2>1. ring \in Seq(Nat) /\ ring # <<>> /\ ring' = Tail(ring) /\ flash \in Seq(Nat)
    BY <1>12 DEF McuProgram, TypeInv, TypeOK
  <2>2. ring' \in Seq(Nat) /\ Len(ring') <= Len(ring) /\ Head(ring) \in Nat
    BY ONLY <2>1
  <2>3. flash' \in Seq(Nat)
    <3>1. flash' = flash \/ flash' = Append(flash, Head(ring))
      BY <1>12 DEF McuProgram
    <3>2. Append(flash, Head(ring)) \in Seq(Nat)
      BY Zenon, <2>1, <2>2, AppendProperties
    <3> QED
      BY Zenon, <2>1, <3>1, <3>2
  <2>4. /\ UNCHANGED <<host, file, target, certain, app, installed>>
        /\ mode' \in Modes /\ parameter' \in 0 .. 4 /\ faults' \in 0 .. MaxFaults
    BY <1>0, <1>12 DEF McuProgram, Report, Fault, WriteError
  <2> QED
    BY <2>1, <2>2, <2>3, <2>4, SizesAssumption DEF host, TypeInv, TypeOK
<1>13. CASE McuEnterBoot \/ McuRestart \/ McuExit
  <2>1. target \in 0 .. 4
    BY DEF TypeInv, TypeOK, AppA, AppB
  <2>2. app' \in BOOLEAN
    BY Zenon, <1>13 DEF McuEnterBoot, McuRestart, McuExit
  <2>3. /\ UNCHANGED <<host, file, target, certain, ring, flash, installed, faults>>
        /\ mode' \in Modes /\ parameter' \in 0 .. 4
    BY <1>13, <2>1 DEF McuEnterBoot, McuRestart, McuExit, Report
  <2> QED
    BY <1>0, <2>2, <2>3, PositionsKept DEF host
<1>14. CASE McuErase
  <2>1. flash' \in Seq(Nat)
    BY <1>14 DEF McuErase
  <2>2. installed' \in BOOLEAN
    BY Zenon, <1>14 DEF McuErase
  <2>3. /\ UNCHANGED <<host, file, target, certain, app, ring>>
        /\ mode' \in Modes /\ parameter' \in 0 .. 4 /\ faults' \in 0 .. MaxFaults
    BY <1>0, <1>14 DEF McuErase, Report, Fault, EraseError
  <2> QED
    BY <2>1, <2>2, <2>3 DEF host, TypeInv, TypeOK
<1>15. CASE McuVerify \/ McuTimeout
  <2>1. installed' \in BOOLEAN
    <3>1. CASE McuVerify
      BY Zenon, <3>1 DEF McuVerify
    <3>2. CASE McuTimeout
      BY <1>0, <3>2 DEF McuTimeout
    <3> QED
      BY <1>15, <3>1, <3>2
  <2>2. /\ UNCHANGED <<host, file, target, certain, app, ring, flash>>
        /\ mode' \in Modes /\ parameter' \in 0 .. 4 /\ faults' \in 0 .. MaxFaults
    BY <1>0, <1>15 DEF McuVerify, McuTimeout, Report, Fault, CrcError, TimeoutError
  <2> QED
    BY <1>0, <2>1, <2>2, PositionsKept DEF host
<1> QED
  BY <1>1, <1>2, <1>3, <1>4, <1>5, <1>6, <1>7, <1>8, <1>9, <1>10, <1>11, <1>12, <1>13, <1>14, <1>15,
     <1>16 DEF Next, HostStep, McuStep, Finished

(* Every variable stays in its domain, for every file, capacity, number of *)
(* retries and fault; above all, the ring buffer is never asked to hold    *)
(* more than it can (regwr_cb.c:121).                                      *)
THEOREM BurnTypeCorrect == Spec => []TypeOK
<1>1. Init => TypeInv
  BY TypeInit
<1>2. TypeInv /\ [Next]_vars => TypeInv'
  BY TypeStep
<1>3. TypeInv => TypeOK
  BY DEF TypeInv
<1> QED
  BY <1>1, <1>2, <1>3, PTL DEF Spec

-----------------------------------------------------------------------------
(* A burn only goes forward.  It is in one of the stages, each of which it *)
(* passes once, and the transfer in the stage of that name.                *)
Stage ==
  [info |-> 14, force |-> 14, goto |-> 13, check |-> 12, erase |-> 11, erase_status |-> 10,
   start |-> 9, clean |-> 8, open |-> 7,
   read |-> 6, free |-> 6, chunk |-> 6, poll |-> 6, retry |-> 6,
   finish |-> 3, result |-> 2, exit |-> 1, reject |-> 1, done |-> 0]

(* What the transfer still has to do: the bytes to write, the tries left   *)
(* for this particle, which the next one gets anew, and the place in the   *)
(* loop.                                                                   *)
Bytes == file.size - sent
Tries == IF pc = "read" THEN MaxRetry + 3 ELSE MaxRetry + 2 - retry
Spot == [read |-> 4, free |-> 3, chunk |-> 2, poll |-> 2, retry |-> 1]

Ahead ==
  \/ Stage[pc'] < Stage[pc]
  \/ /\ pc \in InTransfer \cup {"read"} /\ pc' \in InTransfer \cup {"read"}
     /\ Bytes' \in Nat /\ Tries' \in Nat
     /\ \/ Bytes' < Bytes
        \/ Bytes' = Bytes /\ Tries' < Tries
        \/ Bytes' = Bytes /\ Tries' = Tries /\ Spot[pc'] < Spot[pc]

(* While a particle is written, bytes of it are left, and a chunk is only  *)
(* written when there is room.                                             *)
WorkInv ==
  /\ TypeInv
  /\ pc \in InTransfer => sent < end
  /\ pc = "chunk" => room > 0

LEMMA WorkInit == Init => WorkInv
BY TypeInit DEF WorkInv, Init, InTransfer

LEMMA WorkStep == WorkInv /\ [Next]_vars => WorkInv'
<1> SUFFICES ASSUME WorkInv, [Next]_vars PROVE WorkInv'
  OBVIOUS
<1>1. TypeInv /\ TypeInv'
  BY TypeStep DEF WorkInv
<1>2. /\ file.size \in Nat /\ sent \in Nat /\ end \in Nat /\ room \in Nat
      /\ Particle \in Nat \ {0} /\ Len(ring) \in Nat /\ Len(ring) <= Capacity /\ Capacity \in Nat
  BY <1>1, FilesAssumption, SizesAssumption DEF TypeInv, TypeOK
<1>3. CASE pc' \notin InTransfer
  BY <1>1, <1>3 DEF WorkInv, InTransfer
<1>4. CASE ReadParticle
  <2>1. pc' \in {"free", "finish"} /\ sent' = sent
    BY <1>4 DEF ReadParticle, Goto
  <2>2. pc' = "free" => sent < end'
    BY <1>2, <1>4 DEF ReadParticle, Smaller
  <2> QED
    BY <1>1, <2>1, <2>2 DEF WorkInv, InTransfer
<1>5. CASE QueryFree
  <2>1. /\ pc = "free" /\ pc' \in {"chunk", "poll", "retry"} /\ UNCHANGED <<sent, end>>
        /\ pc' = "chunk" => room' = Free /\ Free # 0
    BY <1>5 DEF QueryFree, Goto
  <2>2. Free \in Nat
    BY <1>2 DEF Free
  <2> QED
    BY <1>1, <2>1, <2>2 DEF WorkInv, InTransfer
<1>6. CASE WriteChunk
  <2>1. /\ pc = "chunk" /\ pc' \in {"free", "read", "retry"} /\ end' = end
        /\ pc' = "free" => sent' = ChunkEnd /\ ChunkEnd < end
        /\ pc' = "retry" => sent' = sent
    BY <1>6 DEF WriteChunk, Goto
  <2> QED
    BY <1>1, <2>1 DEF WorkInv, InTransfer
<1>7. CASE PollStatus \/ Retry
  <2>1. /\ pc \in InTransfer /\ pc' # "chunk" /\ UNCHANGED <<sent, end>>
    BY <1>7 DEF PollStatus, Retry, ReadFails, Return, Goto, locals, InTransfer
  <2> QED
    BY <1>1, <2>1 DEF WorkInv
<1>8. CASE UNCHANGED host
  BY <1>1, <1>8 DEF WorkInv, host
<1>9. CASE pc' \in InTransfer
  <2>1. /\ ReadInfo \/ ForcePoll \/ GotoBootloader \/ CheckMode \/ Reject \/ StartErase
             \/ EraseStatus \/ StartBurn \/ Clean \/ OpenFile \/ FinishTransfer \/ ReadResult
             \/ Exit => FALSE
    BY <1>9 DEF ReadInfo, ForcePoll, GotoBootloader, CheckMode, Reject, StartErase,
      EraseStatus, StartBurn, Clean, OpenFile, FinishTransfer, ReadResult, Exit, ReadFails,
      ModeOrReturn, Return, Goto, InTransfer
  <2>2. McuStep \/ McuRestart \/ McuTimeout \/ Finished \/ UNCHANGED vars => UNCHANGED host
    BY DEF McuStep, McuEnterBoot, McuErase, McuProgram, McuVerify, McuExit, McuRestart,
      McuTimeout, Finished, vars, host
  <2> QED
    BY <1>4, <1>5, <1>6, <1>7, <1>8, <2>1, <2>2 DEF Next, HostStep
<1> QED
  BY <1>3, <1>9

LEMMA HostAhead == WorkInv /\ Next /\ host' # host => Ahead
<1> SUFFICES ASSUME WorkInv, Next, host' # host PROVE Ahead
  OBVIOUS
<1>1. TypeInv /\ TypeInv'
  <2>1. TypeInv
    BY DEF WorkInv
  <2> QED
    BY <2>1, TypeStep
<1>2. HostStep
  BY DEF Next, McuStep, McuEnterBoot, McuErase, McuProgram, McuVerify, McuExit, McuRestart,
    McuTimeout, Finished, vars, host
<1>3. /\ file.size \in Nat /\ sent \in Nat /\ end \in Nat /\ room \in Nat
      /\ MaxRetry \in Nat /\ retry \in Nat
  BY <1>1, FilesAssumption, SizesAssumption DEF TypeInv, TypeOK
<1>4. pc' \in InTransfer \cup {"read"} => Bytes' \in Nat /\ Tries' \in Nat
  <2>1. /\ file'.size \in Nat /\ sent' \in Nat /\ sent' <= file'.size /\ retry' \in Nat
        /\ pc' # "done" => retry' <= MaxRetry + 1
    BY <1>1, FilesAssumption, SizesAssumption DEF TypeInv, TypeOK
  <2>2. Bytes' \in Nat
    BY <2>1 DEF Bytes
  <2>3. pc' # "done" => Tries' \in Nat
    <3>1. CASE pc' = "read"
      BY <1>3, <3>1 DEF Tries
    <3>2. CASE pc' # "read"
      <4>1. Tries' = MaxRetry + 2 - retry'
        BY <3>2 DEF Tries
      <4>2. \A n \in Nat : n <= MaxRetry + 1 => MaxRetry + 2 - n \in Nat
        BY <1>3
      <4> QED
        BY <2>1, <4>1, <4>2, Zenon
    <3> QED
      BY <3>1, <3>2
  <2> QED
    BY <2>2, <2>3 DEF InTransfer
<1>5. CASE ReadInfo \/ ForcePoll \/ GotoBootloader \/ CheckMode \/ Reject
  <2>1. \/ pc = "info" /\ pc' \in {"goto", "check", "done"}
        \/ pc = "force" /\ pc' = "check"
        \/ pc = "goto" /\ pc' \in {"check", "done"}
        \/ pc = "check" /\ pc' \in {"reject", "erase", "done"}
        \/ pc = "reject" /\ pc' = "done"
    BY <1>5 DEF ReadInfo, ForcePoll, GotoBootloader, CheckMode, Reject, ModeOrReturn, ReadFails,
      Return, Goto
  <2>2. Stage[pc'] < Stage[pc]
    BY <2>1 DEF Stage
  <2> QED
    BY <2>2 DEF Ahead
<1>6. CASE StartErase \/ EraseStatus \/ StartBurn \/ Clean \/ OpenFile
  <2>1. \/ pc = "erase" /\ pc' \in {"erase_status", "done"}
        \/ pc = "erase_status" /\ pc' \in {"start", "done"}
        \/ pc = "start" /\ pc' \in {"clean", "done"}
        \/ pc = "clean" /\ pc' = "open"
        \/ pc = "open" /\ pc' \in {"read", "done"}
    BY <1>6 DEF StartErase, EraseStatus, StartBurn, Clean, OpenFile, ModeOrReturn, ReadFails,
      Return, Goto
  <2>2. Stage[pc'] < Stage[pc]
    BY <2>1 DEF Stage
  <2> QED
    BY <2>2 DEF Ahead
<1>7. CASE FinishTransfer \/ ReadResult \/ Exit
  <2>1. \/ pc = "finish" /\ pc' = "result"
        \/ pc = "result" /\ pc' \in {"exit", "done"}
        \/ pc = "exit" /\ pc' = "done"
    BY <1>7 DEF FinishTransfer, ReadResult, Exit, ReadFails, Goto
  <2>2. Stage[pc'] < Stage[pc]
    BY <2>1 DEF Stage
  <2> QED
    BY <2>2 DEF Ahead
<1>8. CASE ReadParticle
  <2>1. /\ pc = "read" /\ pc' \in {"free", "finish"} /\ UNCHANGED <<file, sent>>
        /\ pc' = "free" => retry' = 0
    BY <1>8 DEF ReadParticle
  <2>2. CASE pc' = "finish"
    BY <2>1, <2>2 DEF Ahead, Stage
  <2>3. CASE pc' = "free"
    <3>1. Bytes' = Bytes /\ Tries' < Tries
      BY <1>3, <2>1, <2>3 DEF Bytes, Tries
    <3> QED
      BY <1>4, <2>1, <2>3, <3>1 DEF Ahead, InTransfer
  <2> QED
    BY <2>1, <2>2, <2>3
<1>9. CASE QueryFree \/ PollStatus
  <2>1. /\ UNCHANGED <<file, sent, retry>>
        /\ \/ pc = "free" /\ pc' \in {"chunk", "poll", "retry"}
           \/ pc = "poll" /\ pc' \in {"retry", "done"}
    BY <1>9 DEF QueryFree, PollStatus, ReadFails, Return, Goto, locals
  <2>2. CASE pc' = "done"
    BY <2>1, <2>2 DEF Ahead, Stage
  <2>3. CASE pc' # "done"
    <3>1. Bytes' = Bytes /\ Tries' = Tries
      BY <2>1, <2>3 DEF Bytes, Tries
    <3>2. Spot[pc'] < Spot[pc]
      BY <2>1, <2>3 DEF Spot
    <3> QED
      BY <1>4, <2>1, <2>3, <3>1, <3>2 DEF Ahead, InTransfer
  <2> QED
    BY <2>2, <2>3
<1>10. CASE WriteChunk
  <2>1. /\ pc = "chunk" /\ pc' \in {"free", "read", "retry"} /\ UNCHANGED <<file, end, retry>>
        /\ pc' = "retry" => sent' = sent
        /\ pc' # "retry" => sent' = ChunkEnd
    BY <1>10 DEF WriteChunk, Goto
  <2>2. sent < ChunkEnd
    BY <1>3, <2>1 DEF WorkInv, InTransfer, ChunkEnd, Smaller
  <2>3. CASE pc' = "retry"
    <3>1. Bytes' = Bytes /\ Tries' = Tries /\ Spot[pc'] < Spot[pc]
      BY <2>1, <2>3 DEF Bytes, Tries, Spot
    <3> QED
      BY <1>4, <2>1, <2>3, <3>1 DEF Ahead, InTransfer
  <2>4. CASE pc' # "retry"
    <3>1. sent' \in Nat /\ file'.size = file.size /\ sent' > sent
      BY <1>1, <1>3, <2>1, <2>2, <2>4 DEF TypeInv, TypeOK
    <3>2. Bytes' < Bytes
      BY <1>3, <3>1 DEF Bytes
    <3> QED
      BY <1>4, <2>1, <2>4, <3>2 DEF Ahead, InTransfer
  <2> QED
    BY <2>3, <2>4
<1>11. CASE Retry
  <2>1. /\ pc = "retry" /\ pc' \in {"free", "done"} /\ UNCHANGED <<file, sent>>
        /\ retry' = retry + 1
    BY <1>11 DEF Retry
  <2>2. CASE pc' = "done"
    BY <2>1, <2>2 DEF Ahead, Stage
  <2>3. CASE pc' = "free"
    <3>1. Bytes' = Bytes /\ Tries' < Tries
      BY <1>3, <2>1, <2>3 DEF Bytes, Tries
    <3> QED
      BY <1>4, <2>1, <2>3, <3>1 DEF Ahead, InTransfer
  <2> QED
    BY <2>1, <2>2, <2>3
<1> QED
  BY <1>2, <1>5, <1>6, <1>7, <1>8, <1>9, <1>10, <1>11 DEF HostStep

(* The safety part of BurnEnds: every step of the host brings the burn     *)
(* nearer to its end, in the stages, the bytes, the tries of a particle    *)
(* and the place in the loop, which are bounded: no retry goes on for      *)
(* ever, for any file, size, number of retries and fault                   *)
(* (rearview_mcu.c:69-160).  The two waits for the MCU, of the forced burn *)
(* and for the result, are no steps: there the MCU has to move.            *)
BurnGoesForward == [][host' # host => Ahead]_vars

THEOREM EveryStepIsAhead == Spec => BurnGoesForward
<1> DEFINE A == host' # host => Ahead
<1>1. Init => WorkInv
  BY WorkInit
<1>2. WorkInv /\ [Next]_vars => WorkInv'
  BY WorkStep
<1>3. WorkInv /\ [Next]_vars => [A]_vars
  BY HostAhead
<1>4. Spec => [][A]_vars
  <2> HIDE DEF A
  <2> QED
    BY <1>1, <1>2, <1>3, PTL DEF Spec
<1> QED
  BY <1>4 DEF BurnGoesForward

-----------------------------------------------------------------------------
(* The access whose failure _BurnMcu does not tell from success does not   *)
(* fail: the end of the transfer is written.                               *)
Dependable == "finish" \notin Sites

(* The strengthening of SuccessMeansInstalled: which modes the bootloader  *)
(* can be in at each point of the burn, and that its errors have a code.   *)
ResultInv ==
  /\ mode = "BURN_ERROR" => parameter \in 1 .. 4
  /\ mode = "FINISH_BURN" => installed
  /\ mode \in {"WAIT_BURN", "START_ERASE"} => parameter \in {AppA, AppB}
  /\ pc = "erase" => mode = "WAIT_BURN"
  /\ pc = "erase_status" => mode \in {"START_ERASE", "ERASE_OK", "BURN_ERROR"}
  /\ pc \in {"clean", "open", "read", "free", "chunk", "poll", "retry", "finish"}
       => mode \in {"START_BURN", "BURN_ERROR"}
  /\ pc = "poll" => room = 0
  /\ pc = "retry" => ret = -2 \/ (ret = 0 /\ room = 0)
  /\ pc = "result" => mode \in {"FINISH_TRANSFER", "FINISH_BURN", "BURN_ERROR"}
  /\ pc = "exit" => mode = "FINISH_BURN"
  /\ pc = "done" /\ ret = 0
       => \/ installed /\ mode \in {"FINISH_BURN", "EXIT_BURN", "FORBID"}
          \/ GaveUpOnFull /\ mode \in {"START_BURN", "BURN_ERROR"}

(* The bootloader keeps ResultInv.                                         *)
LEMMA ResultMcu ==
  ASSUME TypeInv, ResultInv, McuStep \/ McuRestart \/ McuTimeout
  PROVE  ResultInv'
<1> USE DEF ResultInv, GaveUpOnFull, Report, host
<1>1. CASE McuEnterBoot \/ McuRestart \/ McuExit
  BY <1>1 DEF McuEnterBoot, McuRestart, McuExit, TypeInv, TypeOK
<1>2. CASE McuErase
  BY <1>2 DEF McuErase, EraseError
<1>3. CASE McuProgram
  BY <1>3 DEF McuProgram, WriteError
<1>4. CASE McuVerify
  <2>1. UNCHANGED <<pc, ret>> /\ mode = "FINISH_TRANSFER"
    BY <1>4 DEF McuVerify
  <2>2. CASE installed'
    <3>1. mode' = "FINISH_BURN"
      BY Zenon, <1>4, <2>2 DEF McuVerify
    <3> QED
      BY <2>1, <2>2, <3>1
  <2>3. CASE ~installed'
    <3>1. mode' = "BURN_ERROR" /\ parameter' = 1
      BY Zenon, <1>4, <2>3 DEF McuVerify, CrcError
    <3> QED
      BY <2>1, <3>1
  <2> QED
    BY <2>2, <2>3
<1>5. CASE McuTimeout
  BY <1>5 DEF McuTimeout, TimeoutError
<1> QED
  BY <1>1, <1>2, <1>3, <1>4, <1>5 DEF McuStep

(* Every step keeps ResultInv.                                             *)
LEMMA ResultStep ==
  ASSUME Dependable PROVE TypeInv /\ ResultInv /\ [Next]_vars => ResultInv'
<1> SUFFICES ASSUME Dependable, TypeInv, ResultInv, [Next]_vars PROVE ResultInv'
  OBVIOUS
<1>0. parameter \in 0 .. 4
  BY DEF TypeInv, TypeOK
<1> USE DEF Goto, Return, ReadFails, Lost, Unacked, Fault, WriteMode, boot, locals,
  GaveUpOnFull
<1>1. CASE UNCHANGED vars
  BY <1>1 DEF vars, ResultInv
<1>2. CASE ReadInfo \/ ForcePoll \/ CheckMode
  BY <1>2 DEF ReadInfo, ForcePoll, CheckMode, ResultInv
<1>3. CASE GotoBootloader \/ StartErase \/ StartBurn
  BY <1>3 DEF GotoBootloader, StartErase, StartBurn, ModeOrReturn, ResultInv
<1>4. CASE Reject \/ Clean \/ OpenFile
  BY <1>4 DEF Reject, Clean, OpenFile, ResultInv
<1>5. CASE EraseStatus
  BY <1>0, <1>5 DEF EraseStatus, Settled, ResultInv, AppA, AppB
<1>6. CASE ReadParticle \/ WriteChunk
  BY <1>6 DEF ReadParticle, WriteChunk, Put, ResultInv
<1>13. CASE Retry
  <2>1. retry \in Nat /\ retry <= MaxRetry + 1 /\ MaxRetry \in Nat
    BY <1>13, SizesAssumption DEF Retry, TypeInv, TypeOK
  <2> QED
    BY <1>13, <2>1 DEF Retry, ResultInv
<1>7. CASE QueryFree
  BY <1>7 DEF QueryFree, Succeeds, ResultInv
<1>8. CASE PollStatus
  BY <1>0, <1>8 DEF PollStatus, ResultInv
<1>9. CASE FinishTransfer
  BY <1>9 DEF FinishTransfer, Dependable, ResultInv
<1>10. CASE ReadResult
  BY <1>0, <1>10 DEF ReadResult, ResultInv
<1>11. CASE Exit
  BY <1>11 DEF Exit, ResultInv
<1>12. CASE McuStep \/ McuRestart \/ McuTimeout
  BY <1>12, ResultMcu
<1> QED
  BY <1>1, <1>2, <1>3, <1>4, <1>5, <1>6, <1>7, <1>8, <1>9, <1>10, <1>11, <1>12, <1>13
     DEF Next, HostStep, Finished

(* If the write of FINISH_TRANSFER does not fail, a burn that returns 0    *)
(* has installed firmware that the MCU verified, whatever else fails, or   *)
(* it gave up on a full ring buffer (rearview_mcu.c:69-164).               *)
THEOREM SuccessIsInstalled == ASSUME Dependable PROVE Spec => []SuccessMeansInstalled
<1>1. Init => TypeInv /\ ResultInv
  <2>1. Init => ResultInv
    BY DEF Init, ResultInv
  <2> QED
    BY <2>1, TypeInit
<1>2. (TypeInv /\ ResultInv) /\ [Next]_vars => (TypeInv /\ ResultInv)'
  BY TypeStep, ResultStep
<1>3. ResultInv => SuccessMeansInstalled
  BY DEF ResultInv, SuccessMeansInstalled
<1> QED
  BY <1>1, <1>2, <1>3, PTL DEF Spec

-----------------------------------------------------------------------------
BeforeTransfer ==
  {"info", "force", "goto", "check", "reject", "erase", "erase_status", "start", "clean", "open"}

(* The strengthening of NothingSkippedOrRepeated: nothing is on the way    *)
(* before the transfer.                                                    *)
StreamInv ==
  /\ pc \in BeforeTransfer => sent = 0
  /\ pc \in BeforeTransfer /\ certain => ring = <<>> /\ flash = <<>>
  /\ NothingSkippedOrRepeated

(* The file's bytes up to the position, and the next ones, are the bytes   *)
(* up to the end of the chunk.                                             *)
LEMMA ChunkJoins ==
  ASSUME NEW f \in Files, NEW a \in Nat, NEW b \in Nat, a <= b, b <= f.size
  PROVE  SubSeq(Image(f), 1, a) \o SubSeq(Image(f), a + 1, b) = SubSeq(Image(f), 1, b)
<1>1. f.size \in Nat
  BY FilesAssumption
<1>2. Image(f) \in Seq(Nat) /\ Len(Image(f)) = f.size
  BY <1>1 DEF Image
<1> QED
  BY <1>1, <1>2

(* What the MCU programs moves from the ring buffer to the flash.          *)
LEMMA Moved ==
  ASSUME NEW s \in Seq(Nat), NEW r \in Seq(Nat), r # <<>>
  PROVE  Append(s, Head(r)) \o Tail(r) = s \o r
BY SMTT(30)

(* Three sequences in a row.                                               *)
LEMMA Regroup ==
  ASSUME NEW s \in Seq(Nat), NEW t \in Seq(Nat), NEW u \in Seq(Nat)
  PROVE  s \o (t \o u) = (s \o t) \o u
BY SMTT(60)

(* Before the transfer, a step that puts nothing into the ring buffer or   *)
(* the flash keeps StreamInv.                                              *)
LEMMA NothingYet ==
  ASSUME StreamInv, pc \in BeforeTransfer,
         ring' \in {ring, <<>>}, flash' \in {flash, <<>>}, UNCHANGED <<sent, file>>,
         certain' => certain \/ (ring' = <<>> /\ flash' = <<>>),
         file.size \in Nat
  PROVE  StreamInv'
<1>1. SUFFICES ASSUME certain'
               PROVE  ring' = <<>> /\ flash' = <<>> /\ sent' = 0
                      /\ flash' \o ring' = SubSeq(Image(file'), 1, sent')
  BY DEF StreamInv, NothingSkippedOrRepeated
<1>2. ring' = <<>> /\ flash' = <<>> /\ sent' = 0 /\ file'.size \in Nat
  BY <1>1 DEF StreamInv
<1>3. SubSeq(Image(file'), 1, 0) = <<>>
  BY <1>2 DEF Image
<1> QED
  BY <1>2, <1>3

(* A step that leaves the bytes and the position alone keeps StreamInv if  *)
(* it neither goes back before the transfer nor sets a mode of it.         *)
LEMMA SameBytes ==
  ASSUME StreamInv, UNCHANGED <<ring, flash, sent, file, certain>>,
         pc' \in BeforeTransfer => pc \in BeforeTransfer,
         Transferring' => Transferring
  PROVE  StreamInv'
BY DEF StreamInv, NothingSkippedOrRepeated

(* A chunk written is added to what the MCU has and to the position alike. *)
LEMMA ChunkStream ==
  ASSUME TypeInv, StreamInv, WriteChunk PROVE StreamInv'
<1>1. pc = "chunk" /\ pc' \in {"free", "read", "retry"} /\ UNCHANGED <<file, flash, mode>>
  BY DEF WriteChunk, Goto, Lost, Put, boot
<1>2. /\ file \in Files /\ file.size \in Nat
      /\ sent \in Nat /\ end \in Nat /\ room \in Nat
      /\ sent <= end /\ end <= file.size
      /\ ring \in Seq(Nat) /\ flash \in Seq(Nat)
  BY <1>1, FilesAssumption DEF TypeInv, TypeOK, InTransfer
<1>3. ChunkEnd \in Nat /\ sent <= ChunkEnd /\ ChunkEnd <= file.size
  BY <1>2 DEF ChunkEnd, Smaller
<1>4. CASE Lost("chunk") /\ UNCHANGED <<sent, certain>>
  <2>1. UNCHANGED ring
    BY <1>4 DEF Lost, boot
  <2> QED
    BY <1>1, <1>4, <2>1, SameBytes DEF BeforeTransfer, Transferring
<1>5. CASE Put /\ sent' = ChunkEnd /\ UNCHANGED certain
  <2>1. SUFFICES ASSUME Transferring, certain
                 PROVE  flash \o ring' = SubSeq(Image(file), 1, ChunkEnd)
    BY <1>1, <1>5 DEF StreamInv, NothingSkippedOrRepeated, Transferring, BeforeTransfer
  <2> DEFINE chunk == SubSeq(Image(file), sent + 1, ChunkEnd)
             before == SubSeq(Image(file), 1, sent)
  <2>2. chunk \in Seq(Nat)
    BY <1>2, <1>3, ChunkType
  <2>3. ring' = ring \o chunk
    BY <1>5 DEF Put
  <2>4. flash \o ring = before
    BY <2>1 DEF StreamInv, NothingSkippedOrRepeated
  <2>5. before \o chunk = SubSeq(Image(file), 1, ChunkEnd)
    BY <1>2, <1>3, ChunkJoins
  <2> HIDE DEF chunk, before
  <2>6. flash \o (ring \o chunk) = (flash \o ring) \o chunk
    BY ONLY <1>2, <2>2, Regroup
  <2> QED
    BY <2>3, <2>4, <2>5, <2>6
<1>6. CASE certain' = FALSE
  BY <1>1, <1>6 DEF StreamInv, NothingSkippedOrRepeated, BeforeTransfer
<1> QED
  BY <1>4, <1>5, <1>6 DEF WriteChunk

(* Every step keeps StreamInv.                                             *)
LEMMA StreamStep ==
  TypeInv /\ StreamInv /\ [Next]_vars => StreamInv'
<1> SUFFICES ASSUME TypeInv, StreamInv, [Next]_vars PROVE StreamInv'
  OBVIOUS
<1>0. /\ file \in Files /\ file.size \in Nat
      /\ ring \in Seq(Nat) /\ flash \in Seq(Nat)
  BY FilesAssumption DEF TypeInv, TypeOK
<1> USE DEF Goto, Return, ReadFails, Lost, Unacked, WriteMode, boot, locals
<1>1. CASE UNCHANGED vars
  BY <1>1, SameBytes DEF vars, Transferring
<1>2. CASE ReadInfo \/ ForcePoll \/ CheckMode \/ EraseStatus
  BY <1>0, <1>2, NothingYet DEF ReadInfo, ForcePoll, CheckMode, EraseStatus, BeforeTransfer
<1>3. CASE GotoBootloader \/ StartErase \/ StartBurn
  BY <1>0, <1>3, NothingYet DEF GotoBootloader, StartErase, StartBurn, ModeOrReturn, BeforeTransfer
<1>4. CASE Reject \/ OpenFile
  BY <1>0, <1>4, NothingYet DEF Reject, OpenFile, BeforeTransfer
<1>11. CASE Clean
  <2>1. /\ pc = "clean" /\ UNCHANGED <<sent, file, flash>> /\ ring' \in {ring, <<>>}
        /\ \/ ring' = <<>> /\ certain' = (certain \/ flash = <<>>)
           \/ UNCHANGED <<ring, certain>>
    BY <1>11 DEF Clean
  <2>2. certain' => certain \/ (ring' = <<>> /\ flash' = <<>>)
    <3>1. CASE ring' = <<>> /\ certain' = (certain \/ flash = <<>>)
      BY Zenon, <2>1, <3>1
    <3>2. CASE UNCHANGED certain
      BY Zenon, <3>2
    <3> QED
      BY Zenon, <2>1, <3>1, <3>2
  <2> QED
    BY <1>0, <2>1, <2>2, NothingYet DEF BeforeTransfer
<1>5. CASE ReadParticle \/ QueryFree \/ PollStatus \/ Retry
  BY <1>5, SameBytes
     DEF ReadParticle, QueryFree, PollStatus, Retry, Transferring, BeforeTransfer
<1>6. CASE WriteChunk
  BY <1>6, ChunkStream
<1>7. CASE FinishTransfer \/ ReadResult \/ Exit
  BY <1>7, SameBytes DEF FinishTransfer, ReadResult, Exit, Transferring, BeforeTransfer
<1>8. CASE McuEnterBoot \/ McuRestart \/ McuExit \/ McuVerify \/ McuTimeout
  <2>1. UNCHANGED <<pc, file, sent, ring, flash, certain>>
    BY <1>8 DEF McuEnterBoot, McuRestart, McuExit, McuVerify, McuTimeout, host
  <2>2. mode' \notin {"START_BURN", "FINISH_TRANSFER"}
    BY <1>8 DEF McuEnterBoot, McuRestart, McuExit, McuVerify, McuTimeout, Report
  <2> QED
    BY <2>1, <2>2, SameBytes DEF Transferring
<1>9. CASE McuErase
  <2>1. /\ UNCHANGED <<pc, file, sent, ring, certain>> /\ flash' = <<>>
        /\ mode' \notin {"START_BURN", "FINISH_TRANSFER"}
    BY <1>9 DEF McuErase, Report, host
  <2> QED
    BY <2>1 DEF StreamInv, NothingSkippedOrRepeated, Transferring
<1>10. CASE McuProgram
  <2>1. /\ UNCHANGED <<pc, file, sent>> /\ ring # <<>> /\ ring' = Tail(ring)
        /\ mode \in {"START_BURN", "FINISH_TRANSFER"}
    BY <1>10 DEF McuProgram, host
  <2>2. certain' = certain /\ (certain => pc \notin BeforeTransfer)
    BY <1>10, <2>1 DEF McuProgram, StreamInv
  <2>3. CASE flash' = Append(flash, Head(ring)) /\ UNCHANGED mode
    <3>1. flash' \o ring' = flash \o ring
      BY <1>0, <2>1, <2>3, Moved
    <3> QED
      BY <2>1, <2>2, <2>3, <3>1 DEF StreamInv, NothingSkippedOrRepeated, Transferring
  <2>4. CASE mode' = "BURN_ERROR"
    BY <2>1, <2>2, <2>4 DEF StreamInv, NothingSkippedOrRepeated, Transferring
  <2> QED
    BY <1>10, <2>3, <2>4 DEF McuProgram, Report
<1> QED
  BY <1>1, <1>2, <1>3, <1>4, <1>5, <1>6, <1>7, <1>8, <1>9, <1>10, <1>11
     DEF Next, HostStep, McuStep, Finished

(* The MCU has received exactly what RegWrCb_Write reported as written,    *)
(* for every file, particle, capacity, number of retries and fault, and    *)
(* however the chunks are cut and retried, unless a chunk was written and  *)
(* reported as failed or bytes of an earlier burn got in                   *)
(* (rearview_mcu.c:101, 115-135).                                          *)
THEOREM StreamIsExact == Spec => []NothingSkippedOrRepeated
<1>1. Init => TypeInv /\ StreamInv
  <2>1. Init => StreamInv
    BY DEF Init, StreamInv, BeforeTransfer, NothingSkippedOrRepeated, Transferring
  <2> QED
    BY <2>1, TypeInit
<1>2. (TypeInv /\ StreamInv) /\ [Next]_vars => (TypeInv /\ StreamInv)'
  BY TypeStep, StreamStep
<1>3. StreamInv => NothingSkippedOrRepeated
  BY DEF StreamInv
<1> QED
  BY <1>1, <1>2, <1>3, PTL DEF Spec
=============================================================================
