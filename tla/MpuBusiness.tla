---------------------------- MODULE MpuBusiness ----------------------------
(***************************************************************************)
(* The MCU's business registers and the services that use them: watchdog   *)
(* counter, fault map, NVM command, settings and the switch between        *)
(* application and bootloader (src/src/rearview_mcu.c:327-506 and          *)
(* src/src/run.c:289-350, 456-505).  Each process runs one of them, as the *)
(* program does; the bus lock makes one access atomic, not a service.      *)
(*                                                                         *)
(* The MCU is external: what it does with the registers is taken from      *)
(* src/src/include/mcu-reg/mpu-business.h and the comments in the services.*)
(***************************************************************************)
EXTENDS Integers, FiniteSets

CONSTANTS
  Process,    \* the processes
  Jobs,       \* the services they may run: functions to JobType
  InitMcu,    \* states the MCU may be in when the processes start
  Byte,       \* 2^8: the watchdog counter and the mirror type are bytes
  NDtc,       \* fault numbers are 1 .. NDtc
  Mask,       \* the faults the MPU may change, MPU_DTC_MAP_MASK
  MaxSetting, \* bound: values of the settings
  Sites,      \* the accesses that may fail
  Faults,     \* "lost" (without effect) and "unacked" (failed, but done)
  MaxFaults,  \* bound: failing accesses in a behaviour
  MaxEvents   \* bound: offline timeouts of the MCU in a behaviour

Sentinel == Byte - 1       \* 0xff: last_cnt has not been read yet
Dtc == 1 .. NDtc
NvmCommand == 1 .. 2       \* MNES_ERASE_DTC, MNES_ERASE_USER

(* is_left_rearview, mcu_debug_level, mpu_supply_voltage, shanqi_data and  *)
(* shanqi_app_msg_cmd_sta                                                  *)
Setting == {"mirror", "level", "voltage", "date", "message"}

JobType ==
  [op : {"online"}] \cup [op : {"reset"}] \cup [op : {"goto", "exit"}]
    \cup [op : {"dtc"}, set : 0 .. NDtc, clean : 0 .. NDtc]
    \cup [op : {"nvm"}, index : NvmCommand]
    \cup [op : {"wdog"}, on : BOOLEAN]
    \cup [op : {"setting"}, which : Setting, value : 0 .. MaxSetting]

McuType ==
  [cnt : 0 .. Byte - 1, wdog : BOOLEAN, dtc : SUBSET Dtc, nvm : {0} \cup NvmCommand,
   setting : [Setting -> 0 .. MaxSetting], app : BOOLEAN, mode : {"none", "goto", "exit"},
   online : BOOLEAN]

AllSites ==
  {"feed_read", "feed", "cfg_read", "cfg_feed", "cfg_write", "dtc_read",
   "dtc_write", "nvm_read", "nvm_write", "setting", "reset", "info", "mode"}

ASSUME MpuAssumption ==
  /\ Jobs \subseteq [Process -> JobType]
  /\ \A m \in InitMcu : m \in McuType /\ m.mode = "none" /\ m.setting["mirror"] < Byte
  /\ Byte \in Nat \ {0, 1} /\ NDtc \in Nat /\ MaxSetting \in Nat
  /\ Mask \subseteq Dtc
  /\ Sites \subseteq AllSites /\ Faults \subseteq {"lost", "unacked"}
  /\ MaxFaults \in Nat /\ MaxEvents \in Nat

VARIABLES
  mcu,     \* the registers, and what the MCU makes of them: online
  job,     \* job[p]: the service p runs
  pc,      \* pc[p]: its next access, or "done"
  last,    \* last[p]: the static last_cnt of RVMcu_WdogFeed
  local,   \* local[p]: the counter or the fault map p has read
  ret,     \* ret[p]: result of the service
  heard,   \* heard[p]: the MCU took p for online when p wrote its fault map
  unseen,  \* unseen[p]: what happened to p's service that p does not notice
  faults, events

vars == <<mcu, job, pc, last, local, ret, heard, unseen, faults, events>>

(* Its own access failed; the counter was changed by another or the MCU    *)
(* restarted; another process was between the read and the write of the    *)
(* same fault map or NVM command.                                          *)
Unseen == {"feed_read", "feed", "counter", "restart", "map", "command"}

First(j) ==
  CASE j.op = "online" -> "feed_read"
    [] j.op = "dtc" -> IF j.set = j.clean THEN "done" ELSE "dtc_read"
    [] j.op = "nvm" -> "nvm_read"
    [] j.op = "wdog" -> "cfg_read"
    [] j.op = "setting" -> "setting"
    [] j.op = "reset" -> "reset"
    [] j.op \in {"goto", "exit"} -> "info"

Init ==
  /\ mcu \in InitMcu
  /\ job \in Jobs
  /\ pc = [p \in Process |-> First(job[p])]
  /\ last = [p \in Process |-> Sentinel]
  /\ local = [p \in Process |-> [cnt |-> 0, dtc |-> {}]]
  /\ ret = [p \in Process |-> 0]
  /\ heard = [p \in Process |-> FALSE]
  /\ unseen = [p \in Process |-> {}]
  /\ faults = 0 /\ events = 0

Next8(v) == (v + 1) % Byte

Goto(p, from, to) == pc[p] = from /\ pc' = [pc EXCEPT ![p] = to]

Fails(site, kind) ==
  site \in Sites /\ kind \in Faults /\ faults < MaxFaults /\ faults' = faults + 1

(* A register write that makes the MCU's state m and returns code          *)
Write(site, m, code) ==
  \/ code = 0 /\ mcu' = m /\ UNCHANGED faults
  \/ code = -2 /\ Fails(site, "lost") /\ UNCHANGED mcu
  \/ code = -2 /\ Fails(site, "unacked") /\ mcu' = m

Note(p, what) == unseen' = [unseen EXCEPT ![p] = @ \cup what]

NoteOthers(p, what) ==
  unseen' = [q \in Process |-> IF q = p THEN unseen[q] ELSE unseen[q] \cup what]

(* p and each process of the group did a thing at the same time.           *)
NoteAll(p, group, what) ==
  unseen' = [q \in Process |-> IF q \in group \/ (q = p /\ group # {})
                                THEN unseen[q] \cup what ELSE unseen[q]]

(* The MCU notices that the counter changes.                               *)
Fed(v) == [mcu EXCEPT !.cnt = v, !.online = @ \/ v # mcu.cnt]

-----------------------------------------------------------------------------
(* RVMcu_WdogFeed.  The result of the read is not looked at.               *)

(* Mutant: what was read is written back.                                  *)
FirstCountSame(c) == c

FirstCount(c) == Next8(c)

FeedRead(p) ==
  /\ last[p] = Sentinel
  /\ Goto(p, "feed_read", "feed")
  /\ \/ last' = [last EXCEPT ![p] = FirstCount(mcu.cnt)] /\ UNCHANGED faults
        /\ unseen' = [unseen EXCEPT ![p] = @ \ {"counter"}]
     \/ /\ last' = [last EXCEPT ![p] = Next8(Sentinel)]
        /\ Fails("feed_read", "lost") /\ Note(p, {"feed_read"})
  /\ UNCHANGED <<mcu, job, local, ret, heard, events>>

AfterFeed(p) == IF job[p].op = "online" THEN "feed_read" ELSE "dtc_write"

(* Mutant: the counter is not advanced after a write.                      *)
FollowingSame(v) == v

Following(v) == Next8(v)

(* Also last_cnt of a write that failed is used up.                        *)
Feed(p) ==
  /\ pc[p] = "feed" \/ (pc[p] = "feed_read" /\ last[p] # Sentinel)
  /\ pc' = [pc EXCEPT ![p] = AfterFeed(p)]
  /\ \E code \in {0, -2} :
       /\ Write("feed", Fed(last[p]), code)
       /\ unseen' = [q \in Process |->
            IF q # p THEN unseen[q] \cup {"counter"}
            ELSE IF code # 0 THEN unseen[p] \cup {"feed"}
            ELSE IF job[p].op = "online" THEN unseen[p] \ {"counter", "feed_read"}
            ELSE unseen[p]]
  /\ last' = [last EXCEPT ![p] = Following(last[p])]
  /\ UNCHANGED <<job, local, ret, heard, events>>

-----------------------------------------------------------------------------
(* RVMcu_WdogConfig: feed, then write the state; only the last result is   *)
(* returned.                                                               *)

ConfigRead(p) ==
  /\ Goto(p, "cfg_read", "cfg_feed")
  /\ \/ local' = [local EXCEPT ![p].cnt = Next8(mcu.cnt)] /\ UNCHANGED faults
     \/ local' = [local EXCEPT ![p].cnt = 1] /\ Fails("cfg_read", "lost")
  /\ UNCHANGED <<mcu, job, last, ret, heard, unseen, events>>

ConfigFeed(p) ==
  /\ Goto(p, "cfg_feed", "cfg_write")
  /\ \E code \in {0, -2} : Write("cfg_feed", Fed(local[p].cnt), code)
  /\ NoteOthers(p, {"counter"})
  /\ UNCHANGED <<job, last, local, ret, heard, events>>

(* The last write of a service, which returns what the write does, or bad  *)
(* if it fails.                                                            *)
FinalWrite(p, site, m, bad) ==
  /\ Goto(p, site, "done")
  /\ \E code \in {0, -2} :
       Write(site, m, code) /\ ret' = [ret EXCEPT ![p] = IF code < 0 THEN bad ELSE 0]
  /\ UNCHANGED <<job, last, local, events>>

ConfigWrite(p) ==
  FinalWrite(p, "cfg_write", [mcu EXCEPT !.wdog = job[p].on], -2) /\ UNCHANGED <<heard, unseen>>

-----------------------------------------------------------------------------
(* fun_set_or_clean_mpu_dtc: read the map, change it, feed, write it back. *)

ReadFails(p, site, code) ==
  /\ Goto(p, site, "done")
  /\ Fails(site, "lost")
  /\ ret' = [ret EXCEPT ![p] = code]
  /\ UNCHANGED local

(* Mutant: fault n is bit n.                                               *)
ChangedOffByOne(map, j) ==
  (map \cup ({j.set + 1} \cap Mask)) \ ({j.clean + 1} \cap Mask)

(* Mutant: the map is made from nothing.                                   *)
ChangedFresh(map, j) == ({j.set} \cap Mask) \ {j.clean}

Changed(map, j) == (map \cup ({j.set} \cap Mask)) \ ({j.clean} \cap Mask)

ChangingMap(p) == job[p].op = "dtc" /\ pc[p] \in {"feed_read", "feed", "dtc_write"}

DtcRead(p) ==
  /\ \/ /\ Goto(p, "dtc_read", "feed_read")
        /\ local' = [local EXCEPT ![p].dtc = Changed(mcu.dtc, job[p])]
        /\ NoteAll(p, {q \in Process : ChangingMap(q)}, {"map"})
        /\ UNCHANGED <<ret, faults>>
     \/ ReadFails(p, "dtc_read", -1) /\ UNCHANGED unseen
  /\ UNCHANGED <<mcu, job, last, heard, events>>

DtcWrite(p) ==
  /\ FinalWrite(p, "dtc_write", [mcu EXCEPT !.dtc = local[p].dtc], -1)
  /\ heard' = [heard EXCEPT ![p] = mcu.online]
  /\ UNCHANGED unseen

-----------------------------------------------------------------------------
(* RVMcu_CleanNvm: only an idle command register is written.               *)

(* Mutant: the command register is not looked at.                          *)
NvmReadBlind(p) ==
  /\ Goto(p, "nvm_read", "nvm_write")
  /\ UNCHANGED <<mcu, job, last, local, ret, heard, unseen, faults, events>>

NvmRead(p) ==
  /\ \/ /\ mcu.nvm = 0
        /\ Goto(p, "nvm_read", "nvm_write")
        /\ NoteAll(p, {q \in Process : pc[q] = "nvm_write"}, {"command"})
        /\ UNCHANGED <<ret, local, faults>>
     \/ /\ mcu.nvm # 0
        /\ Goto(p, "nvm_read", "done")
        /\ ret' = [ret EXCEPT ![p] = -4]
        /\ UNCHANGED <<local, unseen, faults>>
     \/ ReadFails(p, "nvm_read", -2) /\ UNCHANGED unseen
  /\ UNCHANGED <<mcu, job, last, heard, events>>

NvmWrite(p) ==
  FinalWrite(p, "nvm_write", [mcu EXCEPT !.nvm = job[p].index], -2)
  /\ UNCHANGED <<heard, unseen>>

-----------------------------------------------------------------------------

(* RVMcu_SetRearviewType cuts its int to a byte; the others have the width *)
(* of their registers.                                                     *)
Stored(which, v) == IF which = "mirror" THEN v % Byte ELSE v

(* RVMcu_SetRearviewType, _SetMcuDbgLevel, _SetSupplyVoltage,              *)
(* _ShanQiProductionDate and _ShanQiCmsMsgSet                              *)
WriteSetting(p) ==
  /\ FinalWrite(p, "setting",
       [mcu EXCEPT !.setting[job[p].which] = Stored(job[p].which, job[p].value)], -2)
  /\ UNCHANGED <<heard, unseen>>

(* A restart of the MCU: its registers start from zero, settings stay.     *)
Restarted(app) ==
  [mcu EXCEPT !.cnt = 0, !.dtc = {}, !.nvm = 0, !.mode = "none", !.app = app,
              !.online = FALSE]

AllNote(what) == unseen' = [p \in Process |-> unseen[p] \cup what]

(* RVMcu_McuReset                                                          *)
Reset(p) ==
  /\ FinalWrite(p, "reset", Restarted(TRUE), -2)
  /\ AllNote({"restart", "counter"})
  /\ UNCHANGED heard

(* fun_goto_bootloader and fun_exit_bootloader: nothing to do if the MCU   *)
(* is there already.                                                       *)
ReadInfo(p) ==
  /\ \/ /\ Goto(p, "info", IF mcu.app = (job[p].op = "goto") THEN "mode" ELSE "done")
        /\ UNCHANGED <<ret, local, faults>>
     \/ ReadFails(p, "info", -1)
  /\ UNCHANGED <<mcu, job, last, heard, unseen, events>>

SetMode(p) ==
  FinalWrite(p, "mode", [mcu EXCEPT !.mode = job[p].op], -2) /\ UNCHANGED <<heard, unseen>>

-----------------------------------------------------------------------------
(* The MCU.                                                                *)

McuNvmDone ==
  /\ mcu.nvm # 0
  /\ mcu' = [mcu EXCEPT !.nvm = 0]
  /\ UNCHANGED <<job, pc, last, local, ret, heard, unseen, faults, events>>

McuSwitch ==
  /\ mcu.mode # "none"
  /\ mcu' = Restarted(mcu.mode = "exit")
  /\ AllNote({"restart", "counter"})
  /\ UNCHANGED <<job, pc, last, local, ret, heard, faults, events>>

(* No change of the counter for a while, which is longer than a process    *)
(* needs to feed and to write its fault map.                               *)
McuOffline ==
  /\ mcu.online
  /\ \A p \in Process : job[p].op = "dtc" => pc[p] \notin {"feed", "dtc_write"}
  /\ events < MaxEvents
  /\ events' = events + 1
  /\ mcu' = [mcu EXCEPT !.online = FALSE]
  /\ UNCHANGED <<job, pc, last, local, ret, heard, unseen, faults>>

Step(p) ==
  \/ FeedRead(p) \/ Feed(p)
  \/ ConfigRead(p) \/ ConfigFeed(p) \/ ConfigWrite(p)
  \/ DtcRead(p) \/ DtcWrite(p)
  \/ NvmRead(p) \/ NvmWrite(p)
  \/ WriteSetting(p) \/ Reset(p)
  \/ ReadInfo(p) \/ SetMode(p)

Next == (\E p \in Process : Step(p)) \/ McuNvmDone \/ McuSwitch \/ McuOffline

(* A process that runs goes on running.                                    *)
Spec == Init /\ [][Next]_vars
FairSpec == Spec /\ \A p \in Process : WF_vars(Step(p))

-----------------------------------------------------------------------------
MpuTypeOK ==
  /\ mcu \in McuType /\ mcu.setting["mirror"] < Byte
  /\ job \in Jobs
  /\ pc \in [Process -> AllSites \cup {"done"}]
  /\ last \in [Process -> 0 .. Byte - 1]
  /\ local \in [Process -> [cnt : 0 .. Byte - 1, dtc : SUBSET Dtc]]
  /\ ret \in [Process -> {0, -1, -2, -4}]
  /\ heard \in [Process -> BOOLEAN]
  /\ unseen \in [Process -> SUBSET Unseen]

(* A feed that is acknowledged changes the counter, which is how the MCU   *)
(* knows that the MPU is online ("++ when online", mpu-business.h:42),     *)
(* also when last_cnt comes around to its sentinel, and after feeds that   *)
(* failed.  It may not only when the first read failed (its result is not  *)
(* looked at), or after another process or a restart changed the counter;  *)
(* and then just once.                                                     *)
FeedMoves ==
  [][\A p \in Process :
       /\ last[p]' # last[p] /\ pc'[p] = AfterFeed(p) /\ faults' = faults
       /\ unseen[p] \cap {"feed_read", "counter"} = {}
       => mcu'.cnt # mcu.cnt]_vars

(* The counter never stops for good while a process keeps feeding, with    *)
(* other feeders, services, failures and resets in between.                *)
CounterKeepsMoving ==
  (\E p \in Process : job[p].op = "online")
    => \A v \in 0 .. Byte - 1 : []<>(mcu.cnt # v)

DtcAcked(p) ==
  job[p].op = "dtc" /\ job[p].set # job[p].clean /\ pc[p] = "done" /\ ret[p] = 0

(* A fault map that was written (result 0) was written to an MCU that      *)
(* takes the MPU for online, "otherwise the MCU will not handle the DTC"   *)
(* (run.c:309), unless the feed before it failed unnoticed or the MCU      *)
(* restarted: another feeder in between does no harm.                      *)
DtcHeard ==
  \A p \in Process :
    DtcAcked(p) /\ unseen[p] \cap {"feed_read", "feed", "restart"} = {} => heard[p]

Others(p) == {q \in Process \ {p} : job[q].op = "dtc"}

(* A fault of the mask set with result 0 is set from then on, and one      *)
(* cleaned is clean, unless another process was told the opposite, was     *)
(* changing the map at the same time (run.c:297), or the MCU restarted.    *)
AckedDtcSticks ==
  \A p \in Process : DtcAcked(p) /\ unseen[p] \cap {"map", "restart"} = {} =>
    /\ job[p].set \in Mask /\ (\A q \in Others(p) : job[q].clean # job[p].set)
         => job[p].set \in mcu.dtc
    /\ job[p].clean \in Mask /\ (\A q \in Others(p) : job[q].set # job[p].clean)
         => job[p].clean \notin mcu.dtc

(* A fault that no process was told to change changes only if the MCU      *)
(* restarts, or by a map read before a restart or before another change.   *)
OtherDtcUntouched ==
  [][\A f \in Dtc :
       (f \in mcu.dtc) # (f \in mcu'.dtc) =>
         \/ mcu' = Restarted(mcu'.app)
         \/ \E p \in Process : pc[p] = "dtc_write" /\ unseen[p] \cap {"map", "restart"} # {}
         \/ f \in Mask /\ \E p \in Process : job[p].op = "dtc" /\ f \in {job[p].set, job[p].clean}]_vars

(* A command given to the NVM is finished before the next is written: -4   *)
(* means busy (rearview_mcu.c:396), 0 means that the register may be       *)
(* written (mpu-business.h:51).  Only two cleaners that both find the      *)
(* register idle replace a command.                                        *)
NvmNotReplaced ==
  [][mcu.nvm # 0 /\ mcu'.nvm # mcu.nvm =>
       \/ mcu'.nvm = 0
       \/ \E p \in Process : pc[p] = "nvm_write" /\ "command" \in unseen[p]]_vars
=============================================================================
