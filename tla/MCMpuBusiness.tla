--------------------------- MODULE MCMpuBusiness ---------------------------
(* Instance of MpuBusiness for TLC: one process that runs one of the       *)
(* services, and a second one that feeds or runs a service that may        *)
(* interfere.                                                              *)
EXTENDS MpuBusiness

CONSTANTS p, q

DtcJob(s, c) == [op |-> "dtc", set |-> s, clean |-> c]
NvmJob(i) == [op |-> "nvm", index |-> i]
SettingJob(w, v) == [op |-> "setting", which |-> w, value |-> v]
WdogJob(b) == [op |-> "wdog", on |-> b]
Online == [op |-> "online"]
Reset1 == [op |-> "reset"]
GotoBoot == [op |-> "goto"]
ExitBoot == [op |-> "exit"]

(* One service of each kind; set and clean of the same fault, of faults in *)
(* the mask and of one outside it.                                         *)
WithFeeder ==
  {Online, Reset1, GotoBoot, ExitBoot, NvmJob(1), WdogJob(TRUE), SettingJob("mirror", 5),
   SettingJob("level", 5), DtcJob(1, 2), DtcJob(2, 0), DtcJob(0, 1), DtcJob(3, 1), DtcJob(1, 1)}

(* Two services that touch the same registers.                             *)
Rivals ==
  {<<DtcJob(1, 0), DtcJob(2, 0)>>, <<DtcJob(1, 2), DtcJob(2, 1)>>, <<DtcJob(1, 0), Reset1>>,
   <<DtcJob(0, 2), GotoBoot>>, <<NvmJob(1), NvmJob(2)>>, <<NvmJob(1), Reset1>>,
   <<GotoBoot, ExitBoot>>, <<GotoBoot, GotoBoot>>, <<ExitBoot, Reset1>>,
   <<WdogJob(TRUE), WdogJob(FALSE)>>}

PairJobs ==
  {[x \in Process |-> IF x = p THEN Online ELSE j] : j \in WithFeeder}
    \cup {[x \in Process |-> IF x = p THEN pair[1] ELSE pair[2]] : pair \in Rivals}

AnyMcu ==
  [cnt : 0 .. Byte - 1, wdog : {FALSE}, dtc : {{}, Dtc}, nvm : {0, 2},
   setting : {[s \in Setting |-> 0]}, app : BOOLEAN, mode : {"none"}, online : {FALSE}]
=============================================================================
