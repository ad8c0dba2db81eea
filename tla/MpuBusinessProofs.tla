------------------------- MODULE MpuBusinessProofs -------------------------
(***************************************************************************)
(* Proofs about the MCU's services: for every number of processes, every   *)
(* mix of services, every width of the counter and every set of faults.    *)
(***************************************************************************)
EXTENDS MpuBusiness, TLAPS

-----------------------------------------------------------------------------
(* The counter is a byte: arithmetic modulo its width.                     *)

LEMMA ModRange ==
  ASSUME NEW n \in Nat \ {0}, NEW a \in Nat
  PROVE  a % n \in 0 .. n - 1
OBVIOUS

LEMMA ModSmall ==
  ASSUME NEW n \in Nat \ {0}, NEW a \in 0 .. n - 1
  PROVE  a % n = a
OBVIOUS

(* A counter that has passed its width once starts again.                  *)
LEMMA ModTurn ==
  ASSUME NEW n \in Nat \ {0}, NEW a \in Nat, a >= n, a < 2 * n
  PROVE  a % n = a - n
<1> DEFINE q == a \div n
           r == a % n
<1>1. q \in Nat /\ r \in 0 .. n - 1 /\ a = n * q + r OBVIOUS
<1> HIDE DEF q, r
<1>2. q # 0 BY <1>1
<1>3. ~ q >= 2
  <2> SUFFICES ASSUME q >= 2 PROVE FALSE OBVIOUS
  <2>1. PICK d \in Nat : q = 2 + d
    <3>1. q - 2 \in Nat /\ q = 2 + (q - 2) BY <1>1
    <3> QED BY <3>1
  <2>2. n * q = 2 * n + n * d /\ n * d \in Nat BY <2>1
  <2> QED BY <1>1, <2>2
<1>4. q = 1 BY <1>1, <1>2, <1>3
<1>5. r = a - n BY <1>1, <1>4
<1> QED BY <1>5 DEF r

(* Counting on from a cut value is counting on and then cutting.           *)
LEMMA ModNext ==
  ASSUME NEW n \in Nat \ {0}, NEW a \in Nat, a < 2 * n - 1
  PROVE  ((a % n) + 1) % n = (a + 1) % n
<1> DEFINE b == a + 1
<1>1. CASE a < n BY <1>1, ModSmall
<1>2. CASE a >= n
  <2>1. a < 2 * n /\ b \in Nat /\ b >= n /\ b < 2 * n BY <1>2
  <2> HIDE DEF b
  <2>2. a % n = a - n BY <1>2, <2>1, ModTurn, Zenon
  <2>3. b % n = b - n BY <2>1, ModTurn, Zenon
  <2>4. (a - n + 1) % n = a - n + 1 BY <1>2, ModSmall
  <2> QED BY <2>2, <2>3, <2>4 DEF b
<1> QED BY <1>1, <1>2

(* Less than a turn further on, the counter has another value.             *)
LEMMA ModMoves ==
  ASSUME NEW n \in Nat \ {0}, NEW c \in 0 .. n - 1, NEW k \in 1 .. n - 1
  PROVE  (c + k) % n # c
<1> DEFINE a == c + k
<1>1. a \in Nat /\ a < 2 * n OBVIOUS
<1>2. CASE a < n BY <1>2, ModSmall
<1>3. CASE a >= n
  <2> HIDE DEF a
  <2>1. a % n = a - n BY <1>1, <1>3, ModTurn, Zenon
  <2> QED BY <2>1 DEF a
<1> QED BY <1>1, <1>2, <1>3

-----------------------------------------------------------------------------
(* Services: the access a process is at tells which it runs.               *)

PcInv(p) ==
  /\ pc[p] \in {"feed_read", "feed"} => job[p].op \in {"online", "dtc"}
  /\ pc[p] \in {"cfg_read", "cfg_feed", "cfg_write"} => job[p].op = "wdog"
  /\ pc[p] \in {"dtc_read", "dtc_write"} => job[p].op = "dtc"
  /\ pc[p] \in {"nvm_read", "nvm_write"} => job[p].op = "nvm"
  /\ pc[p] \in {"setting", "reset"} => job[p].op = pc[p]
  /\ pc[p] \in {"info", "mode"} => job[p].op \in {"goto", "exit"}
  /\ job[p].op = "dtc" /\ pc[p] # "done" => job[p].set # job[p].clean
  /\ job[p].op = "dtc" /\ pc[p] \in {"dtc_read", "feed_read"} => last[p] = Sentinel

ServiceInv ==
  /\ MpuTypeOK
  /\ faults \in 0 .. MaxFaults
  /\ \A p \in Process : PcInv(p)

LEMMA JobFields ==
  ASSUME NEW j \in JobType
  PROVE  /\ j.op \in {"online", "reset", "goto", "exit", "dtc", "nvm", "wdog", "setting"}
         /\ j.op = "dtc" => j.set \in 0 .. NDtc /\ j.clean \in 0 .. NDtc
         /\ j.op = "nvm" => j.index \in NvmCommand
         /\ j.op = "wdog" => j.on \in BOOLEAN
         /\ j.op = "setting" => j.which \in Setting /\ j.value \in 0 .. MaxSetting
BY DEF JobType

LEMMA JobOf ==
  ASSUME job \in Jobs, NEW p \in Process
  PROVE  job[p] \in JobType
BY MpuAssumption

LEMMA ByteFits ==
  /\ Byte \in Nat /\ Byte >= 2 /\ 0 \in 0 .. Byte - 1 /\ 1 \in 0 .. Byte - 1
  /\ Sentinel \in 0 .. Byte - 1
  /\ \A v \in 0 .. Byte - 1 : Next8(v) \in 0 .. Byte - 1
  /\ Next8(Sentinel) = 0
<1>1. Byte \in Nat /\ Byte >= 2 BY MpuAssumption
<1>2. \A v \in 0 .. Byte - 1 : Next8(v) \in 0 .. Byte - 1
  BY <1>1, ModRange DEF Next8
<1>3. Next8(Sentinel) = 0
  <2>1. Byte % Byte = Byte - Byte BY <1>1, ModTurn
  <2> QED BY <1>1, <2>1 DEF Next8, Sentinel
<1> QED BY <1>1, <1>2, <1>3 DEF Sentinel

LEMMA ServiceInit == Init => ServiceInv
<1> SUFFICES ASSUME Init PROVE ServiceInv
  OBVIOUS
<1> USE MpuAssumption DEF Init
<1>1. mcu \in McuType /\ mcu.setting["mirror"] < Byte OBVIOUS
<1>2. ASSUME NEW p \in Process
      PROVE  First(job[p]) \in AllSites \cup {"done"} /\ PcInv(p)
  <2>1. job[p] \in JobType BY JobOf
  <2>2. pc[p] = First(job[p]) /\ last[p] = Sentinel OBVIOUS
  <2>3. job[p].op \in {"online", "reset", "goto", "exit", "dtc", "nvm", "wdog", "setting"}
    BY <2>1, JobFields
  <2>4. CASE job[p].op = "online" BY <2>2, <2>4 DEF First, AllSites, PcInv
  <2>5. CASE job[p].op = "reset" BY <2>2, <2>5 DEF First, AllSites, PcInv
  <2>6. CASE job[p].op \in {"goto", "exit"} BY <2>2, <2>6 DEF First, AllSites, PcInv
  <2>7. CASE job[p].op = "dtc" BY <2>2, <2>7 DEF First, AllSites, PcInv
  <2>8. CASE job[p].op = "nvm" BY <2>2, <2>8 DEF First, AllSites, PcInv
  <2>9. CASE job[p].op = "wdog" BY <2>2, <2>9 DEF First, AllSites, PcInv
  <2>10. CASE job[p].op = "setting" BY <2>2, <2>10 DEF First, AllSites, PcInv
  <2> QED BY <2>3, <2>4, <2>5, <2>6, <2>7, <2>8, <2>9, <2>10
<1>3. MpuTypeOK
  BY <1>1, <1>2, ByteFits DEF MpuTypeOK, Unseen
<1> QED BY <1>2, <1>3 DEF ServiceInv

(* What a register write may do, whatever becomes of it.                   *)
LEMMA WriteCases ==
  ASSUME ServiceInv, NEW site, NEW m, NEW code, Write(site, m, code)
  PROVE  /\ mcu' = mcu \/ mcu' = m
         /\ code \in {0, -2}
         /\ code = 0 => mcu' = m /\ faults' = faults
         /\ code # 0 => faults' = faults + 1
         /\ faults' \in 0 .. MaxFaults
BY MpuAssumption DEF Write, Fails, ServiceInv

(* A step of a process to another access of its service keeps the others'. *)
LEMMA GoesOn ==
  ASSUME ServiceInv, NEW p \in Process, NEW from \in AllSites, NEW to \in AllSites \cup {"done"},
         Goto(p, from, to)
  PROVE  /\ pc' \in [Process -> AllSites \cup {"done"}]
         /\ pc[p] = from /\ pc'[p] = to
         /\ \A q \in Process \ {p} : pc'[q] = pc[q]
BY DEF Goto, ServiceInv, MpuTypeOK

LEMMA FinalWriteKeeps ==
  ASSUME ServiceInv, NEW p \in Process, NEW site \in AllSites, NEW m \in McuType, NEW bad \in {-1, -2},
         m.setting["mirror"] < Byte, FinalWrite(p, site, m, bad),
         heard' \in [Process -> BOOLEAN], unseen' \in [Process -> SUBSET Unseen]
  PROVE  ServiceInv'
<1>1. PICK code \in {0, -2} :
        Write(site, m, code) /\ ret' = [ret EXCEPT ![p] = IF code < 0 THEN bad ELSE 0]
  BY DEF FinalWrite
<1>2. mcu' \in McuType /\ mcu'.setting["mirror"] < Byte /\ faults' \in 0 .. MaxFaults
  BY <1>1, WriteCases DEF ServiceInv, MpuTypeOK
<1>3. /\ pc' \in [Process -> AllSites \cup {"done"}] /\ pc'[p] = "done"
      /\ \A q \in Process \ {p} : pc'[q] = pc[q]
  BY GoesOn DEF FinalWrite
<1>4. ret' \in [Process -> {0, -1, -2, -4}] BY <1>1 DEF ServiceInv, MpuTypeOK
<1>5. MpuTypeOK' BY <1>2, <1>3, <1>4 DEF FinalWrite, ServiceInv, MpuTypeOK
<1>6. ASSUME NEW q \in Process PROVE PcInv(q)'
  BY <1>3 DEF FinalWrite, ServiceInv, PcInv
<1> QED BY <1>2, <1>5, <1>6 DEF ServiceInv

(* A read that failed ends the service.                                    *)
LEMMA ReadFailsKeeps ==
  ASSUME ServiceInv, NEW p \in Process, NEW site \in AllSites, NEW code \in {-1, -2},
         ReadFails(p, site, code), UNCHANGED <<mcu, job, last, heard, unseen>>
  PROVE  ServiceInv'
<1>1. faults' \in 0 .. MaxFaults BY MpuAssumption DEF ReadFails, Fails, ServiceInv
<1>2. /\ pc' \in [Process -> AllSites \cup {"done"}] /\ pc'[p] = "done"
      /\ \A q \in Process \ {p} : pc'[q] = pc[q]
  BY GoesOn DEF ReadFails
<1>3. MpuTypeOK' BY <1>2 DEF ReadFails, ServiceInv, MpuTypeOK
<1>4. ASSUME NEW q \in Process PROVE PcInv(q)'
  BY <1>2 DEF ServiceInv, PcInv
<1> QED BY <1>1, <1>3, <1>4 DEF ServiceInv

(* The notes of what a process does not notice.                            *)
LEMMA NotesTyped ==
  ASSUME ServiceInv, NEW p \in Process, NEW group, NEW what \in SUBSET Unseen,
         \/ Note(p, what) \/ NoteOthers(p, what) \/ NoteAll(p, group, what)
         \/ AllNote(what) \/ UNCHANGED unseen
  PROVE  /\ unseen' \in [Process -> SUBSET Unseen]
         /\ \A q \in Process : unseen[q] \subseteq unseen'[q]
BY DEF ServiceInv, MpuTypeOK, Note, NoteOthers, NoteAll, AllNote

LEMMA FeedReadService ==
  ASSUME ServiceInv, NEW p \in Process, FeedRead(p) PROVE ServiceInv'
<1>1. /\ pc' \in [Process -> AllSites \cup {"done"}]
      /\ pc[p] = "feed_read" /\ pc'[p] = "feed"
      /\ \A q \in Process \ {p} : pc'[q] = pc[q]
  BY GoesOn DEF FeedRead, AllSites
<1>2. mcu.cnt \in 0 .. Byte - 1 BY DEF ServiceInv, MpuTypeOK, McuType
<1>3. last' \in [Process -> 0 .. Byte - 1] /\ \A q \in Process \ {p} : last'[q] = last[q]
  BY <1>2, ByteFits DEF FeedRead, FirstCount, ServiceInv, MpuTypeOK
<1>4. unseen' \in [Process -> SUBSET Unseen]
  BY DEF FeedRead, Note, Unseen, ServiceInv, MpuTypeOK
<1>5. faults' \in 0 .. MaxFaults BY MpuAssumption DEF FeedRead, Fails, ServiceInv
<1>6. MpuTypeOK' BY <1>1, <1>3, <1>4 DEF FeedRead, ServiceInv, MpuTypeOK
<1>7. ASSUME NEW q \in Process PROVE PcInv(q)'
  BY <1>1, <1>3 DEF FeedRead, ServiceInv, PcInv
<1> QED BY <1>5, <1>6, <1>7 DEF ServiceInv

LEMMA FedTyped ==
  ASSUME ServiceInv, NEW v \in 0 .. Byte - 1
  PROVE  Fed(v) \in McuType /\ Fed(v).setting = mcu.setting
BY DEF Fed, ServiceInv, MpuTypeOK, McuType

LEMMA FeedService ==
  ASSUME ServiceInv, NEW p \in Process, Feed(p) PROVE ServiceInv'
<1>1. PICK code \in {0, -2} : Write("feed", Fed(last[p]), code) BY DEF Feed
<1>2. last[p] \in 0 .. Byte - 1 BY DEF ServiceInv, MpuTypeOK
<1>3. mcu' \in McuType /\ mcu'.setting["mirror"] < Byte /\ faults' \in 0 .. MaxFaults
  BY <1>1, <1>2, WriteCases, FedTyped DEF ServiceInv, MpuTypeOK
<1>4. job[p].op \in {"online", "dtc"} BY DEF Feed, ServiceInv, PcInv
<1>5. /\ pc' \in [Process -> AllSites \cup {"done"}]
      /\ pc'[p] = AfterFeed(p)
      /\ \A q \in Process \ {p} : pc'[q] = pc[q]
  BY DEF Feed, AfterFeed, AllSites, ServiceInv, MpuTypeOK
<1>6. last' \in [Process -> 0 .. Byte - 1] /\ \A q \in Process \ {p} : last'[q] = last[q]
  BY <1>2, ByteFits DEF Feed, Following, ServiceInv, MpuTypeOK
<1>7. unseen' \in [Process -> SUBSET Unseen]
  BY DEF Feed, Unseen, ServiceInv, MpuTypeOK
<1>8. MpuTypeOK' BY <1>3, <1>5, <1>6, <1>7 DEF Feed, ServiceInv, MpuTypeOK
<1>9. ASSUME NEW q \in Process PROVE PcInv(q)'
  <2>1. CASE q # p BY <1>5, <1>6, <2>1 DEF Feed, ServiceInv, PcInv
  <2>2. CASE q = p
    <3>1. job[p].op = "dtc" => job[p].set # job[p].clean
      BY DEF Feed, ServiceInv, PcInv
    <3> QED BY <1>4, <1>5, <2>2, <3>1 DEF Feed, AfterFeed, PcInv
  <2> QED BY <2>1, <2>2
<1> QED BY <1>3, <1>8, <1>9 DEF ServiceInv

LEMMA ConfigReadService ==
  ASSUME ServiceInv, NEW p \in Process, ConfigRead(p) PROVE ServiceInv'
<1>1. /\ pc' \in [Process -> AllSites \cup {"done"}]
      /\ pc[p] = "cfg_read" /\ pc'[p] = "cfg_feed"
      /\ \A q \in Process \ {p} : pc'[q] = pc[q]
  BY GoesOn DEF ConfigRead, AllSites
<1>2. mcu.cnt \in 0 .. Byte - 1 BY DEF ServiceInv, MpuTypeOK, McuType
<1>3. local' \in [Process -> [cnt : 0 .. Byte - 1, dtc : SUBSET Dtc]]
  <2>1. PICK v \in {Next8(mcu.cnt), 1} : local' = [local EXCEPT ![p].cnt = v] BY DEF ConfigRead
  <2>2. v \in 0 .. Byte - 1 BY <1>2, <2>1, ByteFits
  <2>3. local \in [Process -> [cnt : 0 .. Byte - 1, dtc : SUBSET Dtc]] BY DEF ServiceInv, MpuTypeOK
  <2> QED BY <2>1, <2>2, <2>3
<1>4. faults' \in 0 .. MaxFaults BY MpuAssumption DEF ConfigRead, Fails, ServiceInv
<1>5. MpuTypeOK' BY <1>1, <1>3 DEF ConfigRead, ServiceInv, MpuTypeOK
<1>6. ASSUME NEW q \in Process PROVE PcInv(q)'
  BY <1>1 DEF ConfigRead, ServiceInv, PcInv
<1> QED BY <1>4, <1>5, <1>6 DEF ServiceInv

LEMMA ConfigFeedService ==
  ASSUME ServiceInv, NEW p \in Process, ConfigFeed(p) PROVE ServiceInv'
<1>1. PICK code \in {0, -2} : Write("cfg_feed", Fed(local[p].cnt), code) BY DEF ConfigFeed
<1>2. local[p].cnt \in 0 .. Byte - 1 BY DEF ServiceInv, MpuTypeOK
<1>3. mcu' \in McuType /\ mcu'.setting["mirror"] < Byte /\ faults' \in 0 .. MaxFaults
  BY <1>1, <1>2, WriteCases, FedTyped DEF ServiceInv, MpuTypeOK
<1>4. /\ pc' \in [Process -> AllSites \cup {"done"}]
      /\ pc[p] = "cfg_feed" /\ pc'[p] = "cfg_write"
      /\ \A q \in Process \ {p} : pc'[q] = pc[q]
  BY GoesOn DEF ConfigFeed, AllSites
<1>5. unseen' \in [Process -> SUBSET Unseen]
  <2>1. {"counter"} \in SUBSET Unseen BY DEF Unseen
  <2> QED BY <2>1, NotesTyped DEF ConfigFeed
<1>6. MpuTypeOK' BY <1>3, <1>4, <1>5 DEF ConfigFeed, ServiceInv, MpuTypeOK
<1>7. ASSUME NEW q \in Process PROVE PcInv(q)'
  BY <1>4 DEF ConfigFeed, ServiceInv, PcInv
<1> QED BY <1>3, <1>6, <1>7 DEF ServiceInv

LEMMA ConfigWriteService ==
  ASSUME ServiceInv, NEW p \in Process, ConfigWrite(p) PROVE ServiceInv'
<1> DEFINE m == [mcu EXCEPT !.wdog = job[p].on]
<1>1. job[p].on \in BOOLEAN
  <2>1. job[p].op = "wdog" BY DEF ConfigWrite, FinalWrite, Goto, ServiceInv, PcInv
  <2>2. job[p] \in JobType BY JobOf DEF ServiceInv, MpuTypeOK
  <2> QED BY <2>1, <2>2, JobFields
<1>2. m \in McuType /\ m.setting = mcu.setting BY <1>1 DEF ServiceInv, MpuTypeOK, McuType
<1>3. FinalWrite(p, "cfg_write", m, -2) /\ UNCHANGED <<heard, unseen>> BY DEF ConfigWrite
<1> HIDE DEF m
<1> QED BY <1>2, <1>3, FinalWriteKeeps DEF AllSites, ServiceInv, MpuTypeOK

LEMMA ChangedTyped ==
  ASSUME NEW map \in SUBSET Dtc, NEW j
  PROVE  Changed(map, j) \in SUBSET Dtc
BY MpuAssumption DEF Changed

LEMMA DtcReadService ==
  ASSUME ServiceInv, NEW p \in Process, DtcRead(p) PROVE ServiceInv'
<1>1. CASE ReadFails(p, "dtc_read", -1) /\ UNCHANGED unseen
  BY <1>1, ReadFailsKeeps DEF DtcRead, AllSites
<1>2. CASE /\ Goto(p, "dtc_read", "feed_read")
           /\ local' = [local EXCEPT ![p].dtc = Changed(mcu.dtc, job[p])]
           /\ NoteAll(p, {q \in Process : ChangingMap(q)}, {"map"})
           /\ UNCHANGED <<ret, faults>>
  <2>1. /\ pc' \in [Process -> AllSites \cup {"done"}]
        /\ pc[p] = "dtc_read" /\ pc'[p] = "feed_read"
        /\ \A q \in Process \ {p} : pc'[q] = pc[q]
    BY <1>2, GoesOn DEF AllSites
  <2>2. Changed(mcu.dtc, job[p]) \in SUBSET Dtc
    BY ChangedTyped DEF ServiceInv, MpuTypeOK, McuType
  <2>3. local' \in [Process -> [cnt : 0 .. Byte - 1, dtc : SUBSET Dtc]]
    BY <1>2, <2>2 DEF ServiceInv, MpuTypeOK
  <2>4. unseen' \in [Process -> SUBSET Unseen]
    <3>1. {"map"} \in SUBSET Unseen BY DEF Unseen
    <3> QED BY <1>2, <3>1, NotesTyped
  <2>5. MpuTypeOK' BY <1>2, <2>1, <2>3, <2>4 DEF DtcRead, ServiceInv, MpuTypeOK
  <2>6. ASSUME NEW q \in Process PROVE PcInv(q)'
    BY <1>2, <2>1 DEF DtcRead, ServiceInv, PcInv
  <2> QED BY <1>2, <2>5, <2>6 DEF ServiceInv
<1> QED BY <1>1, <1>2 DEF DtcRead

LEMMA DtcWriteService ==
  ASSUME ServiceInv, NEW p \in Process, DtcWrite(p) PROVE ServiceInv'
<1> DEFINE m == [mcu EXCEPT !.dtc = local[p].dtc]
<1>1. m \in McuType /\ m.setting = mcu.setting BY DEF ServiceInv, MpuTypeOK, McuType
<1>2. FinalWrite(p, "dtc_write", m, -1) /\ UNCHANGED unseen BY DEF DtcWrite
<1>3. heard' \in [Process -> BOOLEAN]
  <2>1. mcu.online \in BOOLEAN BY DEF ServiceInv, MpuTypeOK, McuType
  <2> QED BY <2>1 DEF DtcWrite, ServiceInv, MpuTypeOK
<1> HIDE DEF m
<1> QED BY <1>1, <1>2, <1>3, FinalWriteKeeps DEF AllSites, ServiceInv, MpuTypeOK

LEMMA NvmReadService ==
  ASSUME ServiceInv, NEW p \in Process, NvmRead(p) PROVE ServiceInv'
<1>1. CASE ReadFails(p, "nvm_read", -2) /\ UNCHANGED unseen
  BY <1>1, ReadFailsKeeps DEF NvmRead, AllSites
<1>2. CASE /\ \/ Goto(p, "nvm_read", "nvm_write") /\ UNCHANGED ret
              \/ Goto(p, "nvm_read", "done") /\ ret' = [ret EXCEPT ![p] = -4]
           /\ \/ NoteAll(p, {q \in Process : pc[q] = "nvm_write"}, {"command"})
              \/ UNCHANGED unseen
           /\ UNCHANGED <<local, faults>>
  <2>1. /\ pc' \in [Process -> AllSites \cup {"done"}]
        /\ pc[p] = "nvm_read" /\ pc'[p] \in {"nvm_write", "done"}
        /\ \A q \in Process \ {p} : pc'[q] = pc[q]
    BY <1>2, GoesOn DEF AllSites
  <2>2. ret' \in [Process -> {0, -1, -2, -4}] BY <1>2 DEF ServiceInv, MpuTypeOK
  <2>3. unseen' \in [Process -> SUBSET Unseen]
    <3>1. {"command"} \in SUBSET Unseen BY DEF Unseen
    <3> QED BY <1>2, <3>1, NotesTyped
  <2>4. MpuTypeOK' BY <1>2, <2>1, <2>2, <2>3 DEF NvmRead, ServiceInv, MpuTypeOK
  <2>5. ASSUME NEW q \in Process PROVE PcInv(q)'
    BY <1>2, <2>1 DEF NvmRead, ServiceInv, PcInv
  <2> QED BY <1>2, <2>4, <2>5 DEF ServiceInv
<1> QED BY <1>1, <1>2 DEF NvmRead

LEMMA NvmWriteService ==
  ASSUME ServiceInv, NEW p \in Process, NvmWrite(p) PROVE ServiceInv'
<1> DEFINE m == [mcu EXCEPT !.nvm = job[p].index]
<1>1. job[p].index \in NvmCommand
  <2>1. job[p].op = "nvm" BY DEF NvmWrite, FinalWrite, Goto, ServiceInv, PcInv
  <2>2. job[p] \in JobType BY JobOf DEF ServiceInv, MpuTypeOK
  <2> QED BY <2>1, <2>2, JobFields
<1>2. m \in McuType /\ m.setting = mcu.setting BY <1>1 DEF ServiceInv, MpuTypeOK, McuType
<1>3. FinalWrite(p, "nvm_write", m, -2) /\ UNCHANGED <<heard, unseen>> BY DEF NvmWrite
<1> HIDE DEF m
<1> QED BY <1>2, <1>3, FinalWriteKeeps DEF AllSites, ServiceInv, MpuTypeOK

LEMMA WriteSettingService ==
  ASSUME ServiceInv, NEW p \in Process, WriteSetting(p) PROVE ServiceInv'
<1> DEFINE w == job[p].which
           v == Stored(w, job[p].value)
           m == [mcu EXCEPT !.setting[w] = v]
<1>1. w \in Setting /\ job[p].value \in 0 .. MaxSetting
  <2>1. job[p].op = "setting" BY DEF WriteSetting, FinalWrite, Goto, ServiceInv, PcInv
  <2>2. job[p] \in JobType BY JobOf DEF ServiceInv, MpuTypeOK
  <2> QED BY <2>1, <2>2, JobFields
<1>2. v \in 0 .. MaxSetting /\ (w = "mirror" => v < Byte)
  <2>1. job[p].value % Byte \in 0 .. Byte - 1
    <3>1. job[p].value \in Nat /\ Byte \in Nat \ {0} BY <1>1, ByteFits, MpuAssumption
    <3> QED BY <3>1, ModRange, Zenon
  <2>2. job[p].value % Byte <= job[p].value
    <3>1. \A a, n \in Nat : n > 0 => a % n <= a OBVIOUS
    <3> QED BY <1>1, <3>1, ByteFits
  <2> QED BY <1>1, <2>1, <2>2, MpuAssumption, ByteFits DEF Stored
<1>3. FinalWrite(p, "setting", m, -2) /\ UNCHANGED <<heard, unseen>> BY DEF WriteSetting
<1> HIDE DEF w, v
<1>4. m \in McuType /\ m.setting["mirror"] < Byte
  <2>1. mcu \in McuType /\ mcu.setting["mirror"] < Byte BY DEF ServiceInv, MpuTypeOK
  <2>2. m.setting = [mcu.setting EXCEPT ![w] = v] BY <2>1 DEF McuType
  <2>3. m.setting \in [Setting -> 0 .. MaxSetting] BY <1>1, <1>2, <2>1, <2>2 DEF McuType
  <2>4. m.setting["mirror"] < Byte BY <1>1, <1>2, <2>1, <2>2 DEF McuType, Setting
  <2>5. m \in McuType BY <2>1, <2>3 DEF McuType
  <2> QED BY <2>4, <2>5
<1> HIDE DEF m
<1> QED BY <1>3, <1>4, FinalWriteKeeps DEF AllSites, ServiceInv, MpuTypeOK

LEMMA RestartedTyped ==
  ASSUME ServiceInv, NEW app \in BOOLEAN
  PROVE  Restarted(app) \in McuType /\ Restarted(app).setting = mcu.setting
BY ByteFits DEF Restarted, ServiceInv, MpuTypeOK, McuType

LEMMA ResetService ==
  ASSUME ServiceInv, NEW p \in Process, Reset(p) PROVE ServiceInv'
<1>1. Restarted(TRUE) \in McuType /\ Restarted(TRUE).setting = mcu.setting
  BY RestartedTyped
<1>2. unseen' \in [Process -> SUBSET Unseen]
  BY DEF Reset, AllNote, Unseen, ServiceInv, MpuTypeOK
<1> QED BY <1>1, <1>2, FinalWriteKeeps DEF Reset, AllSites, ServiceInv, MpuTypeOK

LEMMA ReadInfoService ==
  ASSUME ServiceInv, NEW p \in Process, ReadInfo(p) PROVE ServiceInv'
<1>1. CASE ReadFails(p, "info", -1) BY <1>1, ReadFailsKeeps DEF ReadInfo, AllSites
<1>2. CASE /\ \E to \in {"mode", "done"} : Goto(p, "info", to)
           /\ UNCHANGED <<ret, local, faults>>
  <2>1. /\ pc' \in [Process -> AllSites \cup {"done"}]
        /\ pc[p] = "info" /\ pc'[p] \in {"mode", "done"}
        /\ \A q \in Process \ {p} : pc'[q] = pc[q]
    BY <1>2, GoesOn DEF AllSites
  <2>2. MpuTypeOK' BY <1>2, <2>1 DEF ReadInfo, ServiceInv, MpuTypeOK
  <2>3. ASSUME NEW q \in Process PROVE PcInv(q)'
    BY <1>2, <2>1 DEF ReadInfo, ServiceInv, PcInv
  <2> QED BY <1>2, <2>2, <2>3 DEF ServiceInv
<1> QED BY <1>1, <1>2 DEF ReadInfo

LEMMA SetModeService ==
  ASSUME ServiceInv, NEW p \in Process, SetMode(p) PROVE ServiceInv'
<1> DEFINE m == [mcu EXCEPT !.mode = job[p].op]
<1>1. job[p].op \in {"goto", "exit"}
  BY DEF SetMode, FinalWrite, Goto, ServiceInv, PcInv
<1>2. m \in McuType /\ m.setting = mcu.setting BY <1>1 DEF ServiceInv, MpuTypeOK, McuType
<1>3. FinalWrite(p, "mode", m, -2) /\ UNCHANGED <<heard, unseen>> BY DEF SetMode
<1> HIDE DEF m
<1> QED BY <1>2, <1>3, FinalWriteKeeps DEF AllSites, ServiceInv, MpuTypeOK

LEMMA McuService ==
  ASSUME ServiceInv, McuNvmDone \/ McuSwitch \/ McuOffline PROVE ServiceInv'
<1>1. mcu' \in McuType /\ mcu'.setting["mirror"] < Byte
  <2>1. CASE McuNvmDone BY <2>1 DEF McuNvmDone, ServiceInv, MpuTypeOK, McuType
  <2>2. CASE McuSwitch
    BY <2>2, RestartedTyped DEF McuSwitch, ServiceInv, MpuTypeOK
  <2>3. CASE McuOffline BY <2>3 DEF McuOffline, ServiceInv, MpuTypeOK, McuType
  <2> QED BY <2>1, <2>2, <2>3
<1>2. unseen' \in [Process -> SUBSET Unseen]
  BY DEF McuNvmDone, McuSwitch, McuOffline, AllNote, Unseen, ServiceInv, MpuTypeOK
<1>3. UNCHANGED <<job, pc, last, local, ret, heard, faults>>
  BY DEF McuNvmDone, McuSwitch, McuOffline
<1> QED BY <1>1, <1>2, <1>3 DEF ServiceInv, MpuTypeOK, PcInv

LEMMA ServiceStep == ServiceInv /\ [Next]_vars => ServiceInv'
<1> SUFFICES ASSUME ServiceInv, [Next]_vars PROVE ServiceInv'
  OBVIOUS
<1>1. CASE UNCHANGED vars BY <1>1 DEF vars, ServiceInv, MpuTypeOK, PcInv
<1>2. ASSUME NEW p \in Process, Step(p) PROVE ServiceInv'
  BY <1>2, FeedReadService, FeedService, ConfigReadService, ConfigFeedService,
     ConfigWriteService, DtcReadService, DtcWriteService, NvmReadService, NvmWriteService,
     WriteSettingService, ResetService, ReadInfoService, SetModeService DEF Step
<1> QED BY <1>1, <1>2, McuService DEF Next

(* Every variable stays in its domain: what is stored, written back or     *)
(* counted on never leaves the width of its register.                      *)
THEOREM MpuTypeCorrect == Spec => []MpuTypeOK
<1>1. ServiceInv => MpuTypeOK BY DEF ServiceInv
<1> QED BY <1>1, ServiceInit, ServiceStep, PTL DEF Spec

-----------------------------------------------------------------------------
(* Feeding: the counter value a process will write next.                   *)

Feeds(p) == pc[p] = "feed" \/ (pc[p] = "feed_read" /\ last[p] # Sentinel)

(* last_cnt is ahead of the counter, by one and what was lost meanwhile.   *)
Ahead(p) == \E lost \in 0 .. faults : last[p] = (mcu.cnt + lost + 1) % Byte

FeedInv(p) == Feeds(p) /\ unseen[p] \cap {"feed_read", "counter"} = {} => Ahead(p)

(* With as many lost feeds as the counter has values last_cnt has gone all *)
(* the way around: the next feed writes the value the counter has.         *)
FewFaults == MaxFaults < Byte - 1

(* What leaves the counter and what p feeds alone, apart from notes.       *)
FeedFrame(p) ==
  /\ mcu'.cnt = mcu.cnt /\ last'[p] = last[p]
  /\ faults' >= faults
  /\ Feeds(p)' => Feeds(p)
  /\ unseen[p] \subseteq unseen'[p]

LEMMA FeedKept ==
  ASSUME ServiceInv, ServiceInv', NEW p \in Process, FeedInv(p), FeedFrame(p)
  PROVE  FeedInv(p)'
<1> SUFFICES ASSUME Ahead(p) PROVE Ahead(p)'
  BY DEF FeedInv, FeedFrame
<1>1. PICK lost \in 0 .. faults : last[p] = (mcu.cnt + lost + 1) % Byte BY DEF Ahead
<1>2. faults \in Nat /\ faults' \in Nat BY MpuAssumption DEF ServiceInv
<1>3. lost \in 0 .. faults' BY <1>2 DEF FeedFrame
<1> QED BY <1>1, <1>3 DEF Ahead, FeedFrame

LEMMA FeedNoted ==
  ASSUME NEW p \in Process, "counter" \in unseen'[p] PROVE FeedInv(p)'
BY DEF FeedInv

(* The last write of a service that does not write the counter.            *)
LEMMA FinalWriteFeed ==
  ASSUME ServiceInv, NEW p \in Process, NEW q \in Process, NEW site \in AllSites, NEW m, NEW bad,
         FinalWrite(p, site, m, bad), m.cnt = mcu.cnt, UNCHANGED unseen
  PROVE  FeedFrame(q)
<1>1. PICK code \in {0, -2} : Write(site, m, code) BY DEF FinalWrite
<1>2. mcu'.cnt = mcu.cnt /\ faults' >= faults
  <2>1. mcu' = mcu \/ mcu' = m BY <1>1, WriteCases
  <2>2. faults' = faults \/ faults' = faults + 1 BY <1>1, WriteCases
  <2> QED BY <2>1, <2>2, MpuAssumption DEF ServiceInv
<1>3. pc'[p] = "done" /\ (q # p => pc'[q] = pc[q])
  BY GoesOn DEF FinalWrite
<1>4. last' = last BY DEF FinalWrite
<1> QED BY <1>2, <1>3, <1>4 DEF FeedFrame, Feeds

(* Steps that neither read nor write the counter.                          *)
LEMMA FeedQuiet ==
  ASSUME ServiceInv, ServiceInv', NEW p \in Process, NEW q \in Process,
         \/ ConfigRead(p) \/ ConfigWrite(p) \/ DtcRead(p) \/ DtcWrite(p)
         \/ NvmRead(p) \/ NvmWrite(p) \/ WriteSetting(p) \/ ReadInfo(p) \/ SetMode(p)
  PROVE  FeedFrame(q)
<1>1. mcu.cnt \in 0 .. Byte - 1 /\ mcu \in McuType BY DEF ServiceInv, MpuTypeOK, McuType
<1>2. CASE ConfigWrite(p)
  <2> DEFINE m == [mcu EXCEPT !.wdog = job[p].on]
  <2>1. m.cnt = mcu.cnt BY <1>1 DEF McuType
  <2> QED BY <1>2, <2>1, FinalWriteFeed DEF ConfigWrite, AllSites
<1>3. CASE DtcWrite(p)
  <2> DEFINE m == [mcu EXCEPT !.dtc = local[p].dtc]
  <2>1. m.cnt = mcu.cnt BY <1>1 DEF McuType
  <2> QED BY <1>3, <2>1, FinalWriteFeed DEF DtcWrite, AllSites
<1>4. CASE NvmWrite(p)
  <2> DEFINE m == [mcu EXCEPT !.nvm = job[p].index]
  <2>1. m.cnt = mcu.cnt BY <1>1 DEF McuType
  <2> QED BY <1>4, <2>1, FinalWriteFeed DEF NvmWrite, AllSites
<1>5. CASE WriteSetting(p)
  <2> DEFINE m == [mcu EXCEPT !.setting[job[p].which] = Stored(job[p].which, job[p].value)]
  <2>1. m.cnt = mcu.cnt BY <1>1 DEF McuType
  <2> QED BY <1>5, <2>1, FinalWriteFeed DEF WriteSetting, AllSites
<1>6. CASE SetMode(p)
  <2> DEFINE m == [mcu EXCEPT !.mode = job[p].op]
  <2>1. m.cnt = mcu.cnt BY <1>1 DEF McuType
  <2> QED BY <1>6, <2>1, FinalWriteFeed DEF SetMode, AllSites
<1>7. CASE ConfigRead(p) \/ NvmRead(p) \/ ReadInfo(p)
  <2>1. pc'[p] \notin {"feed", "feed_read"} /\ (q # p => pc'[q] = pc[q])
    BY <1>7 DEF ConfigRead, NvmRead, ReadInfo, ReadFails, Goto, ServiceInv, MpuTypeOK
  <2>2. last' = last /\ mcu' = mcu BY <1>7 DEF ConfigRead, NvmRead, ReadInfo
  <2>3. faults' >= faults
    BY <1>7, MpuAssumption DEF ConfigRead, NvmRead, ReadInfo, ReadFails, Fails, ServiceInv
  <2>4. unseen[q] \subseteq unseen'[q]
    BY <1>7 DEF ConfigRead, NvmRead, ReadInfo, NoteAll, ServiceInv, MpuTypeOK
  <2> QED BY <2>1, <2>2, <2>3, <2>4 DEF FeedFrame, Feeds
<1>8. CASE DtcRead(p)
  <2>1. pc[p] = "dtc_read" /\ pc'[p] \in {"feed_read", "done"} /\ (q # p => pc'[q] = pc[q])
    BY <1>8 DEF DtcRead, ReadFails, Goto, ServiceInv, MpuTypeOK
  <2>2. last' = last /\ mcu' = mcu BY <1>8 DEF DtcRead
  <2>3. last[p] = Sentinel BY <2>1 DEF ServiceInv, PcInv
  <2>4. faults' >= faults BY <1>8, MpuAssumption DEF DtcRead, ReadFails, Fails, ServiceInv
  <2>5. unseen[q] \subseteq unseen'[q]
    BY <1>8 DEF DtcRead, NoteAll, ServiceInv, MpuTypeOK
  <2> QED BY <2>1, <2>2, <2>3, <2>4, <2>5 DEF FeedFrame, Feeds
<1> QED BY <1>2, <1>3, <1>4, <1>5, <1>6, <1>7, <1>8

(* The first feed is one ahead of what was read.                           *)
LEMMA FeedReadFeed ==
  ASSUME ServiceInv, ServiceInv', NEW p \in Process, NEW q \in Process, FeedRead(p), FeedInv(q)
  PROVE  FeedInv(q)'
<1>1. /\ pc[p] = "feed_read" /\ pc'[p] = "feed" /\ (q # p => pc'[q] = pc[q])
      /\ q # p => last'[q] = last[q] /\ unseen'[q] = unseen[q]
      /\ mcu' = mcu
  BY DEF FeedRead, Goto, Note, ServiceInv, MpuTypeOK
<1>2. faults' >= faults BY MpuAssumption DEF FeedRead, Fails, ServiceInv
<1>3. CASE q # p
  <2>1. FeedFrame(q) BY <1>1, <1>2, <1>3 DEF FeedFrame, Feeds
  <2> QED BY <2>1, FeedKept
<1>4. CASE q = p
  <2>1. CASE "feed_read" \in unseen'[p] BY <1>4, <2>1 DEF FeedInv
  <2>2. CASE "feed_read" \notin unseen'[p]
    <3>1. last'[p] = FirstCount(mcu.cnt)
      BY <2>2 DEF FeedRead, Note, ServiceInv, MpuTypeOK
    <3>2. 0 \in 0 .. faults' BY MpuAssumption DEF ServiceInv
    <3>3. last'[p] = (mcu.cnt + 0 + 1) % Byte
      <4>1. mcu.cnt \in 0 .. Byte - 1 BY DEF ServiceInv, MpuTypeOK, McuType
      <4>2. mcu.cnt + 1 = mcu.cnt + 0 + 1 BY <4>1, ByteFits
      <4> QED BY <3>1, <4>2 DEF FirstCount, Next8
    <3> QED BY <1>1, <1>4, <3>2, <3>3 DEF FeedInv, Ahead
  <2> QED BY <2>1, <2>2
<1> QED BY <1>3, <1>4

(* A feed that arrives leaves last_cnt one ahead; one that is lost leaves  *)
(* it one more ahead than it was.                                          *)
LEMMA FeedFeed ==
  ASSUME FewFaults, ServiceInv, ServiceInv', NEW p \in Process, NEW q \in Process,
         Feed(p), FeedInv(q)
  PROVE  FeedInv(q)'
<1> USE MpuAssumption
<1>1. PICK code \in {0, -2} :
        /\ Write("feed", Fed(last[p]), code)
        /\ unseen' = [r \in Process |->
             IF r # p THEN unseen[r] \cup {"counter"}
             ELSE IF code # 0 THEN unseen[p] \cup {"feed"}
             ELSE IF job[p].op = "online" THEN unseen[p] \ {"counter", "feed_read"}
             ELSE unseen[p]]
  BY DEF Feed
<1>2. CASE q # p
  <2>1. "counter" \in unseen'[q] BY <1>1, <1>2
  <2> QED BY <2>1, FeedNoted
<1>3. CASE q = p
  <2>1. last'[p] = Next8(last[p]) BY DEF Feed, Following, ServiceInv, MpuTypeOK
  <2>2. Feeds(p) BY DEF Feed, Feeds
  <2>3. faults \in Nat /\ faults' \in 0 .. MaxFaults BY DEF ServiceInv
  <2>4. mcu' = mcu \/ mcu' = Fed(last[p]) BY <1>1, WriteCases
  <2>5. CASE mcu' = Fed(last[p])
    <3>1. mcu'.cnt = last[p] BY <2>5 DEF Fed, ServiceInv, MpuTypeOK, McuType
    <3>2. 0 \in 0 .. faults' BY <2>3
    <3>3. last'[p] = (last[p] + 0 + 1) % Byte
      <4>1. last[p] \in 0 .. Byte - 1 BY DEF ServiceInv, MpuTypeOK
      <4>2. last[p] + 1 = last[p] + 0 + 1 BY <4>1, ByteFits
      <4> QED BY <2>1, <4>2 DEF Next8
    <3> QED BY <1>3, <3>1, <3>2, <3>3 DEF FeedInv, Ahead
  <2>6. CASE mcu' = mcu /\ mcu' # Fed(last[p])
    <3>1. code # 0 /\ faults' = faults + 1 BY <1>1, <2>6, WriteCases
    <3> SUFFICES ASSUME unseen'[p] \cap {"feed_read", "counter"} = {} PROVE Ahead(p)'
      BY <1>3 DEF FeedInv
    <3>2. unseen[p] \cap {"feed_read", "counter"} = {} BY <1>1, <3>1
    <3>3. Ahead(p) BY <1>3, <2>2, <3>2 DEF FeedInv
    <3>4. PICK lost \in 0 .. faults : last[p] = (mcu.cnt + lost + 1) % Byte
      BY <3>3 DEF Ahead
    <3>5. lost + 1 \in 0 .. faults' /\ lost + 1 \in 0 .. Byte - 2 BY <2>3, <3>1 DEF FewFaults
    <3>6. mcu.cnt \in 0 .. Byte - 1 BY DEF ServiceInv, MpuTypeOK, McuType
    <3> DEFINE a == mcu.cnt + lost + 1
    <3>7. a \in Nat /\ a < 2 * Byte - 1 /\ Byte \in Nat \ {0} BY <3>5, <3>6
    <3>8. a + 1 = mcu.cnt + (lost + 1) + 1 BY <3>6
    <3>9. last'[p] = ((a % Byte) + 1) % Byte BY <2>1, <3>4 DEF Next8
    <3> HIDE DEF a
    <3>10. ((a % Byte) + 1) % Byte = (a + 1) % Byte BY <3>7, ModNext, Zenon
    <3>11. last'[p] = (mcu'.cnt + (lost + 1) + 1) % Byte BY <2>6, <3>8, <3>9, <3>10
    <3> QED BY <3>5, <3>11 DEF Ahead
  <2> QED BY <2>4, <2>5, <2>6
<1> QED BY <1>2, <1>3

LEMMA FeedStep ==
  ASSUME FewFaults, ServiceInv, ServiceInv', NEW q \in Process, FeedInv(q), [Next]_vars
  PROVE  FeedInv(q)'
<1>1. CASE UNCHANGED vars BY <1>1 DEF vars, FeedInv, Feeds, Ahead
<1>2. ASSUME NEW p \in Process, Step(p) PROVE FeedInv(q)'
  <2>1. CASE FeedRead(p) BY <2>1, FeedReadFeed
  <2>2. CASE Feed(p) BY <2>2, FeedFeed
  <2>3. CASE ConfigFeed(p)
    <3>1. q # p => "counter" \in unseen'[q] BY <2>3 DEF ConfigFeed, NoteOthers
    <3>2. q = p => pc'[q] = "cfg_write"
      BY <2>3 DEF ConfigFeed, Goto, ServiceInv, MpuTypeOK
    <3> QED BY <3>1, <3>2, FeedNoted DEF FeedInv, Feeds
  <2>4. CASE Reset(p)
    <3>1. "counter" \in unseen'[q] BY <2>4 DEF Reset, AllNote
    <3> QED BY <3>1, FeedNoted
  <2>5. CASE FeedFrame(q) BY <2>5, FeedKept
  <2> QED BY <1>2, <2>1, <2>2, <2>3, <2>4, <2>5, FeedQuiet DEF Step
<1>3. CASE McuSwitch
  <2>1. "counter" \in unseen'[q] BY <1>3 DEF McuSwitch, AllNote
  <2> QED BY <2>1, FeedNoted
<1>4. CASE McuNvmDone \/ McuOffline
  <2>1. mcu'.cnt = mcu.cnt
    BY <1>4 DEF McuNvmDone, McuOffline, ServiceInv, MpuTypeOK, McuType
  <2>2. FeedFrame(q)
    BY <1>4, <2>1, MpuAssumption DEF McuNvmDone, McuOffline, FeedFrame, Feeds, ServiceInv
  <2> QED BY <2>2, FeedKept
<1> QED BY <1>1, <1>2, <1>3, <1>4 DEF Next

LEMMA FeedInit == Init => \A p \in Process : FeedInv(p)
<1> SUFFICES ASSUME Init, NEW p \in Process PROVE ~Feeds(p)
  BY DEF FeedInv
<1>1. last[p] = Sentinel /\ pc[p] = First(job[p]) BY DEF Init
<1>2. First(job[p]) # "feed"
  <2>1. job[p] \in JobType BY JobOf DEF Init
  <2>2. job[p].op \in {"online", "reset", "goto", "exit", "dtc", "nvm", "wdog", "setting"}
    BY <2>1, JobFields
  <2> QED BY <2>2 DEF First
<1> QED BY <1>1, <1>2 DEF Feeds

(* A feed that is acknowledged changes the counter, for a counter of any   *)
(* width, any number of feeders and services, failures and restarts, as    *)
(* long as fewer accesses fail than the counter has values besides its     *)
(* sentinel; with more of them it is false.                                *)
THEOREM FeedingMoves == ASSUME FewFaults PROVE Spec => FeedMoves
<1> DEFINE Inv == ServiceInv /\ \A p \in Process : FeedInv(p)
<1>1. Init => Inv BY ServiceInit, FeedInit
<1>2. Inv /\ [Next]_vars => Inv' BY ServiceStep, FeedStep
<1>3. Inv /\ [Next]_vars =>
        [\A p \in Process :
           /\ last[p]' # last[p] /\ pc'[p] = AfterFeed(p) /\ faults' = faults
           /\ unseen[p] \cap {"feed_read", "counter"} = {}
           => mcu'.cnt # mcu.cnt]_vars
  <2> SUFFICES ASSUME Inv, Next, NEW p \in Process,
                      last[p]' # last[p], pc'[p] = AfterFeed(p), faults' = faults,
                      unseen[p] \cap {"feed_read", "counter"} = {}
               PROVE  mcu'.cnt # mcu.cnt
    OBVIOUS
  <2>1. FeedRead(p) \/ Feed(p)
    <3>1. ASSUME NEW q \in Process, Step(q) PROVE FeedRead(p) \/ Feed(p)
      <4>1. last'[p] # last[p] => FeedRead(q) \/ Feed(q)
        BY <3>1 DEF Step, ConfigRead, ConfigFeed, ConfigWrite, DtcRead, DtcWrite, NvmRead,
             NvmWrite, WriteSetting, Reset, ReadInfo, SetMode, FinalWrite
      <4>2. (FeedRead(q) \/ Feed(q)) /\ q # p => last'[p] = last[p]
        BY DEF FeedRead, Feed, ServiceInv, MpuTypeOK
      <4> QED BY <4>1, <4>2
    <3>2. ~McuNvmDone /\ ~McuSwitch /\ ~McuOffline
      BY DEF McuNvmDone, McuSwitch, McuOffline
    <3> QED BY <3>1, <3>2 DEF Next
  <2>2. ~FeedRead(p) BY DEF FeedRead, Goto, AfterFeed, ServiceInv, MpuTypeOK
  <2>3. Feed(p) BY <2>1, <2>2
  <2>4. PICK code \in {0, -2} : Write("feed", Fed(last[p]), code) BY <2>3 DEF Feed
  <2>5. mcu' = Fed(last[p])
    <3>1. faults \in Nat BY MpuAssumption DEF ServiceInv
    <3> QED BY <2>4, <3>1, WriteCases
  <2>6. mcu'.cnt = last[p] BY <2>5 DEF Fed, ServiceInv, MpuTypeOK, McuType
  <2>7. Ahead(p) BY <2>3 DEF Feed, FeedInv, Feeds
  <2>8. PICK lost \in 0 .. faults : last[p] = (mcu.cnt + lost + 1) % Byte
    BY <2>7 DEF Ahead
  <2>9. mcu.cnt \in 0 .. Byte - 1 BY DEF ServiceInv, MpuTypeOK, McuType
  <2> DEFINE k == lost + 1
  <2>10. k \in 1 .. Byte - 1 /\ mcu.cnt + k = mcu.cnt + lost + 1
    BY <2>9, MpuAssumption DEF FewFaults, ServiceInv
  <2> HIDE DEF k
  <2>11. (mcu.cnt + k) % Byte # mcu.cnt BY <2>9, <2>10, MpuAssumption, ModMoves
  <2> QED BY <2>6, <2>8, <2>10, <2>11
<1> HIDE DEF Inv
<1> QED BY <1>1, <1>2, <1>3, PTL DEF Spec, FeedMoves

-----------------------------------------------------------------------------
(* The fault map.                                                          *)

Blemished(p, marks) == unseen[p] \cap marks # {}

(* A process about to feed would be noticed, one about to write its map    *)
(* was, and what it wrote was heard.                                       *)
HeardInv(p) ==
  job[p].op = "dtc" =>
    /\ pc[p] = "feed" =>
         Blemished(p, {"feed_read", "restart"}) \/ mcu.online \/ mcu.cnt # last[p]
    /\ pc[p] = "dtc_write" => Blemished(p, {"feed_read", "feed", "restart"}) \/ mcu.online
    /\ pc[p] = "done" /\ job[p].set # job[p].clean /\ ret[p] = 0 =>
         Blemished(p, {"feed_read", "feed", "restart"}) \/ heard[p]

(* What p was told to change is as it was told in the map, as far as no    *)
(* other was told the opposite.                                            *)
AsTold(p, map) ==
  /\ job[p].set \in Mask /\ (\A q \in Others(p) : job[q].clean # job[p].set)
       => job[p].set \in map
  /\ job[p].clean \in Mask /\ (\A q \in Others(p) : job[q].set # job[p].clean)
       => job[p].clean \notin map

ToldSticks(p) == DtcAcked(p) /\ ~Blemished(p, {"map", "restart"}) => AsTold(p, mcu.dtc)

(* The map that p is about to write is the MCU's with p's faults changed.  *)
CopyInv(p) ==
  ChangingMap(p) =>
    /\ job[p].set \in Mask => job[p].set \in local[p].dtc
    /\ job[p].clean \in Mask => job[p].clean \notin local[p].dtc
    /\ Blemished(p, {"map", "restart"})
       \/ \A f \in Dtc : (f \in local[p].dtc) # (f \in mcu.dtc)
            => f \in Mask /\ f \in {job[p].set, job[p].clean}

(* Two that change the map at the same time both know, and one that is     *)
(* about to write keeps what another was acknowledged before it read.      *)
RivalInv(p, q) ==
  p # q /\ ChangingMap(p) =>
    /\ ChangingMap(q) => "map" \in unseen[p]
    /\ DtcAcked(q) /\ ~Blemished(q, {"map", "restart"}) => AsTold(q, local[p].dtc)

MapInv ==
  /\ \A p \in Process : HeardInv(p) /\ ToldSticks(p) /\ CopyInv(p)
  /\ \A p, q \in Process : RivalInv(p, q)

(* The NVM command register is idle for one that found it idle.            *)
NvmInv ==
  \A p \in Process : pc[p] = "nvm_write" =>
    /\ "command" \in unseen[p] \/ mcu.nvm = 0
    /\ \A q \in Process \ {p} : pc[q] = "nvm_write" => "command" \in unseen[p]

AllInv == ServiceInv /\ MapInv /\ NvmInv /\ \A p \in Process : FeedInv(p)

(* A step of one process, as the others see it.                            *)
LEMMA OthersKept ==
  ASSUME ServiceInv, NEW p \in Process, NEW q \in Process \ {p}, Step(p)
  PROVE  /\ pc'[q] = pc[q] /\ last'[q] = last[q] /\ local'[q] = local[q]
         /\ ret'[q] = ret[q] /\ heard'[q] = heard[q]
         /\ job' = job
         /\ unseen[q] \subseteq unseen'[q]
<1> USE DEF ServiceInv, MpuTypeOK
<1>1. CASE FeedRead(p) BY <1>1 DEF FeedRead, Goto, Note
<1>2. CASE Feed(p) BY <1>2 DEF Feed
<1>3. CASE ConfigRead(p) BY <1>3 DEF ConfigRead, Goto
<1>4. CASE ConfigFeed(p) BY <1>4 DEF ConfigFeed, Goto, NoteOthers
<1>5. CASE ConfigWrite(p) BY <1>5 DEF ConfigWrite, FinalWrite, Goto
<1>6. CASE DtcRead(p) BY <1>6 DEF DtcRead, ReadFails, Goto, NoteAll
<1>7. CASE DtcWrite(p) BY <1>7 DEF DtcWrite, FinalWrite, Goto
<1>8. CASE NvmRead(p) BY <1>8 DEF NvmRead, ReadFails, Goto, NoteAll
<1>9. CASE NvmWrite(p) BY <1>9 DEF NvmWrite, FinalWrite, Goto
<1>10. CASE WriteSetting(p) BY <1>10 DEF WriteSetting, FinalWrite, Goto
<1>11. CASE Reset(p) BY <1>11 DEF Reset, FinalWrite, Goto, AllNote
<1>12. CASE ReadInfo(p) BY <1>12 DEF ReadInfo, ReadFails, Goto
<1>13. CASE SetMode(p) BY <1>13 DEF SetMode, FinalWrite, Goto
<1> QED BY <1>1, <1>2, <1>3, <1>4, <1>5, <1>6, <1>7, <1>8, <1>9, <1>10, <1>11, <1>12, <1>13
        DEF Step

(* The services that write a register, and which.                          *)
RestartNoted ==
  /\ \E app \in BOOLEAN : mcu' = Restarted(app)
  /\ \A q \in Process : "restart" \in unseen'[q]

LEMMA Effect ==
  ASSUME ServiceInv, NEW p \in Process, Step(p)
  PROVE  /\ \/ mcu'.cnt = mcu.cnt /\ mcu'.online = mcu.online
            \/ \E v \in 0 .. Byte - 1 : mcu' = Fed(v)
            \/ RestartNoted
         /\ \/ mcu'.dtc = mcu.dtc
            \/ DtcWrite(p) /\ mcu'.dtc = local[p].dtc
            \/ RestartNoted
         /\ mcu'.nvm = mcu.nvm \/ NvmWrite(p) \/ RestartNoted
<1> DEFINE Keeps(m) == /\ m.cnt = mcu.cnt /\ m.online = mcu.online
                       /\ m.dtc = mcu.dtc /\ m.nvm = mcu.nvm
<1>1. mcu \in McuType /\ Keeps(mcu) BY DEF ServiceInv, MpuTypeOK
<1>2. ASSUME NEW site, NEW m, NEW bad, FinalWrite(p, site, m, bad) PROVE mcu' = mcu \/ mcu' = m
  BY <1>2, WriteCases DEF FinalWrite
<1>3. CASE FeedRead(p) \/ ConfigRead(p) \/ DtcRead(p) \/ NvmRead(p) \/ ReadInfo(p)
  <2>1. mcu' = mcu BY <1>3 DEF FeedRead, ConfigRead, DtcRead, NvmRead, ReadInfo
  <2> QED BY <2>1
<1>4. CASE Feed(p) \/ ConfigFeed(p)
  <2>1. PICK v \in 0 .. Byte - 1 : mcu' = mcu \/ mcu' = Fed(v)
    <3>1. last[p] \in 0 .. Byte - 1 /\ local[p].cnt \in 0 .. Byte - 1
      BY DEF ServiceInv, MpuTypeOK
    <3>2. CASE Feed(p) BY <3>1, <3>2, WriteCases DEF Feed
    <3>3. CASE ConfigFeed(p) BY <3>1, <3>3, WriteCases DEF ConfigFeed
    <3> QED BY <1>4, <3>2, <3>3
  <2>2. Fed(v).dtc = mcu.dtc /\ Fed(v).nvm = mcu.nvm BY <1>1 DEF Fed, McuType
  <2> QED BY <2>1, <2>2
<1>5. CASE ConfigWrite(p)
  <2> DEFINE m == [mcu EXCEPT !.wdog = job[p].on]
  <2>1. mcu' = mcu \/ mcu' = m BY <1>2, <1>5 DEF ConfigWrite
  <2>2. Keeps(m) BY <1>1 DEF McuType
  <2> QED BY <1>1, <2>1, <2>2
<1>6. CASE DtcWrite(p)
  <2> DEFINE m == [mcu EXCEPT !.dtc = local[p].dtc]
  <2>1. mcu' = mcu \/ mcu' = m BY <1>2, <1>6 DEF DtcWrite
  <2>2. /\ m.cnt = mcu.cnt /\ m.online = mcu.online /\ m.nvm = mcu.nvm
        /\ m.dtc = local[p].dtc
    BY <1>1 DEF McuType
  <2> QED BY <1>1, <1>6, <2>1, <2>2
<1>7. CASE NvmWrite(p)
  <2> DEFINE m == [mcu EXCEPT !.nvm = job[p].index]
  <2>1. mcu' = mcu \/ mcu' = m BY <1>2, <1>7 DEF NvmWrite
  <2>2. m.cnt = mcu.cnt /\ m.online = mcu.online /\ m.dtc = mcu.dtc BY <1>1 DEF McuType
  <2> QED BY <1>1, <1>7, <2>1, <2>2
<1>8. CASE WriteSetting(p)
  <2> DEFINE m == [mcu EXCEPT !.setting[job[p].which] = Stored(job[p].which, job[p].value)]
  <2>1. mcu' = mcu \/ mcu' = m BY <1>2, <1>8 DEF WriteSetting
  <2>2. Keeps(m) BY <1>1 DEF McuType
  <2> QED BY <1>1, <2>1, <2>2
<1>9. CASE SetMode(p)
  <2> DEFINE m == [mcu EXCEPT !.mode = job[p].op]
  <2>1. mcu' = mcu \/ mcu' = m BY <1>2, <1>9 DEF SetMode
  <2>2. Keeps(m) BY <1>1 DEF McuType
  <2> QED BY <1>1, <2>1, <2>2
<1>10. CASE Reset(p)
  <2>1. mcu' = mcu \/ mcu' = Restarted(TRUE) BY <1>2, <1>10 DEF Reset
  <2>2. \A q \in Process : "restart" \in unseen'[q] BY <1>10 DEF Reset, AllNote
  <2> QED BY <1>1, <2>1, <2>2 DEF RestartNoted
<1> QED BY <1>3, <1>4, <1>5, <1>6, <1>7, <1>8, <1>9, <1>10 DEF Step

(* Only its own four accesses move a process that changes the fault map.   *)
LEMMA DtcSteps ==
  ASSUME ServiceInv, NEW p \in Process, Step(p), job[p].op = "dtc"
  PROVE  DtcRead(p) \/ FeedRead(p) \/ Feed(p) \/ DtcWrite(p)
<1>1. PcInv(p) BY DEF ServiceInv
<1> QED BY <1>1 DEF Step, PcInv, ConfigRead, ConfigFeed, ConfigWrite, NvmRead, NvmWrite,
           WriteSetting, Reset, ReadInfo, SetMode, FinalWrite, ReadFails, Goto

(* A restart is noticed by none and noted for all.                         *)
LEMMA HeardRestart ==
  ASSUME NEW q \in Process, RestartNoted PROVE HeardInv(q)'
BY DEF RestartNoted, HeardInv, Blemished

LEMMA HeardOther ==
  ASSUME ServiceInv, NEW p \in Process, NEW q \in Process \ {p}, Step(p), HeardInv(q)
  PROVE  HeardInv(q)'
<1>1. /\ pc'[q] = pc[q] /\ last'[q] = last[q] /\ ret'[q] = ret[q] /\ heard'[q] = heard[q]
      /\ job' = job /\ unseen[q] \subseteq unseen'[q]
  BY OthersKept
<1>2. CASE RestartNoted BY <1>2, HeardRestart
<1>3. CASE mcu'.cnt = mcu.cnt /\ mcu'.online = mcu.online
  BY <1>1, <1>3 DEF HeardInv, Blemished
<1>4. CASE \E v \in 0 .. Byte - 1 : mcu' = Fed(v)
  <2>1. PICK v \in 0 .. Byte - 1 : mcu' = Fed(v) BY <1>4
  <2>2. mcu'.cnt = v /\ mcu'.online = (mcu.online \/ v # mcu.cnt)
    BY <2>1 DEF Fed, ServiceInv, MpuTypeOK, McuType
  <2> QED BY <1>1, <2>2 DEF HeardInv, Blemished
<1> QED BY <1>2, <1>3, <1>4, Effect

LEMMA HeardOwn ==
  ASSUME ServiceInv, ServiceInv', NEW p \in Process, Step(p), HeardInv(p)
  PROVE  HeardInv(p)'
<1> SUFFICES ASSUME job[p].op = "dtc" PROVE HeardInv(p)'
  <2>1. job' = job
    BY DEF Step, FeedRead, Feed, ConfigRead, ConfigFeed, ConfigWrite, DtcRead, DtcWrite,
         NvmRead, NvmWrite, WriteSetting, Reset, ReadInfo, SetMode, FinalWrite
  <2> QED BY <2>1 DEF HeardInv
<1>1. CASE DtcRead(p)
  <2>1. pc'[p] = "feed_read" \/ (pc'[p] = "done" /\ ret'[p] = -1)
    BY <1>1 DEF DtcRead, ReadFails, Goto, ServiceInv, MpuTypeOK
  <2> QED BY <2>1 DEF HeardInv
<1>2. CASE FeedRead(p)
  <2>1. pc'[p] = "feed" /\ mcu' = mcu
    BY <1>2 DEF FeedRead, Goto, ServiceInv, MpuTypeOK
  <2>2. "feed_read" \in unseen'[p] \/ last'[p] = Next8(mcu.cnt)
    BY <1>2 DEF FeedRead, FirstCount, Note, ServiceInv, MpuTypeOK
  <2>3. Next8(mcu.cnt) # mcu.cnt
    <3>1. mcu.cnt \in 0 .. Byte - 1 BY DEF ServiceInv, MpuTypeOK, McuType
    <3>2. Byte \in Nat \ {0} /\ 1 \in 1 .. Byte - 1 BY ByteFits
    <3> QED BY <3>1, <3>2, ModMoves DEF Next8
  <2> QED BY <2>1, <2>2, <2>3 DEF HeardInv, Blemished
<1>3. CASE Feed(p)
  <2>1. PICK code \in {0, -2} :
          /\ Write("feed", Fed(last[p]), code)
          /\ code # 0 => "feed" \in unseen'[p]
          /\ unseen[p] \subseteq unseen'[p]
    BY <1>3 DEF Feed, ServiceInv, MpuTypeOK
  <2>2. pc[p] = "feed"
    BY <1>3 DEF Feed, ServiceInv, PcInv
  <2>3. pc'[p] = "dtc_write"
    BY <1>3 DEF Feed, AfterFeed, ServiceInv, MpuTypeOK
  <2>4. CASE code # 0 BY <2>1, <2>3, <2>4 DEF HeardInv, Blemished
  <2>5. CASE code = 0
    <3>1. mcu' = Fed(last[p]) BY <2>1, <2>5, WriteCases
    <3>2. mcu'.online = (mcu.online \/ last[p] # mcu.cnt)
      BY <3>1 DEF Fed, ServiceInv, MpuTypeOK, McuType
    <3> QED BY <2>1, <2>2, <2>3, <3>2 DEF HeardInv, Blemished
  <2> QED BY <2>4, <2>5
<1>4. CASE DtcWrite(p)
  <2>1. pc[p] = "dtc_write" /\ pc'[p] = "done" /\ heard'[p] = mcu.online
        /\ unseen' = unseen /\ job' = job
    BY <1>4 DEF DtcWrite, FinalWrite, Goto, ServiceInv, MpuTypeOK
  <2> QED BY <2>1 DEF HeardInv, Blemished
<1> QED BY <1>1, <1>2, <1>3, <1>4, DtcSteps

LEMMA HeardStep ==
  ASSUME ServiceInv, ServiceInv', NEW q \in Process, HeardInv(q), [Next]_vars
  PROVE  HeardInv(q)'
<1>1. CASE UNCHANGED vars BY <1>1 DEF vars, HeardInv, Blemished
<1>2. ASSUME NEW p \in Process, Step(p) PROVE HeardInv(q)'
  BY <1>2, HeardOther, HeardOwn
<1>3. CASE McuNvmDone
  <2>1. mcu'.cnt = mcu.cnt /\ mcu'.online = mcu.online
    BY <1>3 DEF McuNvmDone, ServiceInv, MpuTypeOK, McuType
  <2> QED BY <1>3, <2>1 DEF McuNvmDone, HeardInv, Blemished
<1>4. CASE McuSwitch
  <2>1. "restart" \in unseen'[q] BY <1>4 DEF McuSwitch, AllNote
  <2> QED BY <2>1 DEF HeardInv, Blemished
<1>5. CASE McuOffline BY <1>5 DEF McuOffline, HeardInv, Blemished
<1> QED BY <1>1, <1>2, <1>3, <1>4, <1>5 DEF Next

-----------------------------------------------------------------------------
(* What the accesses of a process that changes the map do to it.           *)

MapRead(p) ==
  /\ ChangingMap(p)' /\ local'[p].dtc = Changed(mcu.dtc, job[p]) /\ mcu' = mcu
  /\ unseen[p] \subseteq unseen'[p]
  /\ \A q \in Process \ {p} : ChangingMap(q) => "map" \in unseen'[p] /\ "map" \in unseen'[q]

MapFed(p) ==
  /\ ChangingMap(p) /\ ChangingMap(p)' /\ local'[p] = local[p]
  /\ \A w \in {"map", "restart"} : w \in unseen[p] => w \in unseen'[p]

MapGivenUp(p) == pc'[p] = "done" /\ ret'[p] = -1

MapWritten(p) ==
  /\ pc[p] = "dtc_write" /\ ChangingMap(p) /\ pc'[p] = "done" /\ unseen'[p] = unseen[p]
  /\ ret'[p] = 0 => mcu'.dtc = local[p].dtc

LEMMA MapMoves ==
  ASSUME ServiceInv, NEW p \in Process, Step(p), job[p].op = "dtc"
  PROVE  /\ job' = job
         /\ ~DtcWrite(p) => MapRead(p) \/ MapFed(p) \/ MapGivenUp(p)
         /\ DtcWrite(p) => MapWritten(p)
<1>1. CASE DtcRead(p)
  <2>1. CASE ReadFails(p, "dtc_read", -1)
    BY <1>1, <2>1 DEF DtcRead, DtcWrite, FinalWrite, ReadFails, Goto, MapGivenUp, ServiceInv,
         MpuTypeOK
  <2>2. CASE /\ Goto(p, "dtc_read", "feed_read")
             /\ local' = [local EXCEPT ![p].dtc = Changed(mcu.dtc, job[p])]
             /\ NoteAll(p, {q \in Process : ChangingMap(q)}, {"map"})
    <3>1. job' = job /\ mcu' = mcu BY <1>1 DEF DtcRead
    <3>2. pc'[p] = "feed_read" /\ pc[p] = "dtc_read"
      BY <2>2 DEF Goto, ServiceInv, MpuTypeOK
    <3>3. local'[p].dtc = Changed(mcu.dtc, job[p]) BY <2>2 DEF ServiceInv, MpuTypeOK
    <3>4. /\ unseen[p] \subseteq unseen'[p]
          /\ \A q \in Process \ {p} :
               ChangingMap(q) => "map" \in unseen'[p] /\ "map" \in unseen'[q]
      BY <2>2 DEF NoteAll
    <3> QED BY <3>1, <3>2, <3>3, <3>4 DEF MapRead, ChangingMap, DtcWrite, FinalWrite, Goto
  <2> QED BY <1>1, <2>1, <2>2 DEF DtcRead
<1>2. CASE FeedRead(p)
  <2>1. pc[p] = "feed_read" /\ pc'[p] = "feed" /\ job' = job /\ local' = local
    BY <1>2 DEF FeedRead, Goto, ServiceInv, MpuTypeOK
  <2>2. \A w \in {"map", "restart"} : w \in unseen[p] => w \in unseen'[p]
    BY <1>2 DEF FeedRead, Note, ServiceInv, MpuTypeOK
  <2> QED BY <2>1, <2>2 DEF MapFed, ChangingMap, DtcWrite, FinalWrite, Goto
<1>3. CASE Feed(p)
  <2>1. pc[p] \in {"feed", "feed_read"} /\ job' = job /\ local' = local
    BY <1>3 DEF Feed
  <2>2. pc'[p] = "dtc_write" BY <1>3 DEF Feed, AfterFeed, ServiceInv, MpuTypeOK
  <2>3. \A w \in {"map", "restart"} : w \in unseen[p] => w \in unseen'[p]
    BY <1>3 DEF Feed, ServiceInv, MpuTypeOK
  <2> QED BY <2>1, <2>2, <2>3 DEF MapFed, ChangingMap, DtcWrite, FinalWrite, Goto
<1>4. CASE DtcWrite(p)
  <2>1. PICK code \in {0, -2} :
          /\ Write("dtc_write", [mcu EXCEPT !.dtc = local[p].dtc], code)
          /\ ret' = [ret EXCEPT ![p] = IF code < 0 THEN -1 ELSE 0]
    BY <1>4 DEF DtcWrite, FinalWrite
  <2>2. pc[p] = "dtc_write" /\ pc'[p] = "done" /\ job' = job /\ unseen' = unseen
    BY <1>4 DEF DtcWrite, FinalWrite, Goto, ServiceInv, MpuTypeOK
  <2>3. ret'[p] = 0 => code = 0 BY <2>1 DEF ServiceInv, MpuTypeOK
  <2>4. code = 0 => mcu' = [mcu EXCEPT !.dtc = local[p].dtc] BY <2>1, WriteCases
  <2>5. code = 0 => mcu'.dtc = local[p].dtc
    BY <2>4 DEF ServiceInv, MpuTypeOK, McuType
  <2> QED BY <1>4, <2>2, <2>3, <2>5 DEF MapWritten, ChangingMap
<1> QED BY <1>1, <1>2, <1>3, <1>4, DtcSteps

(* Another service leaves the job alone.                                   *)
LEMMA JobKept ==
  ASSUME ServiceInv, NEW p \in Process, Step(p)
  PROVE  job' = job /\ \A q \in Process : Others(q)' = Others(q)
<1>1. job' = job
  BY DEF Step, FeedRead, Feed, ConfigRead, ConfigFeed, ConfigWrite, DtcRead, DtcWrite,
         NvmRead, NvmWrite, WriteSetting, Reset, ReadInfo, SetMode, FinalWrite
<1> QED BY <1>1 DEF Others

LEMMA BlemishKept ==
  ASSUME ServiceInv, NEW p \in Process, NEW q \in Process, Step(p), job[q].op = "dtc",
         Blemished(q, {"map", "restart"})
  PROVE  Blemished(q, {"map", "restart"})'
<1>1. CASE q # p BY <1>1, OthersKept DEF Blemished
<1>2. CASE q = p
  <2>2. CASE DtcRead(p)
    BY <1>2, <2>2 DEF DtcRead, NoteAll, Blemished, ServiceInv, MpuTypeOK
  <2>3. CASE FeedRead(p)
    BY <1>2, <2>3 DEF FeedRead, Note, Blemished, ServiceInv, MpuTypeOK
  <2>4. CASE Feed(p) BY <1>2, <2>4 DEF Feed, Blemished, ServiceInv, MpuTypeOK
  <2>5. CASE DtcWrite(p) BY <1>2, <2>5 DEF DtcWrite, Blemished
  <2> QED BY <1>2, <2>2, <2>3, <2>4, <2>5, DtcSteps
<1> QED BY <1>1, <1>2

LEMMA ToldOf ==
  ASSUME ServiceInv, NEW p \in Process, CopyInv(p), ChangingMap(p)
  PROVE  AsTold(p, local[p].dtc)
BY DEF CopyInv, AsTold

(* Changing the faults of q keeps what r was told, unless they contradict. *)
LEMMA ChangedKeepsTold ==
  ASSUME NEW q \in Process, NEW r \in Process, q # r, job[q].op = "dtc", NEW map,
         AsTold(r, map)
  PROVE  AsTold(r, Changed(map, job[q]))
<1>1. q \in Others(r) BY DEF Others
<1> QED BY <1>1 DEF AsTold, Changed

LEMMA ToldStep ==
  ASSUME ServiceInv, NEW p \in Process, Step(p), MapInv, NEW q \in Process
  PROVE  ToldSticks(q)'
<1> SUFFICES ASSUME DtcAcked(q)', ~Blemished(q, {"map", "restart"})'
             PROVE  AsTold(q, mcu.dtc)'
  BY DEF ToldSticks
<1>1. job' = job /\ Others(q)' = Others(q) BY JobKept
<1>2. job[q].op = "dtc" BY <1>1 DEF DtcAcked
<1>3. ~Blemished(q, {"map", "restart"}) BY <1>2, BlemishKept
<1>4. ~RestartNoted BY DEF RestartNoted, Blemished
<1>5. AsTold(q, mcu'.dtc)
  <2>1. CASE q # p
    <3>1. DtcAcked(q) BY <1>1, <2>1, OthersKept DEF DtcAcked
    <3>2. CASE mcu'.dtc = mcu.dtc BY <1>3, <3>1, <3>2 DEF MapInv, ToldSticks
    <3>3. CASE DtcWrite(p) /\ mcu'.dtc = local[p].dtc
      <4>1. ChangingMap(p) BY <3>3 DEF DtcWrite, FinalWrite, Goto, ChangingMap, ServiceInv, PcInv
      <4> QED BY <1>3, <2>1, <3>1, <3>3, <4>1 DEF MapInv, RivalInv
    <3> QED BY <1>4, <3>2, <3>3, Effect
  <2>2. CASE q = p
    <3>1. pc'[p] = "done" /\ ret'[p] = 0 BY <2>2 DEF DtcAcked
    <3>2. DtcWrite(p)
      <4>1. ~MapRead(p) /\ ~MapFed(p) /\ ~MapGivenUp(p)
        BY <3>1 DEF MapRead, MapFed, MapGivenUp, ChangingMap
      <4> QED BY <1>2, <2>2, <4>1, MapMoves
    <3>3. MapWritten(p) BY <1>2, <2>2, <3>2, MapMoves
    <3>4. mcu'.dtc = local[p].dtc /\ ChangingMap(p) BY <3>1, <3>3 DEF MapWritten
    <3>5. CopyInv(p) BY DEF MapInv
    <3> QED BY <2>2, <3>4, <3>5, ToldOf
  <2> QED BY <2>1, <2>2
<1> QED BY <1>1, <1>5 DEF AsTold

LEMMA WriterChanges ==
  ASSUME ServiceInv, NEW p \in Process, DtcWrite(p)
  PROVE  ChangingMap(p) /\ pc[p] = "dtc_write"
BY DEF DtcWrite, FinalWrite, Goto, ChangingMap, ServiceInv, PcInv

LEMMA CopyStep ==
  ASSUME ServiceInv, NEW p \in Process, Step(p), MapInv, NEW q \in Process
  PROVE  CopyInv(q)'
<1> SUFFICES ASSUME ChangingMap(q)' PROVE CopyInv(q)'
  BY DEF CopyInv
<1>1. job' = job BY JobKept
<1>2. job[q].op = "dtc" BY <1>1 DEF ChangingMap
<1>3. CASE q # p
  <2>1. ChangingMap(q) /\ local'[q] = local[q] /\ unseen[q] \subseteq unseen'[q]
    BY <1>1, <1>3, OthersKept DEF ChangingMap
  <2>2. CopyInv(q) BY DEF MapInv
  <2>3. CASE RestartNoted
    BY <1>1, <2>1, <2>2, <2>3 DEF RestartNoted, Blemished, CopyInv
  <2>4. CASE mcu'.dtc = mcu.dtc
    BY <1>1, <2>1, <2>2, <2>4 DEF Blemished, CopyInv
  <2>5. CASE DtcWrite(p)
    <3>1. RivalInv(q, p) /\ ChangingMap(p) BY <2>5, WriterChanges DEF MapInv
    <3>2. "map" \in unseen[q] BY <1>3, <2>1, <3>1 DEF RivalInv
    <3> QED BY <1>1, <2>1, <2>2, <3>2 DEF Blemished, CopyInv
  <2> QED BY <2>3, <2>4, <2>5, Effect
<1>4. CASE q = p
  <2>1. ~MapGivenUp(p) /\ ~MapWritten(p)
    BY <1>4 DEF MapGivenUp, MapWritten, ChangingMap
  <2>2. ~DtcWrite(p) BY <1>2, <1>4, <2>1, MapMoves
  <2>3. CASE MapRead(p)
    <3>1. local'[p].dtc = Changed(mcu.dtc, job[p]) /\ mcu'.dtc = mcu.dtc BY <2>3 DEF MapRead
    <3>2. job[p].set # job[p].clean
      <4>1. pc[p] # "done"
        BY <1>2, <1>4, <2>2, DtcSteps DEF DtcRead, ReadFails, FeedRead, Feed, Goto
      <4> QED BY <1>2, <1>4, <4>1 DEF ServiceInv, PcInv
    <3> QED BY <1>1, <1>4, <3>1, <3>2 DEF CopyInv, Changed
  <2>4. CASE MapFed(p)
    <3>1. CopyInv(p) BY DEF MapInv
    <3>2. mcu'.dtc = mcu.dtc \/ RestartNoted BY <2>2, Effect
    <3> QED BY <1>1, <1>4, <2>4, <3>1, <3>2
            DEF MapFed, CopyInv, Blemished, RestartNoted
  <2> QED BY <1>2, <1>4, <2>1, <2>2, <2>3, <2>4, MapMoves
<1> QED BY <1>3, <1>4

LEMMA RivalStep ==
  ASSUME ServiceInv, NEW p \in Process, Step(p), MapInv, NEW q \in Process, NEW r \in Process
  PROVE  RivalInv(q, r)'
<1> SUFFICES ASSUME q # r, ChangingMap(q)'
             PROVE  /\ ChangingMap(r)' => "map" \in unseen'[q]
                    /\ DtcAcked(r)' /\ ~Blemished(r, {"map", "restart"})'
                         => AsTold(r, local[q].dtc)'
  BY DEF RivalInv
<1>1. job' = job /\ Others(r)' = Others(r) BY JobKept
<1>2. job[q].op = "dtc" BY <1>1 DEF ChangingMap
<1>3. RivalInv(q, r) /\ ToldSticks(r) BY DEF MapInv
<1>4. DtcAcked(r)' /\ ~Blemished(r, {"map", "restart"})'
        => job[r].op = "dtc" /\ ~Blemished(r, {"map", "restart"})
  BY <1>1, BlemishKept DEF DtcAcked
<1>5. AsTold(r, local[q].dtc)' <=> AsTold(r, local'[q].dtc) BY <1>1 DEF AsTold
<1>6. CASE p # q /\ p # r
  <2>1. /\ pc'[q] = pc[q] /\ local'[q] = local[q] /\ unseen[q] \subseteq unseen'[q]
        /\ pc'[r] = pc[r] /\ ret'[r] = ret[r]
    BY <1>6, OthersKept
  <2>2. /\ ChangingMap(q) /\ (ChangingMap(r)' => ChangingMap(r))
        /\ DtcAcked(r)' => DtcAcked(r)
    BY <1>1, <2>1 DEF ChangingMap, DtcAcked
  <2> QED BY <1>3, <1>4, <1>5, <1>6, <2>1, <2>2 DEF RivalInv
<1>7. CASE p = q
  <2>1. pc'[r] = pc[r] /\ ret'[r] = ret[r] BY <1>7, OthersKept
  <2>2. /\ ChangingMap(r)' => ChangingMap(r)
        /\ DtcAcked(r)' => DtcAcked(r)
    BY <1>1, <2>1 DEF ChangingMap, DtcAcked
  <2>3. CASE MapRead(p)
    <3>1. DtcAcked(r) /\ ~Blemished(r, {"map", "restart"})
            => AsTold(r, Changed(mcu.dtc, job[q]))
      BY <1>2, <1>3, ChangedKeepsTold DEF ToldSticks
    <3>2. ChangingMap(r) => "map" \in unseen'[q] BY <1>7, <2>3 DEF MapRead
    <3>3. local'[q].dtc = Changed(mcu.dtc, job[q]) BY <1>7, <2>3 DEF MapRead
    <3> QED BY <1>4, <1>5, <2>2, <3>1, <3>2, <3>3
  <2>4. CASE MapFed(p)
    BY <1>3, <1>4, <1>5, <1>7, <2>2, <2>4 DEF MapFed, RivalInv
  <2>5. ~MapGivenUp(p) /\ ~MapWritten(p)
    BY <1>7 DEF MapGivenUp, MapWritten, ChangingMap
  <2> QED BY <1>2, <1>7, <2>3, <2>4, <2>5, MapMoves
<1>8. CASE p = r
  <2>1. /\ pc'[q] = pc[q] /\ local'[q] = local[q] /\ unseen[q] \subseteq unseen'[q]
    BY <1>8, OthersKept
  <2>2. ChangingMap(q) BY <1>1, <2>1 DEF ChangingMap
  <2>3. CASE job[r].op # "dtc" BY <1>1, <2>3 DEF ChangingMap, DtcAcked
  <2>4. CASE job[r].op = "dtc"
    <3>1. CASE MapRead(r)
      BY <1>8, <2>2, <3>1 DEF MapRead, DtcAcked, ChangingMap
    <3>2. CASE MapFed(r)
      BY <1>3, <1>8, <2>1, <2>2, <3>2 DEF MapFed, DtcAcked, ChangingMap, RivalInv
    <3>3. CASE MapGivenUp(r) BY <3>3 DEF MapGivenUp, DtcAcked, ChangingMap
    <3>4. CASE MapWritten(r)
      <4>1. RivalInv(r, q) BY DEF MapInv
      <4>2. "map" \in unseen'[r] BY <1>8, <2>2, <3>4, <4>1 DEF MapWritten, RivalInv
      <4> QED BY <3>4, <4>2 DEF MapWritten, ChangingMap, Blemished
    <3> QED BY <1>8, <2>4, <3>1, <3>2, <3>3, <3>4, MapMoves
  <2> QED BY <2>3, <2>4
<1> QED BY <1>6, <1>7, <1>8

(* What the MCU does on its own.                                           *)
LEMMA MapMcu ==
  ASSUME ServiceInv, MapInv, McuNvmDone \/ McuSwitch \/ McuOffline,
         NEW q \in Process, NEW r \in Process
  PROVE  ToldSticks(q)' /\ CopyInv(q)' /\ RivalInv(q, r)'
<1>1. UNCHANGED <<job, pc, local, ret>> BY DEF McuNvmDone, McuSwitch, McuOffline
<1>2. \A x \in Process : unseen[x] \subseteq unseen'[x]
  BY DEF McuNvmDone, McuSwitch, McuOffline, AllNote
<1>3. mcu'.dtc = mcu.dtc \/ \A x \in Process : "restart" \in unseen'[x]
  BY DEF McuNvmDone, McuSwitch, McuOffline, AllNote, ServiceInv, MpuTypeOK, McuType
<1>4. ToldSticks(q) /\ CopyInv(q) /\ RivalInv(q, r) BY DEF MapInv
<1>5. ToldSticks(q)'
  BY <1>1, <1>2, <1>3, <1>4 DEF ToldSticks, DtcAcked, Blemished, AsTold, Others
<1>6. CopyInv(q)' BY <1>1, <1>2, <1>3, <1>4 DEF CopyInv, ChangingMap, Blemished
<1>7. RivalInv(q, r)'
  BY <1>1, <1>2, <1>4 DEF RivalInv, ChangingMap, DtcAcked, Blemished, AsTold, Others
<1> QED BY <1>5, <1>6, <1>7

LEMMA MapStep ==
  ASSUME ServiceInv, ServiceInv', MapInv, [Next]_vars
  PROVE  MapInv'
<1>1. ASSUME NEW q \in Process PROVE HeardInv(q)' BY HeardStep DEF MapInv
<1>2. ASSUME NEW q \in Process, NEW r \in Process
      PROVE  ToldSticks(q)' /\ CopyInv(q)' /\ RivalInv(q, r)'
  <2>1. CASE UNCHANGED vars
    <3>1. ToldSticks(q) /\ CopyInv(q) /\ RivalInv(q, r) BY DEF MapInv
    <3>2. UNCHANGED <<mcu, job, pc, local, ret, unseen>> BY <2>1 DEF vars
    <3>3. ToldSticks(q)' BY <3>1, <3>2 DEF ToldSticks, DtcAcked, Blemished, AsTold, Others
    <3>4. CopyInv(q)' BY <3>1, <3>2 DEF CopyInv, ChangingMap, Blemished
    <3>5. RivalInv(q, r)'
      BY <3>1, <3>2 DEF RivalInv, ChangingMap, DtcAcked, Blemished, AsTold, Others
    <3> QED BY <3>3, <3>4, <3>5
  <2>2. ASSUME NEW p \in Process, Step(p) PROVE ToldSticks(q)' /\ CopyInv(q)' /\ RivalInv(q, r)'
    BY <2>2, ToldStep, CopyStep, RivalStep
  <2> QED BY <2>1, <2>2, MapMcu DEF Next
<1> QED BY <1>1, <1>2 DEF MapInv

LEMMA MapInit == Init => MapInv
<1> SUFFICES ASSUME Init, NEW p \in Process, NEW q \in Process
             PROVE  HeardInv(p) /\ ToldSticks(p) /\ CopyInv(p) /\ RivalInv(p, q)
  BY DEF MapInv
<1>1. pc[p] = First(job[p]) /\ job[p] \in JobType BY JobOf DEF Init
<1>2. job[p].op = "dtc" => pc[p] = IF job[p].set = job[p].clean THEN "done" ELSE "dtc_read"
  BY <1>1 DEF First
<1>3. HeardInv(p) BY <1>2 DEF HeardInv
<1>4. ~ChangingMap(p) /\ ~DtcAcked(p) BY <1>2 DEF ChangingMap, DtcAcked
<1> QED BY <1>3, <1>4 DEF ToldSticks, CopyInv, RivalInv

-----------------------------------------------------------------------------
(* The NVM command.                                                        *)

LEMMA NvmInit == Init => NvmInv
<1> SUFFICES ASSUME Init, NEW p \in Process PROVE pc[p] # "nvm_write"
  BY DEF NvmInv
<1>1. pc[p] = First(job[p]) /\ job[p] \in JobType BY JobOf DEF Init
<1>2. job[p].op \in {"online", "reset", "goto", "exit", "dtc", "nvm", "wdog", "setting"}
  BY <1>1, JobFields
<1> QED BY <1>1, <1>2 DEF First

(* How a process comes to the write.                                       *)
LEMMA NvmFound ==
  ASSUME ServiceInv, NEW p \in Process, Step(p), pc'[p] = "nvm_write"
  PROVE  /\ mcu'.nvm = 0
         /\ \A q \in Process \ {p} :
              pc[q] = "nvm_write" => "command" \in unseen'[p] /\ "command" \in unseen'[q]
<1>1. NvmRead(p)
  <2> USE DEF ServiceInv, MpuTypeOK
  <2>1. ~FeedRead(p) BY DEF FeedRead, Goto
  <2>2. ~Feed(p) BY DEF Feed, AfterFeed
  <2>3. ~ConfigRead(p) /\ ~ConfigFeed(p) BY DEF ConfigRead, ConfigFeed, Goto
  <2>4. ~ConfigWrite(p) /\ ~DtcWrite(p) /\ ~NvmWrite(p) /\ ~WriteSetting(p) /\ ~Reset(p)
        /\ ~SetMode(p)
    BY DEF ConfigWrite, DtcWrite, NvmWrite, WriteSetting, Reset, SetMode, FinalWrite, Goto
  <2>5. ~DtcRead(p) BY DEF DtcRead, ReadFails, Goto
  <2>6. ~ReadInfo(p) BY DEF ReadInfo, ReadFails, Goto
  <2> QED BY <2>1, <2>2, <2>3, <2>4, <2>5, <2>6 DEF Step
<1>2. mcu.nvm = 0 /\ NoteAll(p, {q \in Process : pc[q] = "nvm_write"}, {"command"})
  BY <1>1 DEF NvmRead, ReadFails, Goto, ServiceInv, MpuTypeOK
<1>3. mcu' = mcu BY <1>1 DEF NvmRead
<1>4. \A q \in Process \ {p} :
        pc[q] = "nvm_write" => "command" \in unseen'[p] /\ "command" \in unseen'[q]
  BY <1>2 DEF NoteAll
<1> QED BY <1>2, <1>3, <1>4

LEMMA NvmLeft ==
  ASSUME ServiceInv, NEW p \in Process, Step(p), pc[p] = "nvm_write"
  PROVE  pc'[p] = "done"
<1>1. NvmWrite(p)
  BY DEF Step, FeedRead, Feed, ConfigRead, ConfigFeed, ConfigWrite, DtcRead, DtcWrite,
       NvmRead, WriteSetting, Reset, ReadInfo, SetMode, FinalWrite, ReadFails, Goto
<1> QED BY <1>1 DEF NvmWrite, FinalWrite, Goto, ServiceInv, MpuTypeOK

LEMMA NvmStep ==
  ASSUME ServiceInv, NvmInv, [Next]_vars
  PROVE  NvmInv'
<1>1. CASE UNCHANGED vars BY <1>1 DEF vars, NvmInv
<1>2. ASSUME NEW p \in Process, Step(p) PROVE NvmInv'
  <2> SUFFICES ASSUME NEW q \in Process, pc'[q] = "nvm_write"
               PROVE  /\ "command" \in unseen'[q] \/ mcu'.nvm = 0
                      /\ \A r \in Process \ {q} :
                           pc'[r] = "nvm_write" => "command" \in unseen'[q]
    BY DEF NvmInv
  <2>1. pc'[p] = "nvm_write" => pc[p] # "nvm_write" BY <1>2, NvmLeft
  <2>2. CASE q = p
    <3>1. \A r \in Process \ {q} : pc'[r] = pc[r] BY <1>2, <2>2, OthersKept
    <3> QED BY <1>2, <2>2, <3>1, NvmFound
  <2>3. CASE q # p
    <3>1. pc[q] = "nvm_write" /\ unseen[q] \subseteq unseen'[q]
      BY <1>2, <2>3, OthersKept
    <3>2. \A r \in Process \ {p} : pc'[r] = pc[r] BY <1>2, OthersKept
    <3>3. "command" \in unseen'[q] \/ mcu'.nvm = 0
      <4>1. CASE mcu'.nvm = mcu.nvm BY <3>1, <4>1 DEF NvmInv
      <4>2. CASE NvmWrite(p)
        <5>1. pc[p] = "nvm_write" BY <4>2 DEF NvmWrite, FinalWrite, Goto
        <5> QED BY <2>3, <3>1, <5>1 DEF NvmInv
      <4>3. CASE RestartNoted
        <5>1. PICK app \in BOOLEAN : mcu' = Restarted(app) BY <4>3 DEF RestartNoted
        <5>2. mcu'.nvm = 0 BY <5>1 DEF Restarted, ServiceInv, MpuTypeOK, McuType
        <5> QED BY <5>2
      <4> QED BY <1>2, <4>1, <4>2, <4>3, Effect
    <3>4. pc'[p] = "nvm_write" => "command" \in unseen'[q]
      BY <1>2, <2>3, <3>1, NvmFound
    <3>5. ASSUME NEW r \in Process \ {q}, r # p, pc'[r] = "nvm_write"
          PROVE  "command" \in unseen'[q]
      BY <3>1, <3>2, <3>5 DEF NvmInv
    <3> QED BY <3>3, <3>4, <3>5
  <2> QED BY <2>2, <2>3
<1>3. CASE McuNvmDone \/ McuSwitch \/ McuOffline
  <2>1. pc' = pc BY <1>3 DEF McuNvmDone, McuSwitch, McuOffline
  <2>2. \A x \in Process : unseen[x] \subseteq unseen'[x]
    BY <1>3 DEF McuNvmDone, McuSwitch, McuOffline, AllNote
  <2>3. mcu'.nvm = mcu.nvm \/ mcu'.nvm = 0
    BY <1>3 DEF McuNvmDone, McuSwitch, McuOffline, Restarted, ServiceInv, MpuTypeOK, McuType
  <2> QED BY <2>1, <2>2, <2>3 DEF NvmInv
<1> QED BY <1>1, <1>2, <1>3 DEF Next

-----------------------------------------------------------------------------
MpuInv == ServiceInv /\ MapInv /\ NvmInv

(* The invariant holds of every behaviour.                                 *)
THEOREM MpuInvariant == Spec => []MpuInv
<1>1. Init => MpuInv BY ServiceInit, MapInit, NvmInit DEF MpuInv
<1>2. MpuInv /\ [Next]_vars => MpuInv' BY ServiceStep, MapStep, NvmStep DEF MpuInv
<1> QED BY <1>1, <1>2, PTL DEF Spec

(* A fault set or cleaned with result 0 stays so, for any number of        *)
(* processes and faults, unless another changed the map at the same time,  *)
(* was told the opposite, or the MCU restarted.                            *)
THEOREM AckedSticks == Spec => []AckedDtcSticks
<1>1. MpuInv => AckedDtcSticks
  BY DEF MpuInv, MapInv, ToldSticks, AsTold, Blemished, AckedDtcSticks
<1> QED BY <1>1, MpuInvariant, PTL

(* A fault map that was acknowledged was written to an MCU that takes the  *)
(* MPU for online, whatever other feeders do.                              *)
THEOREM MapIsHeard == Spec => []DtcHeard
<1>1. MpuInv => DtcHeard
  BY DEF MpuInv, MapInv, HeardInv, Blemished, DtcAcked, DtcHeard
<1> QED BY <1>1, MpuInvariant, PTL

(* A fault changes only if some process was told to change it, the MCU     *)
(* restarts, or the map written was read before another change.            *)
THEOREM OthersUntouched == Spec => OtherDtcUntouched
<1>1. MpuInv /\ [Next]_vars =>
        [\A f \in Dtc :
           (f \in mcu.dtc) # (f \in mcu'.dtc) =>
             \/ mcu' = Restarted(mcu'.app)
             \/ \E p \in Process : pc[p] = "dtc_write" /\ unseen[p] \cap {"map", "restart"} # {}
             \/ f \in Mask /\ \E p \in Process : job[p].op = "dtc" /\ f \in {job[p].set, job[p].clean}]_vars
  <2> SUFFICES ASSUME MpuInv, Next, NEW f \in Dtc, (f \in mcu.dtc) # (f \in mcu'.dtc)
               PROVE  \/ mcu' = Restarted(mcu'.app)
                      \/ \E p \in Process : /\ pc[p] = "dtc_write"
                                            /\ unseen[p] \cap {"map", "restart"} # {}
                      \/ /\ f \in Mask
                         /\ \E p \in Process : /\ job[p].op = "dtc"
                                               /\ f \in {job[p].set, job[p].clean}
    OBVIOUS
  <2>1. ServiceInv /\ MapInv BY DEF MpuInv
  <2>2. ASSUME NEW app \in BOOLEAN, mcu' = Restarted(app) PROVE mcu' = Restarted(mcu'.app)
    BY <2>1, <2>2 DEF Restarted, ServiceInv, MpuTypeOK, McuType
  <2>3. ASSUME NEW p \in Process, Step(p), ~RestartNoted
        PROVE  /\ pc[p] = "dtc_write" /\ job[p].op = "dtc"
               /\ Blemished(p, {"map", "restart"})
                  \/ (f \in Mask /\ f \in {job[p].set, job[p].clean})
    <3>1. DtcWrite(p) /\ mcu'.dtc = local[p].dtc BY <2>1, <2>3, Effect
    <3>2. ChangingMap(p) /\ pc[p] = "dtc_write" BY <2>1, <3>1, WriterChanges
    <3>3. CopyInv(p) BY <2>1 DEF MapInv
    <3> QED BY <3>1, <3>2, <3>3 DEF CopyInv, ChangingMap
  <2>4. ~McuNvmDone /\ ~McuOffline
    BY <2>1 DEF McuNvmDone, McuOffline, ServiceInv, MpuTypeOK, McuType
  <2>5. CASE McuSwitch
    <3>1. (mcu.mode = "exit") \in BOOLEAN OBVIOUS
    <3> QED BY <2>2, <2>5, <3>1 DEF McuSwitch
  <2>6. ASSUME NEW p \in Process, Step(p)
        PROVE  \/ mcu' = Restarted(mcu'.app)
               \/ /\ pc[p] = "dtc_write" /\ unseen[p] \cap {"map", "restart"} # {}
               \/ f \in Mask /\ job[p].op = "dtc" /\ f \in {job[p].set, job[p].clean}
    <3>1. CASE RestartNoted BY <2>2, <3>1 DEF RestartNoted
    <3>2. CASE ~RestartNoted BY <2>3, <2>6, <3>2 DEF Blemished
    <3> QED BY <3>1, <3>2
  <2> QED BY <2>4, <2>5, <2>6 DEF Next
<1> QED BY <1>1, MpuInvariant, PTL DEF Spec, OtherDtcUntouched

(* A command given to the NVM is finished before the next is written,      *)
(* unless two cleaners found the register idle.                            *)
THEOREM CommandsFinish == Spec => NvmNotReplaced
<1>1. MpuInv /\ [Next]_vars =>
        [mcu.nvm # 0 /\ mcu'.nvm # mcu.nvm =>
           \/ mcu'.nvm = 0
           \/ \E p \in Process : pc[p] = "nvm_write" /\ "command" \in unseen[p]]_vars
  <2> SUFFICES ASSUME MpuInv, Next, mcu.nvm # 0, mcu'.nvm # mcu.nvm, mcu'.nvm # 0
               PROVE  \E p \in Process : pc[p] = "nvm_write" /\ "command" \in unseen[p]
    OBVIOUS
  <2>1. ServiceInv /\ NvmInv BY DEF MpuInv
  <2>2. ~McuNvmDone /\ ~McuSwitch /\ ~McuOffline
    BY <2>1 DEF McuNvmDone, McuSwitch, McuOffline, Restarted, ServiceInv, MpuTypeOK, McuType
  <2>3. PICK p \in Process : Step(p) BY <2>2 DEF Next
  <2>4. ~RestartNoted
    BY <2>1 DEF RestartNoted, Restarted, ServiceInv, MpuTypeOK, McuType
  <2>5. NvmWrite(p) BY <2>1, <2>3, <2>4, Effect
  <2>6. pc[p] = "nvm_write" BY <2>5 DEF NvmWrite, FinalWrite, Goto
  <2> QED BY <2>1, <2>6 DEF NvmInv
<1> QED BY <1>1, MpuInvariant, PTL DEF Spec, NvmNotReplaced

=============================================================================
