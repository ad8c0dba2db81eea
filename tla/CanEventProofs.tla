--------------------------- MODULE CanEventProofs ---------------------------
(* Proofs about the display of the CAN events, for every table, every      *)
(* change of it and every moment the changes come at.                      *)
EXTENDS CanEvent, TLAPS, NaturalsInduction, WellFoundedInduction

LEMMA Numbers == Byte \in Nat /\ Byte > 0 /\ U16 \in Nat /\ U16 > 0 /\ U32 \in Nat /\ U32 > 0
BY CanEventAssumption DEF U16, U32

(* Every line needs an event, and all that it needs is in the table.       *)
LEMMA LinesHaveEvents ==
  /\ \A l \in DOMAIN Line : ToSet(Line[l]) # {}
  /\ \A l \in DOMAIN Line : \A i \in DOMAIN Line[l] : Line[l][i] \in Event
<1>1. \A l \in DOMAIN Line : ToSet(Line[l]) # {}
  <2>1. \A l \in DOMAIN Line : 1 \in DOMAIN Line[l]
    BY DEF Line
  <2> QED
    BY <2>1, Zenon DEF ToSet
<1>2. \A l \in DOMAIN Line : \A i \in DOMAIN Line[l] : Line[l][i] \in Event
  BY SMTT(60) DEF Line, Event, UseCnt
<1> QED
  BY <1>1, <1>2

(* A line with texts is a line of one byte.                                *)
LEMMA LinesWithTexts ==
  /\ \A l \in DOMAIN Texts : Texts[l] \in Nat /\ l \in DOMAIN Line /\ Len(Line[l]) = 1
  /\ DOMAIN Texts \cap {"time", "haul", "angle"} = {}
BY DEF Line, Texts

(* The last valid event: no event of the flags is after it.                *)
LEMMA LastValid ==
  ASSUME NEW f, f \subseteq Event
  PROVE  /\ ValidMax(f) \in Event
         /\ \A e \in f : e <= ValidMax(f)
<1> DEFINE S == f \cup {0}
           T == {UseCnt - e : e \in S}
<1>1. S \subseteq Nat /\ S # {} /\ \A e \in S : e < UseCnt
  BY DEF Event, UseCnt
<1>2. T \subseteq Nat /\ T # {}
  BY <1>1 DEF UseCnt
<1> HIDE DEF T
<1>3. PICK n \in T : \A m \in T : <<m, n>> \notin OpToRel(<, Nat)
  BY <1>2, NatLessThanWellFounded, WFMin
<1>4. \A m \in T : n <= m
  <2> SUFFICES ASSUME NEW m \in T, m < n PROVE FALSE
    BY <1>2
  <2>1. <<m, n>> \in OpToRel(<, Nat)
    BY <1>2 DEF OpToRel
  <2> QED
    BY <1>3, <2>1
<1>5. PICK x \in S : n = UseCnt - x
  BY <1>3 DEF T
<1>6. \A y \in S : y <= x
  <2> SUFFICES ASSUME NEW y \in S PROVE y <= x
    OBVIOUS
  <2>1. UseCnt - y \in T
    BY DEF T
  <2>2. n <= UseCnt - y
    BY <1>4, <2>1
  <2> QED
    BY <1>1, <1>5, <2>2 DEF UseCnt
<1>7. ValidMax(f) \in S /\ \A y \in S : y <= ValidMax(f)
  BY Zenon, <1>6 DEF ValidMax, Largest
<1> DEFINE v == ValidMax(f)
<1>8. v \in Event /\ \A e \in f : e <= v
  <2>1. v \in S /\ (\A y \in S : y <= v) /\ 0 \in Event
    BY <1>7 DEF Event, UseCnt
  <2> HIDE DEF v
  <2> QED
    BY <2>1
<1> QED
  BY <1>8

(* What the MCU hears keeps its table a table.                             *)
LEMMA UpdatedTable ==
  ASSUME mcu \in TableType, Update PROVE mcu' \in TableType
<1>1. PICK u \in Updates :
        LET events == ToSet(Line[u.line])
            at(e) == CHOOSE i \in DOMAIN Line[u.line] : Line[u.line][i] = e
        IN mcu' = IF u.bytes = <<>> THEN [mcu EXCEPT !.valid = @ \ events]
                  ELSE [valid |-> mcu.valid \cup events,
                        value |-> [e \in Event |->
                          IF e \in events THEN u.bytes[at(e)] ELSE mcu.value[e]]]
  BY DEF Update
<1> DEFINE events == ToSet(Line[u.line])
           at(e) == CHOOSE i \in DOMAIN Line[u.line] : Line[u.line][i] = e
<1>2. u.line \in DOMAIN Line
  BY CanEventAssumption DEF UpdateType
<1>3. events \subseteq Event
  BY <1>2, LinesHaveEvents DEF ToSet
<1>4. mcu.valid \subseteq Event /\ mcu.value \in [Event -> 0 .. Byte - 1]
  BY DEF TableType
<1>5. CASE u.bytes = <<>>
  <2>1. mcu' = [mcu EXCEPT !.valid = mcu.valid \ events]
    BY <1>1, <1>5
  <2> HIDE DEF events
  <2> QED
    BY <2>1, <1>4 DEF TableType
<1>6. CASE u.bytes # <<>>
  <2>1. mcu' = [valid |-> mcu.valid \cup events,
                value |-> [e \in Event |->
                             IF e \in events THEN u.bytes[at(e)] ELSE mcu.value[e]]]
    BY <1>1, <1>6
  <2>2. ASSUME NEW e \in events PROVE u.bytes[at(e)] \in 0 .. Byte - 1
    <3>1. at(e) \in DOMAIN Line[u.line]
      BY Zenon, <2>2 DEF ToSet
    <3>2. at(e) \in DOMAIN u.bytes
      BY Zenon, <1>6, <3>1, CanEventAssumption
    <3>3. PICK n \in {0, 1, 2, 4, 6} : u.bytes \in [1 .. n -> 0 .. Byte - 1]
      BY CanEventAssumption DEF UpdateType
    <3> QED
      BY <3>2, <3>3
  <2> HIDE DEF events, at
  <2>3. mcu'.value \in [Event -> 0 .. Byte - 1]
    BY <1>4, <2>1, <2>2
  <2>4. mcu'.valid \subseteq Event
    BY <1>3, <1>4, <2>1
  <2> QED
    BY <2>1, <2>3, <2>4 DEF TableType
<1> QED
  BY <1>5, <1>6
-----------------------------------------------------------------------------
(* Where the display is, and what of the table it has.  An event that has  *)
(* been valid all along is among the flags read; what is shown follows     *)
(* from the values read, and these from a table that the MCU had.          *)
ShownInv ==
  /\ mcu.value \in past
  /\ steady \subseteq mcu.valid
  /\ pc \in {"flags", "values", "failed"} => shown = Nothing
  /\ pc \in {"values", "shown"} => steady \subseteq flags
  /\ pc = "shown" =>
       \/ DOMAIN shown = LinesOf(flags)
       \/ flags \subseteq {0} /\ shown = Nothing
  /\ \A l \in DOMAIN shown : l \in DOMAIN Line /\ shown[l] = Say(l, Bytes(values, l))
  /\ ShownWasHeld

EventInv == CanEventTypeOK /\ ShownInv

(* The initial states, in which nothing has been read.                     *)
LEMMA EventInit == Init => EventInv
<1> SUFFICES ASSUME Init PROVE EventInv
  OBVIOUS
<1>1. mcu \in TableType /\ pc = "flags" /\ flags = {} /\ shown = Nothing /\ DOMAIN shown = {}
  BY CanEventAssumption DEF Init, Nothing
<1>2. values \in [Event -> 0 .. Byte - 1]
  BY Numbers DEF Init
<1>3. CanEventTypeOK
  BY <1>1, <1>2 DEF CanEventTypeOK
<1>4. ShownInv
  BY <1>1 DEF Init, ShownInv, ShownWasHeld
<1> QED
  BY <1>3, <1>4 DEF EventInv

(* Changes of the table disturb neither what was read nor what is shown.   *)
LEMMA UpdateStep == ASSUME EventInv, Update PROVE EventInv'
<1>1. /\ UNCHANGED <<pc, flags, values, shown>>
      /\ past' = past \cup {mcu'.value}
      /\ steady' = steady \cap mcu'.valid
  BY DEF Update
<1>2. mcu' \in TableType
  BY UpdatedTable DEF EventInv, CanEventTypeOK
<1>3. CanEventTypeOK'
  BY <1>1, <1>2 DEF EventInv, CanEventTypeOK
<1>4. ShownWasHeld'
  BY <1>1 DEF EventInv, ShownInv, ShownWasHeld
<1> QED
  BY <1>1, <1>3, <1>4 DEF EventInv, ShownInv

(* The flags: what has been valid since the start still is.                *)
LEMMA FlagsStep == ASSUME EventInv, ReadFlags PROVE EventInv'
<1>1. UNCHANGED <<mcu, past, steady, values, shown>> /\ pc = "flags" /\ shown = Nothing
  BY DEF ReadFlags, Return, Fail, EventInv, ShownInv
<1>2. DOMAIN shown = {}
  BY <1>1 DEF Nothing
<1>3. CASE Fail
  BY <1>1, <1>2, <1>3 DEF Fail, Return, EventInv, CanEventTypeOK, ShownInv, ShownWasHeld
<1>4. CASE flags' = FlagsOf(mcu) /\ Return(IF ValidMax(flags') = 0 THEN "shown" ELSE "values")
  <2>1. flags' = mcu.valid /\ flags' \subseteq Event
    BY <1>4 DEF FlagsOf, EventInv, CanEventTypeOK, TableType
  <2>2. pc' \in {"shown", "values"} /\ (pc' = "shown" => ValidMax(flags') = 0)
    BY <1>4 DEF Return
  <2>3. ASSUME pc' = "shown" PROVE flags' \subseteq {0}
    <3>1. \A e \in flags' : e <= 0
      BY ONLY <2>1, <2>2, <2>3, LastValid
    <3> QED
      BY <2>1, <3>1 DEF Event
  <2>4. CanEventTypeOK'
    BY <1>1, <1>2, <2>1, <2>2 DEF EventInv, CanEventTypeOK
  <2>5. past # {}
    BY DEF EventInv, ShownInv
  <2>6. ShownInv'
    BY <1>1, <1>2, <2>1, <2>2, <2>3, <2>5 DEF EventInv, ShownInv, ShownWasHeld
  <2> QED
    BY <2>4, <2>6 DEF EventInv
<1> QED
  BY <1>3, <1>4 DEF ReadFlags

(* The values: those of the valid events are all within what is read.      *)
LEMMA ValuesStep == ASSUME EventInv, ReadValues PROVE EventInv'
<1>1. UNCHANGED <<mcu, past, steady, flags>> /\ pc = "values" /\ shown = Nothing
  BY DEF ReadValues, Return, Fail, EventInv, ShownInv
<1>2. mcu \in TableType /\ flags \subseteq Event /\ values \in [Event -> 0 .. Byte - 1]
  BY DEF EventInv, CanEventTypeOK
<1>3. CASE Fail
  <2>1. DOMAIN shown = {}
    BY <1>1 DEF Nothing
  <2> QED
    BY <1>1, <1>3, <2>1 DEF Fail, Return, EventInv, CanEventTypeOK, ShownInv, ShownWasHeld
<1>4. CASE ~Fail
  <2>1. /\ values' = [e \in Event |-> IF e < ValueCount(flags) THEN mcu.value[e] ELSE 0]
        /\ shown' = [l \in LinesOf(flags) |-> Say(l, Bytes(values', l))]
        /\ pc' = "shown"
    BY <1>4 DEF ReadValues, Return
  <2>2. mcu.value \in [Event -> 0 .. Byte - 1]
    BY <1>2 DEF TableType
  <2>3. values' \in [Event -> 0 .. Byte - 1]
    BY <2>1, <2>2, Numbers
  <2>4. \A e \in flags : values'[e] = mcu.value[e]
    <3> SUFFICES ASSUME NEW e \in flags PROVE values'[e] = mcu.value[e]
      OBVIOUS
    <3>1. ValidMax(flags) \in Event /\ e <= ValidMax(flags)
      BY <1>2, LastValid
    <3>2. e < ValueCount(flags)
      BY <1>2, <3>1 DEF ValueCount, Event
    <3> QED
      BY <1>2, <2>1, <3>2
  <2>5. ASSUME NEW l \in LinesOf(flags) PROVE Bytes(values', l) = Bytes(mcu.value, l)
    <3>1. \A i \in DOMAIN Line[l] : Line[l][i] \in flags
      BY <2>5 DEF LinesOf, ToSet
    <3> QED
      BY <2>4, <3>1 DEF Bytes
  <2>6. DOMAIN shown' = LinesOf(flags) /\ LinesOf(flags) \subseteq DOMAIN Line
    BY <2>1 DEF LinesOf
  <2>7. \A l \in DOMAIN shown' : shown'[l] = Say(l, Bytes(values', l))
    BY <2>1
  <2>8. \A l \in DOMAIN shown' : shown'[l] = Say(l, Bytes(mcu.value, l))
    BY Zenon, <2>5, <2>6, <2>7
  <2>9. ASSUME NEW l \in DOMAIN Texts \cap DOMAIN shown' PROVE shown'[l] \in 0 .. Texts[l]
    <3> DEFINE b == Bytes(values', l)
    <3>1. l \in DOMAIN Texts /\ l # "time" /\ l # "haul" /\ l # "angle"
      BY LinesWithTexts
    <3>2. Say(l, b) = Text(l, b[1])
      BY Zenon, <3>1 DEF Say
    <3>3. l \in DOMAIN Line /\ Texts[l] \in Nat /\ 1 \in DOMAIN Line[l]
      BY <3>1, LinesWithTexts
    <3>4. b[1] \in 0 .. Byte - 1
      BY <2>3, <3>3, LinesHaveEvents DEF Bytes
    <3> HIDE DEF b
    <3>5. Text(l, b[1]) \in 0 .. Texts[l]
      BY <3>3, <3>4, Numbers DEF Text
    <3> QED
      BY <2>7, <3>2, <3>5 DEF b
  <2>10. CanEventTypeOK'
    BY <1>1, <1>2, <2>1, <2>3, <2>6, <2>9 DEF CanEventTypeOK
  <2>11. ShownWasHeld'
    BY <1>1, <2>8 DEF EventInv, ShownInv, ShownWasHeld
  <2>12. ShownInv'
    BY <1>1, <2>1, <2>6, <2>7, <2>11 DEF EventInv, ShownInv
  <2> QED
    BY <2>10, <2>12 DEF EventInv
<1> QED
  BY <1>3, <1>4

LEMMA EventStep == EventInv /\ [Next]_vars => EventInv'
<1> SUFFICES ASSUME EventInv, [Next]_vars PROVE EventInv'
  OBVIOUS
<1>1. CASE UNCHANGED vars
  BY <1>1 DEF vars, EventInv, CanEventTypeOK, ShownInv, ShownWasHeld
<1> QED
  BY <1>1, UpdateStep, FlagsStep, ValuesStep DEF Next

(* Every variable stays in its domain, whatever the MCU's table goes       *)
(* through: above all, no line has a text that does not exist.             *)
THEOREM EventTypeCorrect == Spec => []CanEventTypeOK
<1>1. EventInv => CanEventTypeOK
  BY DEF EventInv
<1> QED
  BY <1>1, EventInit, EventStep, PTL DEF Spec

(* What is shown was all in the MCU's table at one moment, for every       *)
(* table and however often it changes around the two accesses              *)
(* (run.c:119-134).                                                        *)
THEOREM ShownWasThere == Spec => []ShownWasHeld
<1>1. EventInv => ShownWasHeld
  BY DEF EventInv, ShownInv
<1> QED
  BY <1>1, EventInit, EventStep, PTL DEF Spec

(* A line whose events have been valid since before the call is shown,     *)
(* but if event 0 alone is valid (run.c:125-129).                          *)
THEOREM NothingIsMissed == Spec => []AllShown
<1>1. EventInv => AllShown
  <2> SUFFICES ASSUME EventInv, pc = "shown", flags # {0}
               PROVE  LinesOf(steady) \subseteq DOMAIN shown
    BY DEF AllShown
  <2>1. steady \subseteq flags
    BY DEF EventInv, ShownInv
  <2>2. CASE DOMAIN shown = LinesOf(flags)
    BY <2>1, <2>2 DEF LinesOf
  <2>3. CASE flags \subseteq {0}
    <3>1. steady = {}
      BY <2>1, <2>3
    <3>2. LinesOf(steady) = {}
      <4> SUFFICES ASSUME NEW l \in DOMAIN Line, ToSet(Line[l]) \subseteq {} PROVE FALSE
        BY <3>1 DEF LinesOf
      <4> QED
        BY LinesHaveEvents
    <3> QED
      BY <3>2
  <2> QED
    BY <2>2, <2>3 DEF EventInv, ShownInv
<1> QED
  BY <1>1, EventInit, EventStep, PTL DEF Spec
=============================================================================
