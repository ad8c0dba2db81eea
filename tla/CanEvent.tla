------------------------------ MODULE CanEvent ------------------------------
(***************************************************************************)
(* Showing the CAN events (fun_show_mcu_can_event, src/src/run.c:112-287): *)
(* the valid flags are read in one access of the bus, the values up to the *)
(* last valid one in a second, and the MCU changes its table at any time.  *)
(* The table is RoRegCanEvent (src/src/include/mcu-reg/can-event.h).       *)
(* Texts are left out but for which values share one; units and decimal    *)
(* points are left out.                                                    *)
(***************************************************************************)
EXTENDS Integers, Sequences, FiniteSets, SequencesExt

CONSTANTS
  Byte,        \* 2^8
  InitTables,  \* tables of the MCU at the start
  Updates,     \* what may come in from the CAN bus: records of UpdateType
  MaxUpdates   \* bound: changes of the table in a behaviour

UseCnt == 48   \* CAN_EVENT_USE_CNT
Event == 0 .. UseCnt - 1

(* The lines of the output and the events each needs, low byte first.      *)
(* Events 34 .. 38, the position and reserved lights, have no line.        *)
Line ==
  [ignition |-> <<0>>, left_switch |-> <<1>>, left_lock |-> <<2>>,
   right_switch |-> <<3>>, right_lock |-> <<4>>, acc |-> <<5>>, screen |-> <<6>>,
   state |-> <<7>>, can |-> <<8>>, wake_up |-> <<9>>, dcm |-> <<10>>, gw |-> <<11>>,
   speed |-> <<12, 13>>, turn |-> <<14, 15>>, time |-> <<16, 17, 18, 19, 20, 21>>,
   voltage |-> <<22, 23>>, haul |-> <<24, 25, 26, 27>>, select |-> <<28>>,
   vertical |-> <<29>>, horizontal |-> <<30>>, reverse |-> <<31>>, left_turn |-> <<32>>,
   right_turn |-> <<33>>, angle |-> <<39, 40>>, run_time |-> <<41, 42, 43, 44>>,
   gears |-> <<45>>, countdown |-> <<46, 47>>]

(* Values 0 .. n - 1 of these lines have a text of their own, all others   *)
(* share one.                                                              *)
Texts ==
  [ignition |-> 4, left_switch |-> 1, left_lock |-> 1, right_switch |-> 1,
   right_lock |-> 1, acc |-> 1, state |-> 6, can |-> 1, dcm |-> 1, gw |-> 1,
   select |-> 3, vertical |-> 2, horizontal |-> 2, reverse |-> 1, left_turn |-> 4,
   right_turn |-> 4, gears |-> 2]

TableType == [valid : SUBSET Event, value : [Event -> 0 .. Byte - 1]]

(* New bytes for a line, or none when the MCU has not heard of it in time. *)
UpdateType ==
  [line : DOMAIN Line, bytes : UNION {[1 .. n -> 0 .. Byte - 1] : n \in {0, 1, 2, 4, 6}}]

ASSUME CanEventAssumption ==
  /\ Byte \in Nat \ {0} /\ MaxUpdates \in Nat
  /\ InitTables \subseteq TableType /\ Updates \subseteq UpdateType
  /\ \A u \in Updates : u.bytes # <<>> => DOMAIN u.bytes = DOMAIN Line[u.line]

VARIABLES
  mcu,      \* the table of the MCU
  pc,       \* "flags", "values", "shown" or "failed"
  flags,    \* the valid flags as read
  values,   \* the values as read, zero where nothing was
  shown,    \* shown[l]: what line l says, for the lines put out
  past,     \* the values the MCU's table has had
  steady,   \* the events that have been valid since the start
  updates

vars == <<mcu, pc, flags, values, shown, past, steady, updates>>

Nothing == [l \in {} |-> 0]

Init ==
  /\ mcu \in InitTables
  /\ pc = "flags" /\ flags = {} /\ values = [e \in Event |-> 0]
  /\ shown = Nothing /\ past = {mcu.value} /\ steady = mcu.valid /\ updates = 0

-----------------------------------------------------------------------------
(* The MCU: the events of a line change together.                          *)
Update ==
  \E u \in Updates :
    LET events == ToSet(Line[u.line])
        at(e) == CHOOSE i \in DOMAIN Line[u.line] : Line[u.line][i] = e
    IN /\ updates < MaxUpdates /\ updates' = updates + 1
       /\ mcu' = IF u.bytes = <<>> THEN [mcu EXCEPT !.valid = @ \ events]
                 ELSE [valid |-> mcu.valid \cup events,
                       value |-> [e \in Event |->
                         IF e \in events THEN u.bytes[at(e)] ELSE mcu.value[e]]]
       /\ past' = past \cup {mcu'.value}
       /\ steady' = steady \cap mcu'.valid
       /\ UNCHANGED <<pc, flags, values, shown>>

-----------------------------------------------------------------------------
Return(to) == pc' = to /\ UNCHANGED <<mcu, past, steady, updates>>

Fail == Return("failed") /\ UNCHANGED <<flags, values, shown>>

Largest(S) == CHOOSE x \in S : \A y \in S : y <= x

(* valid_max_event: 0 also when nothing is valid.                          *)
ValidMax(f) == Largest(f \cup {0})

(* Mutant: five bytes of flags are read.                                   *)
FlagsOfFiveBytes(t) == t.valid \cap 0 .. 39

FlagsOf(t) == t.valid

ReadFlags ==
  /\ pc = "flags"
  /\ \/ /\ flags' = FlagsOf(mcu)
        /\ Return(IF ValidMax(flags') = 0 THEN "shown" ELSE "values")
        /\ UNCHANGED <<values, shown>>
     \/ Fail

(* Mutant: the count is the number of the last event.                      *)
ValueCountShort(f) == ValidMax(f)

ValueCount(f) == ValidMax(f) + 1

(* The bytes of line l in a table of values.                               *)
Bytes(table, l) == [i \in DOMAIN Line[l] |-> table[Line[l][i]]]

U16 == Byte * Byte
U32 == U16 * U16

(* b[0] | b[1] << 8 | b[2] << 16 | b[3] << 24, as far as there are bytes.  *)
Number(b) ==
  LET byte(i) == IF i \in DOMAIN b THEN b[i] ELSE 0
  IN byte(1) + byte(2) * Byte + byte(3) * U16 + byte(4) * (U16 * Byte)

Signed(n) == IF n < U16 \div 2 THEN n ELSE n - U16

(* rh_u32 * 5, in 32 bits: what does not fit is lost (run.c:224).          *)
Metres(n) == (n * 5) % U32

Text(l, v) == IF v < Texts[l] THEN v ELSE Texts[l]

Say(l, b) ==
  CASE l \in DOMAIN Texts -> Text(l, b[1])
    [] l = "time" -> b
    [] l = "haul" -> Metres(Number(b))
    [] l = "angle" -> Signed(Number(b))
    [] OTHER -> Number(b)

LinesOf(f) == {l \in DOMAIN Line : ToSet(Line[l]) \subseteq f}

ReadValues ==
  /\ pc = "values"
  /\ \/ /\ values' = [e \in Event |-> IF e < ValueCount(flags) THEN mcu.value[e] ELSE 0]
        /\ shown' = [l \in LinesOf(flags) |-> Say(l, Bytes(values', l))]
        /\ Return("shown") /\ UNCHANGED flags
     \/ Fail

Next == Update \/ ReadFlags \/ ReadValues

Spec == Init /\ [][Next]_vars

-----------------------------------------------------------------------------
CanEventTypeOK ==
  /\ mcu \in TableType
  /\ pc \in {"flags", "values", "shown", "failed"}
  /\ flags \subseteq Event /\ values \in [Event -> 0 .. Byte - 1]
  /\ DOMAIN shown \subseteq DOMAIN Line
  /\ \A l \in DOMAIN Texts \cap DOMAIN shown : shown[l] \in 0 .. Texts[l]

(* What is shown was all in the MCU's table at one moment, although the    *)
(* table changes between the two accesses and only its first part is read. *)
ShownWasHeld ==
  pc = "shown" =>
    \E t \in past : \A l \in DOMAIN shown : shown[l] = Say(l, Bytes(t, l))

(* "All CAN events" (main.c:188): a line is shown if its events have been  *)
(* valid since before the call, whatever changes besides; but if event 0   *)
(* alone is valid, that is taken for none (run.c:129).                     *)
AllShown ==
  pc = "shown" => LinesOf(steady) \subseteq DOMAIN shown \/ flags = {0}
=============================================================================
