----------------------------- MODULE MCCanEvent -----------------------------
(* Instance of CanEvent for TLC.                                           *)
EXTENDS CanEvent

Table(lines, v) ==
  [valid |-> UNION {ToSet(Line[l]) : l \in lines}, value |-> v]

Zero == [e \in Event |-> 0]
Set(table, l, b) ==
  [e \in Event |-> IF e \in ToSet(Line[l])
                   THEN b[CHOOSE i \in DOMAIN Line[l] : Line[l][i] = e] ELSE table[e]]

(* A distance whose product with 5 does not fit.                           *)
Far == Set([e \in Event |-> 1], "haul", <<0, 0, 0, 2>>)

(* No line, one, two or all of them are valid.                             *)
Some ==
  {{a, b} : a \in {"speed", "haul", "reverse"}, b \in {"gears", "countdown"}}
    \cup {{}, {"countdown"}, {"ignition"}, {"ignition", "left_switch"}, {"state"}, DOMAIN Line}
Tables == {Table(s, v) : s \in Some, v \in {Set(Zero, "angle", <<3, 7>>), Far}}

Changes ==
  {[line |-> l, bytes |-> <<>>] : l \in {"speed", "haul", "countdown"}}
    \cup {[line |-> "speed", bytes |-> <<2, 7>>], [line |-> "angle", bytes |-> <<7, 5>>],
          [line |-> "countdown", bytes |-> <<0, 2>>], [line |-> "gears", bytes |-> <<2>>],
          [line |-> "state", bytes |-> <<7>>], [line |-> "state", bytes |-> <<5>>],
          [line |-> "reverse", bytes |-> <<2>>], [line |-> "ignition", bytes |-> <<6>>],
          [line |-> "haul", bytes |-> <<7, 7, 0, 1>>],
          [line |-> "time", bytes |-> <<1, 2, 3, 4, 5, 6>>]}
=============================================================================
