----------------------------- MODULE MCRegWrCb -----------------------------
(* Instances of RegWrCb for TLC.                                           *)
EXTENDS RegWrCb

CONSTANTS a, b

Call(op, nums) == [op : {op}, num : nums]

(* Items, as the CAN buffers are used: fewer than there are, as many, more. *)
ItemCalls == Call("granread", {1, 6}) \cup Call("granwrite", {1, 6}) \cup Call("clean", {0})

(* Bytes, among them none and more than 16 bits can count.                 *)
ByteCalls ==
  Call("read", {1, 3, Word}) \cup Call("peep", {2, 5}) \cup Call("readair", {1, 2})
    \cup Call("write", {2, 5, Word + 1}) \cup Call("granread", {2})
    \cup Call("granwrite", {2, Word}) \cup Call("clean", {0})

(* Discarding, and another way to remove what was shown.                   *)
AirCalls == Call("peep", {2}) \cup Call("readair", {2}) \cup Call("read", {3})

(* Two clients that move items, one that does anything, and two readers    *)
(* that discard.                                                           *)
ThreeUses ==
  {[clients |-> {a, b}, requests |-> ItemCalls],
   [clients |-> {a}, requests |-> ByteCalls],
   [clients |-> {a, b}, requests |-> AirCalls]}
=============================================================================
