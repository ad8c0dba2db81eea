------------------------------- MODULE RegWrCb -------------------------------
(***************************************************************************)
(* The ring buffers in the MCU, used through registers by several clients  *)
(* (src/src/regwr_cb.c): every operation but Clean first reads the size,   *)
(* or the free size, and then transfers at most that much, in a second     *)
(* access.                                                                 *)
(*                                                                         *)
(* The n-th byte ever put into the buffer is the number n: the buffer      *)
(* holds the bytes head + 1 .. tail.  The MCU owns the buffer and is       *)
(* external; it refuses to read, peek at or write more than it holds or    *)
(* has room for (src/src/include/regwr_cb.h:25-29).                        *)
(***************************************************************************)
EXTENDS Integers

CONSTANTS
  Client,     \* the processes and threads
  Gran,       \* bytes of an item, gran_size
  Word,       \* 2^16: lengths and counts are kept in a uint16_t
  Capacity,   \* size of the buffer
  Uses,       \* ways to use the buffer: who, and with which calls [op, num]
  Faults,     \* "lost" (without effect) and "unacked" (failed, but done)
  MaxFaults,  \* bound: failing accesses in a behaviour
  MaxCalls,   \* bound: calls in a behaviour
  MaxItems    \* bound: items the MCU puts in

Removers == {"read", "granread", "readair"}
Writers == {"write", "granwrite"}
Ops == Removers \cup Writers \cup {"peep", "clean"}

ASSUME RegWrCbAssumption ==
  /\ Gran \in Nat \ {0} /\ Word \in Nat \ {0} /\ Capacity \in Nat
  /\ \A u \in Uses : u.clients \subseteq Client /\ u.requests \subseteq [op : Ops, num : Nat]
  /\ Faults \subseteq {"lost", "unacked"}
  /\ MaxFaults \in Nat /\ MaxCalls \in Nat /\ MaxItems \in Nat

VARIABLES
  use,       \* how the buffer is used, one of Uses
  feeds,     \* the MCU puts items in and clients read, or the other way
  head,      \* MCU: bytes removed so far
  tail,      \* MCU: bytes put in so far
  pc,        \* pc[c]: "idle", "query" or "transfer"
  call,      \* call[c]: the request
  amount,    \* amount[c]: r_num, w_num, r_len or w_len after the query
  ret,       \* ret[c]: result of c's last call
  seen,      \* the last byte whose value any client was given
  skipped,   \* ReadAir has removed a byte no client had been given
  taken,     \* bytes removed, as the return values tell, and by the MCU
  given,     \* bytes put in, as the return values tell, and by the MCU
  failed,    \* transfers that returned a negative number
  faults, calls

buffer == <<head, tail>>
history == <<seen, skipped, taken, given, failed>>
vars == <<use, feeds, head, tail, pc, call, amount, ret, seen, skipped, taken,
          given, failed, faults, calls>>

Size == tail - head
FreeSize == Capacity - Size
Smaller(a, b) == IF a < b THEN a ELSE b
Larger(a, b) == IF a > b THEN a ELSE b

Init ==
  /\ use \in Uses /\ feeds \in BOOLEAN
  /\ head = 0 /\ tail = 0
  /\ pc = [c \in Client |-> "idle"]
  /\ call = [c \in Client |-> [op |-> "clean", num |-> 0]]
  /\ amount = [c \in Client |-> 0]
  /\ ret = [c \in Client |-> 0]
  /\ seen = 0 /\ skipped = FALSE /\ taken = 0 /\ given = 0 /\ failed = 0
  /\ faults = 0 /\ calls = 0

Whole(r) == r.op \in {"granread", "granwrite"}
Writes(r) == r.op \in Writers

(* A client discards only what its last call showed it: the use of Peep    *)
(* and ReadAir that regwr_cb.c:187 recommends.                             *)
Sensible(c, r) ==
  r.op = "readair" => call[c].op = "peep" /\ r.num <= ret[c]

Invoke(c, r) ==
  /\ pc[c] = "idle"
  /\ calls < MaxCalls
  /\ r.op = "clean" \/ feeds # Writes(r)
  /\ Sensible(c, r)
  /\ calls' = calls + 1
  /\ call' = [call EXCEPT ![c] = r]
  /\ pc' = [pc EXCEPT ![c] = IF r.op = "clean" THEN "transfer" ELSE "query"]
  /\ amount' = [amount EXCEPT ![c] = 0]
  /\ UNCHANGED <<use, feeds, buffer, ret, history, faults>>

Fails(kind) == kind \in Faults /\ faults < MaxFaults /\ faults' = faults + 1

Return(c, code) ==
  /\ pc' = [pc EXCEPT ![c] = "idle"]
  /\ ret' = [ret EXCEPT ![c] = code]

-----------------------------------------------------------------------------
(* The first access: the size or the free size, in the unit of the call.   *)
Bytes(r) == IF Writes(r) THEN FreeSize ELSE Size
Available(r) == IF Whole(r) THEN Bytes(r) \div Gran ELSE Bytes(r)

(* Mutant: ReadAir discards all there is.                                  *)
ClampedButAir(r) ==
  IF r.op = "readair" THEN Available(r) ELSE Smaller(Available(r), r.num % Word)

(* The argument is cut to 16 bits and then to what is available.           *)
Clamped(r) == Smaller(Available(r), r.num % Word)

(* A call for whole items ends here if it is left with none; one for bytes *)
(* if there are none at all.                                               *)
Query(c) ==
  LET n == Clamped(call[c])
      nothing == IF Whole(call[c]) THEN n = 0 ELSE Bytes(call[c]) = 0
  IN
  /\ pc[c] = "query"
  /\ \/ nothing /\ Return(c, 0) /\ UNCHANGED <<amount, faults>>
     \/ /\ ~nothing
        /\ pc' = [pc EXCEPT ![c] = "transfer"]
        /\ amount' = [amount EXCEPT ![c] = n]
        /\ UNCHANGED <<ret, faults>>
     \/ Fails("lost") /\ Return(c, -2) /\ UNCHANGED amount
  /\ UNCHANGED <<use, feeds, buffer, call, history, calls>>

-----------------------------------------------------------------------------
(* The second access.                                                      *)

(* Mutant: the product is cut to fewer bits.                               *)
LengthShort(c) ==
  IF Whole(call[c]) THEN (amount[c] * Gran) % (Word \div 2) ELSE amount[c]

(* Mutant: as many bytes as items.                                         *)
LengthInItems(c) == amount[c]

(* Its length in bytes: the product is cut to 16 bits too.                 *)
Length(c) == IF Whole(call[c]) THEN (amount[c] * Gran) % Word ELSE amount[c]

(* A transfer of more than the MCU holds or has room for.                  *)
Exceeds(c) ==
  IF Writes(call[c]) THEN Length(c) > FreeSize ELSE Length(c) > Size

(* It is refused, but of read-air this is not said: the MCU may as well    *)
(* remove what there is.                                                   *)
Accepted(c) == Exceeds(c) => call[c].op = "readair"

Moved(c) == IF call[c].op = "readair" THEN Smaller(Length(c), Size) ELSE Length(c)

(* It takes effect.  delivered: the caller is given the bytes read.        *)
Effect(c, delivered) ==
  LET op == call[c].op
      n == Moved(c)
  IN
  /\ Accepted(c)
  /\ head' = IF op = "clean" THEN tail ELSE IF op \in Removers THEN head + n ELSE head
  /\ tail' = IF op \in Writers THEN tail + n ELSE tail
  /\ seen' = IF delivered /\ op \in {"read", "granread", "peep"}
               THEN Larger(seen, head + n) ELSE seen
  /\ skipped' = (skipped \/ (op = "readair" /\ n > 0 /\ head + n > seen))

(* Bytes that the result of a call stands for.  Clean stands for all there *)
(* are, a negative result for none.                                        *)
Told(c) == IF Whole(call[c]) THEN amount[c] * Gran ELSE amount[c]

Succeed(c) ==
  /\ Effect(c, TRUE)
  /\ Return(c, amount[c])
  /\ taken' = taken + (IF call[c].op = "clean" THEN Size
                       ELSE IF call[c].op \in Removers THEN Told(c) ELSE 0)
  /\ given' = given + (IF Writes(call[c]) THEN Told(c) ELSE 0)
  /\ UNCHANGED <<failed, faults>>

Fail(c) == Return(c, -2) /\ failed' = failed + 1 /\ UNCHANGED <<taken, given>>

Transfer(c) ==
  /\ pc[c] = "transfer"
  /\ \/ Succeed(c)
     \/ Fail(c) /\ Exceeds(c) /\ UNCHANGED <<buffer, seen, skipped, faults>>
     \/ Fail(c) /\ Fails("lost") /\ UNCHANGED <<buffer, seen, skipped>>
     \/ Fail(c) /\ Fails("unacked") /\ Effect(c, FALSE)
  /\ UNCHANGED <<use, feeds, call, amount, calls>>

-----------------------------------------------------------------------------
(* The MCU at the other end of the buffer: whole items.                    *)

McuPut ==
  /\ feeds
  /\ FreeSize >= Gran /\ tail < MaxItems * Gran
  /\ tail' = tail + Gran
  /\ given' = given + Gran
  /\ UNCHANGED <<use, feeds, head, pc, call, amount, ret, seen, skipped,
                 taken, failed, faults, calls>>

McuTake ==
  /\ ~feeds
  /\ Size >= Gran
  /\ head' = head + Gran
  /\ taken' = taken + Gran
  /\ UNCHANGED <<use, feeds, tail, pc, call, amount, ret, seen, skipped,
                 given, failed, faults, calls>>

Next ==
  \/ \E c \in use.clients :
       (\E r \in use.requests : Invoke(c, r)) \/ Query(c) \/ Transfer(c)
  \/ McuPut
  \/ McuTake

Spec == Init /\ [][Next]_vars

-----------------------------------------------------------------------------
RingTypeOK ==
  /\ use \in Uses /\ feeds \in BOOLEAN /\ skipped \in BOOLEAN
  /\ head \in Nat /\ tail \in head .. head + Capacity
  /\ pc \in [Client -> {"idle", "query", "transfer"}]
  /\ call \in [Client -> [op : Ops, num : Nat]]
  /\ amount \in [Client -> 0 .. Capacity]
  /\ ret \in [Client -> Nat \cup {-2}]
  /\ seen \in Nat /\ taken \in Nat /\ given \in Nat /\ failed \in Nat
  /\ faults \in 0 .. MaxFaults /\ calls \in 0 .. MaxCalls

WholeOnly == \A r \in use.requests : Whole(r) \/ r.op = "clean"
Alone(c) == use.clients = {c}
Airless == \A r \in use.requests : r.op # "readair"

(* What the calls return adds up, although size and transfer are two       *)
(* accesses and others act in between.  No byte is counted that was not    *)
(* moved, and a byte that was moved is only missing from the count if a    *)
(* transfer failed, at most a buffer full for each: the return values of   *)
(* regwr_cb.c ("the number read", "the number written").  Only read-air    *)
(* may claim more than it removed, if another reader came in between.      *)
CountsAddUp ==
  /\ Airless \/ (\E c \in Client : Alone(c)) => taken <= head
  /\ given <= tail
  /\ (head - taken) + (tail - given) <= failed * Capacity

(* A buffer that is used for whole items only (RegWrCb_GranRead and        *)
(* _GranWrite) never holds a part of one, at neither end, so a reader      *)
(* always starts at an item, also with several clients and failing calls.  *)
ItemsWhole == WholeOnly => head % Gran = 0 /\ tail % Gran = 0

(* An only reader that peeks and then discards what it was shown loses nothing,  *)
(* even if accesses fail after they took effect: the point of the advice   *)
(* at regwr_cb.c:187.                                                      *)
NothingSkipped == (\E c \in Client : Alone(c)) => ~skipped
=============================================================================
