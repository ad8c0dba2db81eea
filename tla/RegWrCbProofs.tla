---------------------------- MODULE RegWrCbProofs ----------------------------
(***************************************************************************)
(* Proofs about the ring buffers: for every number of clients, item size   *)
(* and way of use, and every capacity that 16 bits can count, what the     *)
(* calls return adds up, no item is torn, and an only client that peeks    *)
(* before it discards loses nothing.                                       *)
(***************************************************************************)
EXTENDS RegWrCb, TLAPS

(* The MCU's buffers are smaller than 64 KiB.                              *)
BufferFits == Capacity < Word

-----------------------------------------------------------------------------
(* Arithmetic of items.                                                    *)

(* One more failed transfer, and at most a buffer full more missing.       *)
LEMMA OneMore ==
  ASSUME NEW missing \in Int, NEW m \in Int, NEW f \in Nat, NEW k \in Nat,
         missing <= f * k, m <= k
  PROVE  missing + m <= (f + 1) * k
<1>1. (f + 1) * k = f * k + k
  OBVIOUS
<1>2. f * k \in Int
  OBVIOUS
<1> QED
  BY ONLY <1>1, <1>2, missing \in Int, m \in Int, k \in Nat, missing <= f * k, m <= k

(* As many whole items as there is room for fit: the clamp of              *)
(* regwr_cb.c:92-99.                                                       *)
LEMMA ItemsFit ==
  ASSUME NEW n \in Nat, NEW g \in Nat \ {0}
  PROVE  (n \div g) \in Nat /\ (n \div g) * g <= n /\ n \div g <= n
OBVIOUS

(* A number that fits the word is not changed by the cut to 16 bits.       *)
LEMMA CutFits ==
  ASSUME NEW n \in Nat, NEW w \in Nat \ {0}
  PROVE  n % w \in Nat /\ n % w <= n /\ (n < w => n % w = n)
OBVIOUS

(* A multiple of the item size has no remainder.                           *)
LEMMA MultipleMod ==
  ASSUME NEW q \in Nat, NEW g \in Nat \ {0}
  PROVE  (q * g) % g = 0
<1> DEFINE x == q * g
           p == x \div g
           r == x % g
<1>1. x \in Nat /\ p \in Nat /\ r \in 0 .. g - 1 /\ x = g * p + r
  OBVIOUS
<1>2. CASE q = p
  <2>1. g * p = x BY <1>2
  <2> QED BY <1>1, <2>1
<1>3. CASE q >= p + 1
  <2>1. PICK d \in Nat : q = p + 1 + d
    <3>1. q - p - 1 \in Nat /\ q = p + 1 + (q - p - 1) BY <1>1, <1>3
    <3> QED BY <3>1
  <2> HIDE DEF p, r
  <2>2. q * g = p * g + g + d * g BY <2>1, <1>1
  <2>3. d * g >= 0 BY <2>1
  <2>4. p * g = g * p BY <1>1
  <2> HIDE DEF x
  <2>5. x = p * g + g + d * g BY <2>2 DEF x
  <2>6. p * g \in Nat /\ d * g \in Nat BY <1>1, <2>1
  <2> QED BY <2>3, <2>4, <2>5, <2>6, <1>1
<1>4. CASE q <= p - 1
  <2>1. PICK d \in Nat : p = q + 1 + d
    <3>1. p - q - 1 \in Nat /\ p = q + 1 + (p - q - 1) BY <1>1, <1>4
    <3> QED BY <3>1
  <2> HIDE DEF p, r
  <2>2. g * p = q * g + g + d * g BY <2>1, <1>1
  <2>3. q * g \in Nat /\ d * g \in Nat BY <2>1
  <2> QED BY <2>2, <2>3, <1>1
<1> HIDE DEF p
<1> QED BY <1>1, <1>2, <1>3, <1>4

(* Whole items moved keep an end of the buffer at an item.                 *)
LEMMA WholePlus ==
  ASSUME NEW a \in Nat, NEW g \in Nat \ {0}, NEW n \in Nat, a % g = 0
  PROVE  (a + n * g) % g = 0
<1> DEFINE k == a \div g
<1>1. k \in Nat /\ a = k * g OBVIOUS
<1> HIDE DEF k
<1>2. a + n * g = (k + n) * g BY <1>1
<1> QED BY <1>1, <1>2, MultipleMod

-----------------------------------------------------------------------------
(* The invariant.                                                          *)

(* What a client is about to transfer fits a buffer, so the product of     *)
(* items and their size is not cut.                                        *)
AmountFits ==
  \A c \in Client : Whole(call[c]) => amount[c] * Gran <= Capacity

(* The calls made are those of the way of use.                             *)
CallsOfUse ==
  /\ WholeOnly => \A c \in Client : Whole(call[c]) \/ call[c].op = "clean"
  /\ Airless => \A c \in Client : call[c].op # "readair"

(* A client that peeks or discards has been shown what it discards.        *)
Shown(c) ==
  /\ call[c].op \in {"peep", "readair"} => feeds
  /\ pc[c] = "idle" /\ call[c].op = "peep" /\ ret[c] > 0 => head + ret[c] <= seen
  /\ pc[c] # "idle" /\ call[c].op = "readair" /\ call[c].num > 0 =>
       head + call[c].num <= seen
  /\ pc[c] = "transfer" /\ call[c].op = "readair" =>
       amount[c] <= call[c].num /\ amount[c] <= Size

ShownInv == \A c \in Client : Alone(c) => Shown(c)

RingInv ==
  /\ RingTypeOK
  /\ AmountFits
  /\ CountsAddUp
  /\ CallsOfUse /\ ItemsWhole
  /\ ShownInv /\ NothingSkipped

LEMMA RingInit == Init => RingInv
<1> SUFFICES ASSUME Init PROVE RingInv
  OBVIOUS
<1> USE RegWrCbAssumption DEF Init
<1>1. RingTypeOK
  <2>1. call \in [Client -> [op : Ops, num : Nat]] BY DEF Ops
  <2>2. skipped \in BOOLEAN OBVIOUS
  <2>3. head \in Nat /\ tail \in head .. head + Capacity OBVIOUS
  <2>4. /\ pc \in [Client -> {"idle", "query", "transfer"}]
        /\ amount \in [Client -> 0 .. Capacity]
        /\ ret \in [Client -> Nat \cup {-2}]
    OBVIOUS
  <2> QED BY <2>1, <2>2, <2>3, <2>4 DEF RingTypeOK
<1>2. AmountFits /\ CountsAddUp /\ CallsOfUse
  <2>1. 0 * Capacity = 0 OBVIOUS
  <2> QED BY <2>1 DEF AmountFits, CountsAddUp, CallsOfUse, Whole
<1>3. ItemsWhole
  <2>1. 0 % Gran = 0 OBVIOUS
  <2> QED BY <2>1 DEF ItemsWhole
<1>4. ShownInv /\ NothingSkipped BY DEF ShownInv, Shown, NothingSkipped
<1> QED BY <1>1, <1>2, <1>3, <1>4 DEF RingInv

-----------------------------------------------------------------------------
(* Facts about a state that satisfies the invariant.                       *)

(* Size and free size are what a buffer can hold.                          *)
LEMMA SizeBounds ==
  ASSUME RingTypeOK
  PROVE  Size \in 0 .. Capacity /\ FreeSize \in 0 .. Capacity
BY RegWrCbAssumption DEF RingTypeOK, Size, FreeSize

(* The number a query leaves a client with is one the buffer can serve and *)
(* at most what was asked for.                                             *)
LEMMA ClampedFits ==
  ASSUME RingTypeOK, NEW r \in [op : Ops, num : Nat]
  PROVE  /\ Clamped(r) \in 0 .. Capacity
         /\ Clamped(r) <= r.num
         /\ Whole(r) => Clamped(r) * Gran <= Capacity
         /\ r.op = "readair" => Clamped(r) <= Size
<1> USE RegWrCbAssumption
<1>1. Bytes(r) \in 0 .. Capacity BY SizeBounds DEF Bytes
<1>2. r.num % Word \in Nat /\ r.num % Word <= r.num BY CutFits
<1>3. /\ Bytes(r) \div Gran \in Nat
      /\ (Bytes(r) \div Gran) * Gran <= Bytes(r)
      /\ Bytes(r) \div Gran <= Bytes(r)
  BY <1>1, ItemsFit
<1>4. Available(r) \in 0 .. Capacity BY <1>1, <1>3 DEF Available
<1>5. Clamped(r) \in 0 .. Capacity /\ Clamped(r) <= r.num /\ Clamped(r) <= Available(r)
  BY <1>2, <1>4 DEF Clamped, Smaller
<1>6. ASSUME Whole(r) PROVE Clamped(r) * Gran <= Capacity
  <2>1. Available(r) * Gran <= Capacity BY <1>1, <1>3, <1>6 DEF Available
  <2> HIDE DEF Clamped, Available
  <2>2. PICK d \in Nat : Available(r) = Clamped(r) + d
    <3>1. /\ Available(r) - Clamped(r) \in Nat
          /\ Available(r) = Clamped(r) + (Available(r) - Clamped(r))
      BY <1>4, <1>5
    <3> QED BY <3>1
  <2>3. Available(r) * Gran = Clamped(r) * Gran + d * Gran BY <2>2, <1>5
  <2>4. d * Gran \in Nat /\ Clamped(r) * Gran \in Nat BY <1>5
  <2> QED BY <2>1, <2>3, <2>4
<1>7. ASSUME r.op = "readair" PROVE Clamped(r) <= Size
  BY <1>5, <1>7 DEF Available, Bytes, Whole, Writes, Writers
<1> QED BY <1>5, <1>6, <1>7

(* The cut to 16 bits changes no length: it is what the return value says. *)
LEMMA LengthIsTold ==
  ASSUME BufferFits, RingInv, NEW c \in Client
  PROVE  /\ Length(c) = Told(c) /\ Length(c) \in Nat
         /\ Whole(call[c]) => Length(c) = amount[c] * Gran
         /\ ~Whole(call[c]) => Length(c) = amount[c]
<1> USE RegWrCbAssumption
<1>1. amount[c] \in 0 .. Capacity BY DEF RingInv, RingTypeOK
<1>2. CASE Whole(call[c])
  <2> DEFINE p == amount[c] * Gran
  <2>1. p \in Nat BY <1>1
  <2>2. p <= Capacity BY <1>2 DEF RingInv, AmountFits
  <2>3. p < Word BY <2>1, <2>2 DEF BufferFits
  <2>4. p % Word = p
    <3> HIDE DEF p
    <3> QED BY <2>1, <2>3, CutFits
  <2> QED BY <1>2, <2>1, <2>4 DEF Length, Told
<1>3. CASE ~Whole(call[c]) BY <1>1, <1>3 DEF Length, Told
<1> QED BY <1>2, <1>3

(* Who uses the buffer, and with which calls.                              *)
LEMMA UseTyped ==
  ASSUME RingTypeOK
  PROVE  use.clients \subseteq Client /\ use.requests \subseteq [op : Ops, num : Nat]
BY RegWrCbAssumption DEF RingTypeOK

-----------------------------------------------------------------------------
(* Every step preserves the invariant: one lemma for each action.          *)

LEMMA InvokeStep ==
  ASSUME RingInv, NEW c \in use.clients, NEW r \in use.requests, Invoke(c, r)
  PROVE  RingInv'
<1> USE RegWrCbAssumption DEF Invoke
<1>0. c \in Client /\ r \in [op : Ops, num : Nat] /\ RingTypeOK
  BY UseTyped DEF RingInv
<1>1. RingTypeOK'
  <2>1. call' \in [Client -> [op : Ops, num : Nat]] BY <1>0 DEF RingTypeOK
  <2>2. pc' \in [Client -> {"idle", "query", "transfer"}] BY <1>0 DEF RingTypeOK
  <2>3. amount' \in [Client -> 0 .. Capacity] BY <1>0 DEF RingTypeOK
  <2>4. calls' \in 0 .. MaxCalls BY <1>0 DEF RingTypeOK
  <2> QED BY <1>0, <2>1, <2>2, <2>3, <2>4 DEF RingTypeOK, buffer, history
<1>2. AmountFits'
  BY <1>0 DEF RingInv, AmountFits, RingTypeOK, Whole
<1>3. CountsAddUp' BY DEF RingInv, CountsAddUp, Airless, Alone, buffer, history
<1>4. CallsOfUse' BY <1>0 DEF RingInv, CallsOfUse, WholeOnly, Airless, RingTypeOK, Whole
<1>5. ItemsWhole' BY DEF RingInv, ItemsWhole, WholeOnly, buffer
<1>6. NothingSkipped' BY DEF RingInv, NothingSkipped, Alone, history
<1>7. ShownInv'
  <2> SUFFICES ASSUME NEW d \in Client, Alone(d) PROVE Shown(d)'
    BY DEF ShownInv, Alone
  <2>1. d = c BY DEF Alone
  <2>2. Shown(c) BY <2>1, <1>0 DEF RingInv, ShownInv
  <2>4. call'[c] = r /\ pc'[c] \in {"query", "transfer"} BY <1>0 DEF RingTypeOK
  <2>5. r.op = "readair" /\ r.num > 0 => head + r.num <= seen
    BY <1>0, <2>2 DEF Shown, Sensible, RingTypeOK
  <2>6. r.op \in {"peep", "readair"} => feeds
    <3>1. feeds \in BOOLEAN BY <1>0 DEF RingTypeOK
    <3>2. r.op = "clean" \/ feeds # Writes(r) OBVIOUS
    <3>3. r.op \in {"peep", "readair"} => Writes(r) = FALSE /\ r.op # "clean"
      BY DEF Writes, Writers
    <3>4. feeds # FALSE => feeds BY <3>1, Zenon
    <3> HIDE DEF Writes, Invoke
    <3> QED BY <3>2, <3>3, <3>4
  <2>7. pc'[c] = "transfer" => r.op # "readair" BY <1>0 DEF RingTypeOK
  <2> QED BY <2>1, <2>4, <2>5, <2>6, <2>7 DEF Shown, buffer, history
<1> QED BY <1>1, <1>2, <1>3, <1>4, <1>5, <1>6, <1>7 DEF RingInv

LEMMA QueryStep ==
  ASSUME RingInv, NEW c \in use.clients, Query(c)
  PROVE  RingInv'
<1> USE RegWrCbAssumption
<1>0. c \in Client /\ RingTypeOK /\ call[c] \in [op : Ops, num : Nat]
  BY UseTyped DEF RingInv, RingTypeOK
<1> DEFINE n == Clamped(call[c])
<1>1. /\ n \in 0 .. Capacity /\ n <= call[c].num /\ (Whole(call[c]) => n * Gran <= Capacity)
      /\ call[c].op = "readair" => n <= Size
  BY <1>0, ClampedFits
<1>2. UNCHANGED <<use, feeds, buffer, call, history, calls>> BY DEF Query
<1>3. \/ pc' = [pc EXCEPT ![c] = "transfer"] /\ amount' = [amount EXCEPT ![c] = n] /\ ret' = ret
      \/ pc' = [pc EXCEPT ![c] = "idle"] /\ ret' \in {[ret EXCEPT ![c] = 0], [ret EXCEPT ![c] = -2]}
         /\ amount' = amount
  BY DEF Query, Return
<1>4. faults' \in 0 .. MaxFaults BY <1>0 DEF Query, Fails, RingTypeOK
<1> HIDE DEF n
<1>5. RingTypeOK'
  <2>1. /\ pc' \in [Client -> {"idle", "query", "transfer"}]
        /\ amount' \in [Client -> 0 .. Capacity]
        /\ ret' \in [Client -> Nat \cup {-2}]
    BY <1>0, <1>1, <1>3 DEF RingTypeOK
  <2> QED BY <1>0, <1>2, <1>4, <2>1 DEF RingTypeOK, buffer, history
<1>6. AmountFits'
  <2> SUFFICES ASSUME NEW d \in Client, Whole(call[d]) PROVE amount'[d] * Gran <= Capacity
    BY <1>2 DEF AmountFits, Whole
  <2>1. amount'[d] = amount[d] \/ (d = c /\ amount'[d] = n)
    BY <1>0, <1>3 DEF RingTypeOK
  <2>2. amount[d] * Gran <= Capacity BY DEF RingInv, AmountFits
  <2> QED BY <1>1, <2>1, <2>2
<1>7. CountsAddUp' /\ CallsOfUse' /\ ItemsWhole' /\ NothingSkipped'
  BY <1>2 DEF RingInv, CountsAddUp, CallsOfUse, ItemsWhole, NothingSkipped, Alone, Airless,
              WholeOnly, Whole, buffer, history
<1>8. ShownInv'
  <2> SUFFICES ASSUME NEW d \in Client, Alone(d) PROVE Shown(d)'
    BY <1>2 DEF ShownInv, Alone
  <2>1. d = c /\ Shown(c) BY <1>0 DEF Alone, RingInv, ShownInv
  <2>2. pc[c] = "query" BY DEF Query
  <2>3. \/ pc'[c] = "transfer" /\ amount'[c] = n
        \/ pc'[c] = "idle" /\ ~(ret'[c] > 0)
    BY <1>0, <1>3 DEF RingTypeOK
  <2> QED BY <1>1, <1>2, <2>1, <2>2, <2>3 DEF Shown, Size, buffer, history
<1> QED BY <1>5, <1>6, <1>7, <1>8 DEF RingInv

(* What a transfer that takes effect does to the buffer: it stays within   *)
(* its capacity, whole items are moved, nothing unseen is skipped, and     *)
(* what is moved is what the result says, or less of a read-air.           *)
LEMMA EffectMoves ==
  ASSUME BufferFits, RingInv, NEW c \in Client, pc[c] = "transfer",
         NEW b \in BOOLEAN, Effect(c, b)
  PROVE  /\ head' \in Nat /\ tail' \in head' .. head' + Capacity
         /\ seen' \in Nat /\ skipped' \in BOOLEAN /\ seen' >= seen
         /\ Whole(call[c]) \/ call[c].op = "clean" =>
              (head % Gran = 0 /\ tail % Gran = 0 => head' % Gran = 0 /\ tail' % Gran = 0)
         /\ call[c].op = "peep" => head' = head /\ (b => head + amount[c] <= seen')
         /\ Shown(c) => (skipped' => skipped)
         /\ Told(c) \in Nat /\ Moved(c) \in Nat /\ Moved(c) <= Told(c) /\ Moved(c) <= Capacity
         /\ call[c].op # "readair" \/ Shown(c) => Moved(c) = Told(c)
         /\ head' = head + (IF call[c].op = "clean" THEN Size
                            ELSE IF call[c].op \in Removers THEN Moved(c) ELSE 0)
         /\ tail' = tail + (IF Writes(call[c]) THEN Moved(c) ELSE 0)
<1> USE RegWrCbAssumption
<1> DEFINE n == Moved(c)
<1>0. RingTypeOK /\ call[c] \in [op : Ops, num : Nat] /\ amount[c] \in 0 .. Capacity
  BY DEF RingInv, RingTypeOK
<1>1. /\ Length(c) = Told(c) /\ Length(c) \in Nat
      /\ Whole(call[c]) => Length(c) = amount[c] * Gran
      /\ ~Whole(call[c]) => Length(c) = amount[c]
  BY LengthIsTold
<1>12. Size \in 0 .. Capacity /\ FreeSize \in 0 .. Capacity
  BY SizeBounds, <1>0
<1>13. /\ n \in Nat /\ n <= Length(c)
       /\ IF call[c].op = "readair" THEN n <= Size /\ (Length(c) <= Size => n = Length(c))
                                     ELSE n = Length(c)
  BY <1>1, <1>12 DEF Moved, Smaller
<1>2. IF call[c].op \in Writers THEN n <= FreeSize ELSE n <= Size
  BY <1>1, <1>12, <1>13 DEF Effect, Accepted, Exceeds, Writes, Writers
<1>3. /\ head' = IF call[c].op = "clean" THEN tail
                 ELSE IF call[c].op \in Removers THEN head + n ELSE head
      /\ tail' = IF call[c].op \in Writers THEN tail + n ELSE tail
      /\ seen' = IF b /\ call[c].op \in {"read", "granread", "peep"}
                   THEN Larger(seen, head + n) ELSE seen
      /\ skipped' = (skipped \/ (call[c].op = "readair" /\ n > 0 /\ head + n > seen))
  BY DEF Effect
<1> HIDE DEF n
<1>4. head \in Nat /\ tail \in head .. head + Capacity /\ seen \in Nat /\ skipped \in BOOLEAN
  BY <1>0 DEF RingTypeOK
<1>5. /\ head' = head + (IF call[c].op = "clean" THEN Size
                         ELSE IF call[c].op \in Removers THEN n ELSE 0)
      /\ tail' = tail + (IF call[c].op \in Writers THEN n ELSE 0)
  BY <1>3, <1>4, <1>13 DEF Size
<1>6. head' \in Nat /\ tail' \in head' .. head' + Capacity
  BY <1>2, <1>3, <1>4, <1>13 DEF Size, FreeSize, Removers, Writers
<1>7. seen' \in Nat /\ seen' >= seen BY <1>3, <1>4, <1>13 DEF Larger
<1>8. skipped' \in BOOLEAN BY <1>3, <1>4, Zenon
<1>9. ASSUME Whole(call[c]) \/ call[c].op = "clean", head % Gran = 0, tail % Gran = 0
      PROVE  head' % Gran = 0 /\ tail' % Gran = 0
  <2>1. CASE call[c].op = "clean" BY <1>3, <1>9, <2>1 DEF Writers
  <2>2. CASE Whole(call[c])
    <3>1. n = amount[c] * Gran BY <1>1, <1>13, <2>2 DEF Whole
    <3>2. head \in Nat /\ tail \in Nat /\ amount[c] \in Nat /\ Gran \in Nat \ {0}
      BY <1>0, <1>4
    <3>3. (head + amount[c] * Gran) % Gran = 0 BY <1>9, <3>2, WholePlus
    <3>4. (tail + amount[c] * Gran) % Gran = 0 BY <1>9, <3>2, WholePlus
    <3> QED BY <1>3, <1>9, <2>2, <3>1, <3>3, <3>4 DEF Whole
  <2> QED BY <1>9, <2>1, <2>2
<1>10. ASSUME call[c].op = "peep"
       PROVE  head' = head /\ (b => head + amount[c] <= seen')
  <2>1. n = amount[c] BY <1>1, <1>10, <1>13 DEF Whole
  <2> QED BY <1>0, <1>3, <1>4, <1>10, <2>1 DEF Larger, Removers
<1>11. ASSUME Shown(c), skipped' PROVE skipped
  <2>1. CASE call[c].op = "readair" /\ n > 0
    <3>1. n <= amount[c] BY <1>1, <1>13, <2>1 DEF Whole
    <3>2. amount[c] <= call[c].num BY <1>11, <2>1 DEF Shown
    <3>3. call[c].num > 0 BY <1>0, <1>13, <3>1, <3>2, <2>1
    <3>4. head + call[c].num <= seen BY <1>11, <2>1, <3>3 DEF Shown
    <3>5. ~(head + n > seen) BY <1>0, <1>4, <1>13, <3>1, <3>2, <3>4
    <3> QED BY <1>3, <1>11, <3>5, Zenon
  <2>2. CASE ~(call[c].op = "readair" /\ n > 0) BY <1>3, <1>11, <2>2, Zenon
  <2> QED BY <2>1, <2>2
<1>14. call[c].op # "readair" \/ Shown(c) => n = Length(c)
  <2>1. CASE call[c].op # "readair" BY <1>13, <2>1
  <2>2. CASE call[c].op = "readair" /\ Shown(c)
    BY <1>1, <1>13, <2>2 DEF Shown, Whole
  <2> QED BY <2>1, <2>2
<1>15. n <= Capacity
  BY <1>2, <1>12, <1>13
<1> QED
  BY <1>1, <1>5, <1>6, <1>7, <1>8, <1>9, <1>10, <1>11, <1>13, <1>14, <1>15 DEF Writes, n

(* What a transfer does to the counts: a successful one books what it      *)
(* moved, a failed one books nothing and moves at most a buffer full.      *)
LEMMA TransferCounts ==
  ASSUME BufferFits, RingInv, NEW c \in use.clients, Transfer(c)
  PROVE  CountsAddUp' /\ taken' \in Nat /\ given' \in Nat /\ failed' \in Nat
<1> USE RegWrCbAssumption
<1>1. /\ c \in Client /\ RingTypeOK /\ pc[c] = "transfer"
      /\ call[c] \in [op : Ops, num : Nat]
  BY UseTyped DEF RingInv, RingTypeOK, Transfer
<1>2. /\ head \in Nat /\ tail \in Nat /\ taken \in Nat /\ given \in Nat /\ failed \in Nat
      /\ Size \in 0 .. Capacity /\ Capacity \in Nat
  BY <1>1, SizeBounds DEF RingTypeOK
<1> DEFINE Sure == Airless \/ (\E d \in Client : Alone(d))
<1>3. /\ Sure => taken <= head
      /\ given <= tail
      /\ (head - taken) + (tail - given) <= failed * Capacity
  BY DEF RingInv, CountsAddUp
<1>4. Sure' <=> Sure
  BY DEF Transfer, Airless, Alone
<1>5. Sure => call[c].op # "readair" \/ Shown(c)
  <2>1. ASSUME NEW d \in Client, Alone(d) PROVE Shown(c)
    <3>1. d = c BY <2>1 DEF Alone
    <3> QED BY <1>1, <2>1, <3>1 DEF RingInv, ShownInv
  <2>2. ASSUME Airless PROVE call[c].op # "readair" \/ Shown(c)
    BY <1>1, <2>2 DEF RingInv, CallsOfUse
  <2> QED BY <2>1, <2>2
<1>6. failed * Capacity \in Nat
  BY <1>2
<1> HIDE DEF Sure
<1>7. CASE Succeed(c)
  <2>1. /\ head' = head + (IF call[c].op = "clean" THEN Size
                           ELSE IF call[c].op \in Removers THEN Moved(c) ELSE 0)
        /\ tail' = tail + (IF Writes(call[c]) THEN Moved(c) ELSE 0)
        /\ Told(c) \in Nat /\ Moved(c) \in Nat /\ Moved(c) <= Told(c)
        /\ call[c].op # "readair" \/ Shown(c) => Moved(c) = Told(c)
    BY <1>1, <1>7, EffectMoves DEF Succeed
  <2>2. /\ taken' = taken + (IF call[c].op = "clean" THEN Size
                             ELSE IF call[c].op \in Removers THEN Told(c) ELSE 0)
        /\ given' = given + (IF Writes(call[c]) THEN Told(c) ELSE 0)
        /\ failed' = failed
    BY <1>7 DEF Succeed
  <2>3. Writes(call[c]) => Moved(c) = Told(c)
    BY <2>1 DEF Writes, Writers
  <2>4. taken' \in Nat /\ given' \in Nat /\ given' <= tail' /\ (Sure => taken' <= head')
    BY <1>2, <1>3, <1>5, <2>1, <2>2, <2>3
  <2>5. (head' - taken') + (tail' - given') <= (head - taken) + (tail - given)
    BY <1>2, <2>1, <2>2, <2>3
  <2>6. (head' - taken') + (tail' - given') <= failed' * Capacity
    <3> DEFINE most == failed * Capacity
    <3>1. head' \in Nat /\ tail' \in Nat BY <1>2, <2>1
    <3>2. most \in Nat /\ (head - taken) + (tail - given) <= most BY <1>3, <1>6
    <3>3. failed' * Capacity = most BY <2>2
    <3> HIDE DEF most
    <3>4. /\ head \in Nat /\ tail \in Nat /\ taken \in Nat /\ given \in Nat
          /\ taken' \in Nat /\ given' \in Nat
      BY <1>2, <2>4
    <3> DEFINE before == (head - taken) + (tail - given)
               after == (head' - taken') + (tail' - given')
    <3>5. before \in Int /\ after \in Int BY <3>1, <3>4
    <3>6. before <= most BY <3>2
    <3>7. after <= before BY <2>5
    <3> HIDE DEF before, after
    <3>8. after <= most BY ONLY <3>2, <3>5, <3>6, <3>7
    <3>9. (head' - taken') + (tail' - given') <= most
      BY <3>8 DEF after
    <3> QED BY <3>3, <3>9
  <2> QED BY <1>2, <1>4, <2>2, <2>4, <2>6 DEF CountsAddUp, Sure
<1>8. CASE Fail(c) /\ (UNCHANGED buffer \/ Effect(c, FALSE))
  <2>1. failed' = failed + 1 /\ taken' = taken /\ given' = given
    BY <1>8 DEF Fail
  <2>2. /\ head' \in Nat /\ tail' \in Nat /\ head' >= head /\ tail' >= tail
        /\ (head' - head) + (tail' - tail) <= Capacity
    <3>1. CASE UNCHANGED buffer BY <1>2, <3>1 DEF buffer
    <3>2. CASE Effect(c, FALSE)
      <4>1. /\ head' = head + (IF call[c].op = "clean" THEN Size
                               ELSE IF call[c].op \in Removers THEN Moved(c) ELSE 0)
            /\ tail' = tail + (IF Writes(call[c]) THEN Moved(c) ELSE 0)
            /\ Moved(c) \in Nat /\ Moved(c) <= Capacity
        BY <1>1, <3>2, EffectMoves
      <4>2. Writes(call[c]) => call[c].op # "clean" /\ call[c].op \notin Removers
        BY DEF Writes, Writers, Removers
      <4> QED BY <1>2, <4>1, <4>2
    <3> QED BY <1>8, <3>1, <3>2
  <2>3. given' <= tail' /\ (Sure => taken' <= head')
    BY <1>2, <1>3, <2>1, <2>2
  <2>4. (head' - taken') + (tail' - given') <= failed' * Capacity
    <3> DEFINE missing == (head - taken) + (tail - given)
               m == (head' - head) + (tail' - tail)
    <3>1. missing \in Int /\ m \in Int /\ missing <= failed * Capacity /\ m <= Capacity
      <4>1. missing \in Int /\ m \in Int BY <1>2, <2>2
      <4>2. missing <= failed * Capacity BY <1>3
      <4> QED BY <2>2, <4>1, <4>2
    <3>2. (head' - taken') + (tail' - given') = missing + m
      BY <1>2, <2>1, <2>2
    <3> HIDE DEF missing, m
    <3>3. missing + m <= (failed + 1) * Capacity
      BY ONLY <3>1, <1>2, OneMore
    <3> QED BY <2>1, <3>2, <3>3
  <2> QED BY <1>2, <1>4, <2>1, <2>3, <2>4 DEF CountsAddUp, Sure
<1> QED BY <1>7, <1>8 DEF Transfer

LEMMA TransferStep ==
  ASSUME BufferFits, RingInv, NEW c \in use.clients, Transfer(c)
  PROVE  RingInv'
<1> USE RegWrCbAssumption
<1>0. c \in Client /\ RingTypeOK /\ call[c] \in [op : Ops, num : Nat] /\ pc[c] = "transfer"
  BY UseTyped DEF RingInv, RingTypeOK, Transfer
<1>1. UNCHANGED <<use, feeds, call, amount, calls>> BY DEF Transfer
<1>2. pc' = [pc EXCEPT ![c] = "idle"] BY DEF Transfer, Succeed, Fail, Return
<1>3. faults' \in 0 .. MaxFaults
  <2>1. faults' = faults \/ (faults < MaxFaults /\ faults' = faults + 1)
    BY DEF Transfer, Succeed, Fails
  <2>2. faults \in 0 .. MaxFaults BY <1>0 DEF RingTypeOK
  <2> QED BY <2>1, <2>2
<1>4. amount[c] \in 0 .. Capacity
  BY <1>0 DEF RingTypeOK
<1>5. /\ head' \in Nat /\ tail' \in head' .. head' + Capacity
      /\ seen' \in Nat /\ skipped' \in BOOLEAN
      /\ ret' \in {[ret EXCEPT ![c] = amount[c]], [ret EXCEPT ![c] = -2]}
      /\ Whole(call[c]) \/ call[c].op = "clean" =>
           (head % Gran = 0 /\ tail % Gran = 0 => head' % Gran = 0 /\ tail' % Gran = 0)
      /\ call[c].op = "peep" /\ ret' = [ret EXCEPT ![c] = amount[c]] /\ amount[c] > 0 =>
           ret'[c] = -2 \/ head' + amount[c] <= seen'
      /\ Shown(c) => (skipped' => skipped)
  <2>1. CASE Succeed(c)
    <3>1. Effect(c, TRUE) /\ ret' = [ret EXCEPT ![c] = amount[c]]
      BY <2>1 DEF Succeed, Return
    <3> QED BY <1>0, <1>4, <3>1, EffectMoves
  <2>2. CASE Fail(c) /\ UNCHANGED <<buffer, seen, skipped>>
    <3>1. ret' = [ret EXCEPT ![c] = -2] BY <2>2 DEF Fail, Return
    <3>2. ret'[c] = -2 BY <1>0, <3>1 DEF RingTypeOK
    <3> QED BY <1>0, <1>4, <2>2, <3>1, <3>2 DEF RingTypeOK, buffer
  <2>3. CASE Fail(c) /\ Effect(c, FALSE)
    <3>1. ret' = [ret EXCEPT ![c] = -2] BY <2>3 DEF Fail, Return
    <3>2. ret'[c] = -2 BY <1>0, <3>1 DEF RingTypeOK
    <3> QED BY <1>0, <2>3, <3>1, <3>2, EffectMoves
  <2> QED BY <2>1, <2>2, <2>3 DEF Transfer
<1>8. CountsAddUp' /\ taken' \in Nat /\ given' \in Nat /\ failed' \in Nat
  BY TransferCounts
<1>6. RingTypeOK'
  <2>1. /\ pc' \in [Client -> {"idle", "query", "transfer"}]
        /\ ret' \in [Client -> Nat \cup {-2}]
    BY <1>0, <1>2, <1>4, <1>5 DEF RingTypeOK
  <2> QED BY <1>0, <1>1, <1>3, <1>5, <1>8, <2>1 DEF RingTypeOK
<1>7. AmountFits' /\ CallsOfUse'
  BY <1>1 DEF RingInv, AmountFits, CallsOfUse, WholeOnly, Airless, Whole
<1>9. ItemsWhole'
  BY <1>0, <1>1, <1>5 DEF RingInv, ItemsWhole, CallsOfUse, WholeOnly
<1>10. ShownInv' /\ NothingSkipped'
  <2>1. ASSUME NEW d \in Client, Alone(d) PROVE Shown(d)' /\ ~skipped'
    <3>1. d = c /\ Shown(c) /\ ~skipped
      BY <1>0, <2>1 DEF Alone, RingInv, ShownInv, NothingSkipped
    <3>2. ~skipped' BY <1>5, <3>1
    <3>3. pc'[c] = "idle" BY <1>0, <1>2 DEF RingTypeOK
    <3>4. call[c].op = "peep" /\ ret'[c] > 0 => head' + ret'[c] <= seen'
      BY <1>0, <1>4, <1>5 DEF RingTypeOK
    <3> QED BY <1>1, <3>1, <3>2, <3>3, <3>4 DEF Shown
  <2> QED BY <1>1, <2>1 DEF ShownInv, NothingSkipped, Alone
<1> QED BY <1>6, <1>7, <1>8, <1>9, <1>10 DEF RingInv

LEMMA McuPutStep ==
  ASSUME RingInv, McuPut
  PROVE  RingInv'
<1> USE RegWrCbAssumption DEF McuPut
<1>1. RingTypeOK' BY DEF RingInv, RingTypeOK, FreeSize, Size
<1>2. AmountFits' /\ CallsOfUse' /\ NothingSkipped'
  BY DEF RingInv, AmountFits, CallsOfUse, NothingSkipped, WholeOnly, Airless, Whole, Alone
<1>3. CountsAddUp' BY DEF RingInv, RingTypeOK, CountsAddUp, Airless, Alone
<1>4. ItemsWhole'
  <2>1. tail \in Nat BY DEF RingInv, RingTypeOK
  <2>2. tail % Gran = 0 => (tail + 1 * Gran) % Gran = 0 BY <2>1, WholePlus
  <2>3. tail + 1 * Gran = tail' BY <2>1
  <2> QED BY <2>2, <2>3 DEF RingInv, ItemsWhole, WholeOnly
<1>5. ShownInv' BY DEF RingInv, RingTypeOK, ShownInv, Shown, Alone, Size
<1> QED BY <1>1, <1>2, <1>3, <1>4, <1>5 DEF RingInv

LEMMA McuTakeStep ==
  ASSUME RingInv, McuTake
  PROVE  RingInv'
<1> USE RegWrCbAssumption DEF McuTake
<1>1. RingTypeOK' BY DEF RingInv, RingTypeOK, Size
<1>2. AmountFits' /\ CallsOfUse' /\ NothingSkipped'
  BY DEF RingInv, AmountFits, CallsOfUse, NothingSkipped, WholeOnly, Airless, Whole, Alone
<1>3. CountsAddUp' BY DEF RingInv, RingTypeOK, CountsAddUp, Airless, Alone
<1>4. ItemsWhole'
  <2>1. head \in Nat BY DEF RingInv, RingTypeOK
  <2>2. head % Gran = 0 => (head + 1 * Gran) % Gran = 0 BY <2>1, WholePlus
  <2>3. head + 1 * Gran = head' BY <2>1
  <2> QED BY <2>2, <2>3 DEF RingInv, ItemsWhole, WholeOnly
<1>5. ShownInv'
  <2> SUFFICES ASSUME NEW d \in Client, Alone(d) PROVE Shown(d)'
    BY DEF ShownInv, Alone
  <2>1. Shown(d) /\ ~feeds BY DEF RingInv, ShownInv
  <2>2. call[d].op \notin {"peep", "readair"} BY <2>1 DEF Shown
  <2> QED BY <2>2 DEF Shown
<1> QED BY <1>1, <1>2, <1>3, <1>4, <1>5 DEF RingInv

-----------------------------------------------------------------------------
LEMMA RingStep == BufferFits /\ RingInv /\ [Next]_vars => RingInv'
<1> SUFFICES ASSUME BufferFits, RingInv, [Next]_vars PROVE RingInv'
  OBVIOUS
<1>1. ASSUME NEW c \in use.clients, NEW r \in use.requests, Invoke(c, r) PROVE RingInv'
  BY <1>1, InvokeStep
<1>2. ASSUME NEW c \in use.clients, Query(c) PROVE RingInv'
  BY <1>2, QueryStep
<1>3. ASSUME NEW c \in use.clients, Transfer(c) PROVE RingInv'
  BY <1>3, TransferStep
<1>4. CASE McuPut BY <1>4, McuPutStep
<1>5. CASE McuTake BY <1>5, McuTakeStep
<1>6. CASE UNCHANGED vars
  <2>1. RingTypeOK' /\ CountsAddUp' /\ ShownInv'
    BY <1>6 DEF vars, RingInv, RingTypeOK, CountsAddUp, Airless, Alone, ShownInv, Shown, Size
  <2>2. AmountFits' /\ CallsOfUse' /\ ItemsWhole' /\ NothingSkipped'
    BY <1>6 DEF vars, RingInv, AmountFits, CallsOfUse, ItemsWhole, NothingSkipped, WholeOnly,
                Airless, Whole, Alone
  <2> QED BY <2>1, <2>2 DEF RingInv
<1> QED BY <1>1, <1>2, <1>3, <1>4, <1>5, <1>6 DEF Next

(* The invariant holds of every behaviour.                                 *)
THEOREM RingInvariant == ASSUME BufferFits PROVE Spec => []RingInv
<1>1. Init => RingInv BY RingInit
<1>2. RingInv /\ [Next]_vars => RingInv' BY RingStep
<1> QED BY <1>1, <1>2, PTL DEF Spec

(* Every state is one the program and the MCU can be in: the buffer never  *)
(* holds less than nothing or more than its capacity, and no client asks   *)
(* for more than a buffer can hold.                                        *)
THEOREM RingTypeCorrect == ASSUME BufferFits PROVE Spec => []RingTypeOK
<1>1. RingInv => RingTypeOK BY DEF RingInv
<1> QED BY <1>1, RingInvariant, PTL

(* For any number of clients: RegWrCb_Write and _GranWrite never claim     *)
(* more than the MCU put in, and the reading calls no more than it         *)
(* removed, unless read-air races another reader.  Of what was moved, at   *)
(* most a buffer full is unaccounted for by each transfer that returned a  *)
(* negative number: with none, the counts are exact.                       *)
THEOREM ReturnsAddUp == ASSUME BufferFits PROVE Spec => []CountsAddUp
<1>1. RingInv => CountsAddUp BY DEF RingInv
<1> QED BY <1>1, RingInvariant, PTL

(* Clients that use RegWrCb_GranRead and _GranWrite only never leave a     *)
(* part of an item at either end of the buffer.                            *)
THEOREM ItemsStayWhole == ASSUME BufferFits PROVE Spec => []ItemsWhole
<1>1. RingInv => ItemsWhole BY DEF RingInv
<1> QED BY <1>1, RingInvariant, PTL

(* An only client that peeks before RegWrCb_ReadAir discards no byte it    *)
(* was not given, whatever accesses fail.                                  *)
THEOREM NothingIsSkipped == ASSUME BufferFits PROVE Spec => []NothingSkipped
<1>1. RingInv => NothingSkipped BY DEF RingInv
<1> QED BY <1>1, RingInvariant, PTL
=============================================================================
