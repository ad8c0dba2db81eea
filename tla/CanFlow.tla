------------------------------- MODULE CanFlow -------------------------------
(***************************************************************************)
(* CAN messages between the MCU's two ring buffers and the programs that   *)
(* use them: the echo test, the monitor that prints messages with their    *)
(* times, and the sending of one message (src/src/run.c:352-453), over     *)
(* RVMcu_ReceiveCanMsgBlock and RVMcu_SendCanMsgBlock                      *)
(* (src/src/rearview_mcu.c:182-234).                                       *)
(*                                                                         *)
(* A message is the number of its arrival; a buffer is a sequence of whole *)
(* messages, as ItemsWhole of RegWrCb allows.  Each read or write is its   *)
(* two accesses, which fail as in RegWrCb.  Polls that find nothing        *)
(* change nothing and are not steps.                                       *)
(***************************************************************************)
EXTENDS Integers, Sequences, SequencesExt

CONSTANTS
  Echo, Monitor, Sender,  \* the processes that run each of the three modes
  Block,      \* TEST_CAN_BUF_SIZE: messages a read may take
  RxCapacity, TxCapacity, \* room of the MCU's buffers, in messages
  Word,       \* 2^16: a message carries the low 16 bits of its time, in ms
  Gaps,       \* the times that may pass between two messages
  MaxMsgs,    \* bound: messages that arrive
  Faults,     \* "lost" (without effect) and "unacked" (failed, but done)
  MaxFaults   \* bound: failing accesses in a behaviour

Process == Echo \cup Monitor \cup Sender

ASSUME CanFlowAssumption ==
  /\ Echo \cap Monitor = {} /\ (Echo \cup Monitor) \cap Sender = {}
  /\ Block \in Nat \ {0} /\ RxCapacity \in Nat \ {0} /\ TxCapacity \in Nat \ {0}
  /\ Word \in Nat \ {0} /\ Gaps \subseteq Nat /\ MaxMsgs \in Nat
  /\ Faults \subseteq {"lost", "unacked"} /\ MaxFaults \in Nat

VARIABLES
  when,    \* when[m]: the time message m arrived
  rx, tx,  \* MCU: the buffers of received messages and of messages to send
  pc,      \* pc[p]: where p's loop is
  n,       \* n[p]: r_num or w_num between the two accesses
  buf,     \* buf[p]: the messages from can_msg_pos to can_msg_end
  got,     \* got[p]: messages that reads have delivered to p
  put,     \* put[p]: messages of p that went into tx
  again,   \* again[p]: how many of them in writes reported as failed
  ret,     \* ret[p]: result of a sender, -1 while it runs
  asc,     \* asc[p]: is_once, last_rtime and rtime (in microseconds) of a
           \*   monitor, and of the messages printed the true times of the
           \*   first and the last, how many came after the first, and
           \*   fits: no two in a row were a whole turn of can_time apart
  faults

vars == <<when, rx, tx, pc, n, buf, got, put, again, ret, asc, faults>>

Smaller(a, b) == IF a < b THEN a ELSE b

SingleMessage == 0   \* the message of a sender

Init ==
  /\ when = <<>> /\ rx = <<>> /\ tx = <<>>
  /\ pc = [p \in Process |-> IF p \in Echo THEN "receive"
                             ELSE IF p \in Monitor THEN "clean" ELSE "send"]
  /\ n = [p \in Process |-> 0]
  /\ buf = [p \in Process |-> IF p \in Sender THEN <<SingleMessage>> ELSE <<>>]
  /\ got = [p \in Process |-> <<>>]
  /\ put = [p \in Process |-> <<>>]
  /\ again = [p \in Process |-> 0] /\ ret = [p \in Process |-> -1]
  /\ asc = [p \in Monitor |-> [once |-> TRUE, last |-> 0, rtime |-> 0,
                               first |-> 0, at |-> 0, later |-> 0, fits |-> TRUE]]
  /\ faults = 0

Goto(p, from, to) == pc[p] = from /\ pc' = [pc EXCEPT ![p] = to]

Fails(kind) == kind \in Faults /\ faults < MaxFaults /\ faults' = faults + 1

-----------------------------------------------------------------------------
(* RVMcu_CleanRxFifo; its result is not looked at.                         *)
CleanRxFifo(p) ==
  /\ Goto(p, "clean", "receive")
  /\ \/ rx' = <<>> /\ UNCHANGED faults
     \/ rx' = <<>> /\ Fails("unacked")
     \/ UNCHANGED rx /\ Fails("lost")
  /\ UNCHANGED <<when, tx, n, buf, got, put, again, ret, asc>>

Wanted == Smaller(Len(rx), Block)

(* Mutant: off by one.                                                     *)
RxAfterLess(p) == SubSeq(rx, n[p], Len(rx))

RxAfter(p) == SubSeq(rx, n[p] + 1, Len(rx))

(* RVMcu_ReceiveCanMsgBlock: how many are there, at most Block             *)
QueryRx(p) ==
  /\ \/ /\ rx # <<>>
        /\ Goto(p, "receive", "take")
        /\ n' = [n EXCEPT ![p] = Wanted]
        /\ UNCHANGED faults
     \/ Goto(p, "receive", "receive") /\ Fails("lost") /\ UNCHANGED n
  /\ UNCHANGED <<when, rx, tx, buf, got, put, again, ret, asc>>

(* ... and take them, if another process has not done so.                  *)
TakeRx(p) ==
  /\ \/ /\ n[p] <= Len(rx)
        /\ Goto(p, "take", "handle")
        /\ buf' = [buf EXCEPT ![p] = SubSeq(rx, 1, n[p])]
        /\ got' = [got EXCEPT ![p] = @ \o SubSeq(rx, 1, n[p])]
        /\ rx' = RxAfter(p)
        /\ UNCHANGED faults
     \/ /\ Goto(p, "take", "receive")
        /\ \/ n[p] > Len(rx) /\ UNCHANGED <<rx, faults>>
           \/ Fails("lost") /\ UNCHANGED rx
           \/ /\ n[p] <= Len(rx)
              /\ Fails("unacked")
              /\ rx' = RxAfter(p)
        /\ UNCHANGED <<buf, got>>
  /\ UNCHANGED <<when, tx, n, put, again, ret, asc>>

-----------------------------------------------------------------------------
(* fun_loop_can_echo_test: send what was received, as much at a time as    *)
(* there is room for, and go on where the last write ended.                *)

Room == TxCapacity - Len(tx)

QueryTx(p) ==
  /\ \/ /\ Room > 0
        /\ Goto(p, "handle", "put")
        /\ n' = [n EXCEPT ![p] = Smaller(Room, Len(buf[p]))]
        /\ UNCHANGED faults
     \/ Goto(p, "handle", "handle") /\ Fails("lost") /\ UNCHANGED n
  /\ UNCHANGED <<when, rx, tx, buf, got, put, again, ret, asc>>

Written(p) == SubSeq(buf[p], 1, n[p])

(* Mutant: the whole rest counts as written.                               *)
NothingLeft(p) == <<>>

(* can_msg_pos += ret                                                      *)
Rest(p) == SubSeq(buf[p], n[p] + 1, Len(buf[p]))

(* RVMcu_SendCanMsgBlock, the second access: it succeeds ...               *)
PutOk(p) ==
  /\ n[p] <= Room
  /\ tx' = tx \o Written(p)
  /\ put' = [put EXCEPT ![p] = @ \o Written(p)]

(* ... or it returns an error: another process has taken the room, or it   *)
(* fails, and perhaps was done all the same.                               *)
PutError(p) ==
  \/ n[p] > Room /\ UNCHANGED <<tx, put, again, faults>>
  \/ Fails("lost") /\ UNCHANGED <<tx, put, again>>
  \/ Fails("unacked") /\ PutOk(p) /\ again' = [again EXCEPT ![p] = @ + n[p]]

PutTx(p) ==
  /\ p \in Echo
  /\ pc[p] = "put"
  /\ \/ /\ PutOk(p)
        /\ buf' = [buf EXCEPT ![p] = Rest(p)]
        /\ pc' = [pc EXCEPT ![p] = IF Rest(p) = <<>> THEN "receive" ELSE "handle"]
        /\ UNCHANGED <<again, faults>>
     \/ PutError(p) /\ pc' = [pc EXCEPT ![p] = "handle"] /\ UNCHANGED buf
  /\ UNCHANGED <<when, rx, n, got, ret, asc>>

EchoStep(p) == QueryRx(p) \/ TakeRx(p) \/ QueryTx(p) \/ PutTx(p)

-----------------------------------------------------------------------------
(* The times of the ASC format are microseconds, those of messages        *)
(* milliseconds.                                                           *)
Micros(ms) == 1000 * ms

(* fun_loop_receive_can_msg: print the next message, in the ASC format.    *)
(* Each one after the first adds the time since the one before it, and one *)
(* microsecond.  The rounding of the double that sums them is left out.    *)

CanTime(m) == when[m] % Word

(* Mutant: the difference is not cut to 16 bits.                           *)
PlainDifference(a, b) == a - b

(* (uint16_t)(can_time - last_rtime)                                       *)
TimePassed(a, b) == (a - b) % Word

PrintMessage(p) ==
  LET m == Head(buf[p])
      s == asc[p]
  IN
  /\ pc[p] = "handle"
  /\ asc' = [asc EXCEPT ![p] =
       IF s.once
         THEN [s EXCEPT !.once = FALSE, !.rtime = 0, !.last = CanTime(m),
                        !.first = when[m], !.at = when[m], !.later = 0]
         ELSE [s EXCEPT !.rtime = @ + Micros(TimePassed(CanTime(m), s.last)) + 1,
                        !.last = CanTime(m), !.at = when[m], !.later = @ + 1,
                        !.fits = @ /\ when[m] - s.at < Word]]
  /\ buf' = [buf EXCEPT ![p] = Tail(@)]
  /\ pc' = [pc EXCEPT ![p] = IF Len(buf[p]) = 1 THEN "receive" ELSE "handle"]
  /\ UNCHANGED <<when, rx, tx, n, got, put, again, ret, faults>>

MonitorStep(p) == CleanRxFifo(p) \/ QueryRx(p) \/ TakeRx(p) \/ PrintMessage(p)

-----------------------------------------------------------------------------
(* fun_send_can_msg: one message, no retry.                                *)

SendQuery(p) ==
  /\ \/ /\ Room > 0
        /\ Goto(p, "send", "put")
        /\ UNCHANGED <<ret, faults>>
     \/ /\ Goto(p, "send", "done")
        /\ \/ Room = 0 /\ ret' = [ret EXCEPT ![p] = 0] /\ UNCHANGED faults
           \/ Fails("lost") /\ ret' = [ret EXCEPT ![p] = -2]
  /\ n' = [n EXCEPT ![p] = 1]
  /\ UNCHANGED <<when, rx, tx, buf, got, put, again, asc>>

SendPut(p) ==
  /\ p \in Sender
  /\ Goto(p, "put", "done")
  /\ \/ PutOk(p) /\ ret' = [ret EXCEPT ![p] = 1] /\ UNCHANGED <<again, faults>>
     \/ PutError(p) /\ ret' = [ret EXCEPT ![p] = -2]
  /\ UNCHANGED <<when, rx, n, buf, got, asc>>

SenderStep(p) == SendQuery(p) \/ SendPut(p)

-----------------------------------------------------------------------------
(* The MCU: a message arrives, and is dropped if there is no room for it;  *)
(* a message goes out.                                                     *)

Now == IF when = <<>> THEN 0 ELSE Last(when)

CanArrive ==
  /\ Len(when) < MaxMsgs
  /\ \E gap \in Gaps : when' = Append(when, Now + gap)
  /\ rx' = IF Len(rx) < RxCapacity THEN Append(rx, Len(when')) ELSE rx
  /\ UNCHANGED <<tx, pc, n, buf, got, put, again, ret, asc, faults>>

CanDepart ==
  /\ tx # <<>>
  /\ tx' = Tail(tx)
  /\ UNCHANGED <<when, rx, pc, n, buf, got, put, again, ret, asc, faults>>

Next ==
  \/ \E p \in Echo : EchoStep(p)
  \/ \E p \in Monitor : MonitorStep(p)
  \/ \E p \in Sender : SenderStep(p)
  \/ CanArrive
  \/ CanDepart

(* The loops go on, and the MCU sends what it was given.  Nothing is       *)
(* assumed of arrivals.                                                    *)
Fairness ==
  /\ \A p \in Echo : WF_vars(EchoStep(p))
  /\ WF_vars(CanDepart)

Spec == Init /\ [][Next]_vars
FairSpec == Spec /\ Fairness

-----------------------------------------------------------------------------
Message == 1 .. MaxMsgs

CanTypeOK ==
  /\ when \in Seq(Nat) /\ Len(when) <= MaxMsgs
  /\ rx \in Seq(Message) /\ Len(rx) <= RxCapacity
  /\ tx \in Seq(Message \cup {SingleMessage}) /\ Len(tx) <= TxCapacity
  /\ pc \in [Process -> {"clean", "receive", "take", "handle", "put", "send", "done"}]
  /\ \A p \in Echo \cup Monitor :
       /\ pc[p] = "take" => n[p] \in 1 .. Block
       /\ buf[p] \in Seq(Message) /\ Len(buf[p]) <= Block
       /\ pc[p] \in {"handle", "put"} <=> buf[p] # <<>>
  /\ \A p \in Sender : ret[p] \in {-2, -1, 0, 1}
  /\ faults \in 0 .. MaxFaults

(* What p has sent, and still will send.                                   *)
Sent(p) == put[p] \o buf[p]

(* The echo test sends back what it received, in order and each message    *)
(* once, however its blocks are cut to the room there is, refused because  *)
(* of other senders, or repeated after a failure (can_msg_pos at           *)
(* run.c:438-448): none is forgotten, none goes out before an earlier one  *)
(* has, and the only ones sent again are those of writes that were done    *)
(* and reported as failed.                                                 *)
EchoExact ==
  \A p \in Echo :
    /\ ToSet(Sent(p)) = ToSet(got[p])
    /\ \A i \in DOMAIN Sent(p) : \A m \in ToSet(got[p]) :
         m < Sent(p)[i] => \E j \in 1 .. i - 1 : Sent(p)[j] = m
    /\ Len(Sent(p)) = Len(got[p]) + again[p]

(* Nothing a process receives is a message another one received, or out of *)
(* the order of arrival.                                                   *)
EachReceivedOnce ==
  /\ \A p \in Process : \A i, j \in DOMAIN got[p] : i < j => got[p][i] < got[p][j]
  /\ \A p, q \in Process : p # q => ToSet(got[p]) \cap ToSet(got[q]) = {}

(* The time the monitor prints is the time since its first message, and    *)
(* ahead of it by one microsecond for each message after the first, as     *)
(* long as no two that it prints in a row are a whole turn of the 16-bit   *)
(* can_time apart (run.c:396): nothing is lost in the sums of cut times,   *)
(* and the milliseconds are right for the first thousand messages.         *)
AscTimeDrift ==
  \A p \in Monitor :
    asc[p].fits => asc[p].rtime = Micros(asc[p].at - asc[p].first) + asc[p].later

(* What the echo test has received it sends, in the end: a full buffer or  *)
(* a failing access only delays it.                                        *)
EchoSends ==
  \A p \in Echo : \A m \in Message :
    (m \in ToSet(got[p])) ~> (m \in ToSet(put[p]))
=============================================================================
