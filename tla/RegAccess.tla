------------------------------ MODULE RegAccess ------------------------------
(***************************************************************************)
(* What a caller of SpiReg_Read and SpiReg_Write relies on: registers that *)
(* are read and written atomically at some moment of the call.             *)
(*                                                                         *)
(*   - a write takes effect at most once, and has taken effect if the call *)
(*     returns 0; if the call returns an error it may have taken effect or *)
(*     not, but it does not take effect later;                             *)
(*   - a read that returns 0 delivers a value the register held during the *)
(*     call.                                                               *)
(***************************************************************************)

CONSTANTS Thread, Requests, InitRegs, NoRequest, NoVal

VARIABLES
  regs,     \* the registers
  busy,     \* busy[t]: t is inside a call
  req,      \* req[t]: its arguments
  done,     \* done[t]: the write of t's call has taken effect
  seen,     \* seen[t]: contents of t's register since the call began
  outcome,  \* outcome[t]: "ok" (0) or "failed" (negative) after the call
  got       \* got[t]: the data a successful read delivered

vars == <<regs, busy, req, done, seen, outcome, got>>

Init ==
  /\ regs \in InitRegs
  /\ busy = [t \in Thread |-> FALSE]
  /\ req = [t \in Thread |-> NoRequest]
  /\ done = [t \in Thread |-> FALSE]
  /\ seen = [t \in Thread |-> {}]
  /\ outcome = [t \in Thread |-> "none"]
  /\ got = [t \in Thread |-> NoVal]

Invoke(t) ==
  /\ ~busy[t]
  /\ busy' = [busy EXCEPT ![t] = TRUE]
  /\ \E r \in Requests :
       /\ req' = [req EXCEPT ![t] = r]
       /\ seen' = [seen EXCEPT ![t] = {regs[r.addr]}]
  /\ done' = [done EXCEPT ![t] = FALSE]
  /\ outcome' = [outcome EXCEPT ![t] = "none"]
  /\ got' = [got EXCEPT ![t] = NoVal]
  /\ UNCHANGED regs

TakeEffect(t) ==
  /\ busy[t]
  /\ req[t].op = "write"
  /\ ~done[t]
  /\ regs' = [regs EXCEPT ![req[t].addr] = req[t].val]
  /\ done' = [done EXCEPT ![t] = TRUE]
  /\ seen' = [u \in Thread |->
                IF req[u].addr = req[t].addr
                  THEN seen[u] \cup {req[t].val} ELSE seen[u]]
  /\ UNCHANGED <<busy, req, outcome, got>>

Leave(t, result) ==
  /\ busy[t]
  /\ busy' = [busy EXCEPT ![t] = FALSE]
  /\ outcome' = [outcome EXCEPT ![t] = result]
  /\ UNCHANGED <<regs, req, done, seen>>

WriteOk(t) == req[t].op = "write" /\ done[t] /\ Leave(t, "ok") /\ UNCHANGED got

ReadOk(t) ==
  /\ req[t].op = "read"
  /\ Leave(t, "ok")
  /\ \E v \in seen[t] : got' = [got EXCEPT ![t] = v]

CallFails(t) == Leave(t, "failed") /\ UNCHANGED got

Next ==
  \E t \in Thread :
    Invoke(t) \/ TakeEffect(t) \/ WriteOk(t) \/ ReadOk(t) \/ CallFails(t)

Spec == Init /\ [][Next]_vars
=============================================================================
