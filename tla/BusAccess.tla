----------------------------- MODULE BusAccess -----------------------------
(***************************************************************************)
(* What ProtocolMethod::transform promises the threads that share the      *)
(* device bus, with nothing of the way it keeps the promise: a hold of the *)
(* bus carries one order, written a bounded number of times; only the      *)
(* addressed device may change, only in a hold for a command, only to the  *)
(* value of that command, and every command is newer than what any device  *)
(* has been told before.  Transform implements this specification.         *)
(***************************************************************************)
EXTENDS Integers

CONSTANTS Users,      (* threads *)
          Devices,
          Kinds,      (* (type,function) pairs *)
          Orders,     (* those that change a device *)
          MaxWrites,
          Nobody, NoValue

VARIABLES owner,      \* who holds the bus
          order,      \* [addr, fn, tries] of the hold
          value,      \* payload of the frames of this hold, NoValue before the first
          writes,     \* frames of this hold
          state       \* of each device

vars == <<owner, order, value, writes, state>>

Order == [addr : Devices, fn : Kinds, tries : {1, MaxWrites}]

Init ==
  /\ owner  = Nobody
  /\ order  = Nobody
  /\ value  = NoValue
  /\ writes = 0
  /\ state  = [d \in Devices |-> 0]

Acquire(u, o) ==
  /\ owner = Nobody
  /\ owner' = u
  /\ order' = o
  /\ UNCHANGED <<value, writes, state>>

\* The first frame fixes the value, the others repeat it; the device obeys or not.
Write ==
  /\ owner # Nobody
  /\ writes < order.tries
  /\ writes' = writes + 1
  /\ value' \in Nat
  /\ IF writes = 0 THEN order.fn \in Orders => \A d \in Devices : state[d] < value'
                   ELSE value' = value
  /\ \/ UNCHANGED state
     \/ order.fn \in Orders /\ state' = [state EXCEPT ![order.addr] = value']
  /\ UNCHANGED <<owner, order>>

Release ==
  /\ owner # Nobody
  /\ owner'  = Nobody
  /\ order'  = Nobody
  /\ value'  = NoValue
  /\ writes' = 0
  /\ UNCHANGED state

Next ==
  \/ \E u \in Users, o \in Order : Acquire(u, o)
  \/ Write
  \/ Release

Spec == Init /\ [][Next]_vars
=============================================================================
