------------------------------ MODULE Receiver ------------------------------
(***************************************************************************)
(* The way of a reply from the wire to the thread that waits for it:       *)
(* CProtocolComm::OnReceive and PacketBuffer (src/src/protocol) in the     *)
(* reader thread of the serial port, JobQueue between the threads, and     *)
(* WaitPopLast in the thread that sent the request.                        *)
(*                                                                         *)
(* A byte is [frame, pos, num]: the pos-th byte of a frame, 0 when it is   *)
(* damaged or no byte of a frame, and the length it stands for when it is  *)
(* read as m_btLen.  Bytes 1 and 2 are the head, 3 the length, the last    *)
(* two the check sum and the end mark.  A check sum is taken to detect     *)
(* every damage.                                                           *)
(***************************************************************************)
EXTENDS JobQueue

CONSTANTS FrameLen,      (* bytes of a reply *)
          MinLen,        (* PACKET_MINLEN *)
          MaxLen,        (* the greatest length a length byte can state *)
          MaxExchanges,  (* bound: exchanges *)
          MaxFaults      (* bound: lost, damaged or extra bytes, lost requests, late replies *)

ASSUME LenAssumption ==
  /\ FrameLen \in Nat /\ MinLen \in 5 .. FrameLen /\ MaxLen \in Nat /\ FrameLen < MaxLen
ASSUME BoundAssumption == MaxExchanges \in Nat /\ MaxFaults \in Nat
ASSUME OneConsumer == \E c \in Consumers : Consumers = {c}

Waiter == CHOOSE c \in Consumers : TRUE

VARIABLES
  out,      \* requests in the output buffer of the serial driver
  todo,     \* bytes the device has still to send
  driver,   \* bytes in the input buffer of the serial driver
  buffer,   \* m_buffer
  reader,   \* the reader thread: waits in select, or is in OnReceive
  pc,       \* the waiting thread: idle, in the first WaitPop, or in the later ones
  got,      \* packet of WaitPopLast, 0 if there is none
  faults,
  n,        \* history: exchanges begun
  last,     \* history: the packet taken last
  clean,    \* history: the exchange begun last found nothing left over, no fault since
  late,     \* history: some reply came after its timeout
  missed    \* history: exchanges since the last fault or cut that had no reply of their own

lineVars   == <<out, todo, driver>>
histVars   == <<n, last, clean, late, missed>>
vars       == <<queue, wait, lineVars, buffer, reader, pc, got, faults, histVars>>

Byte  == [frame : 0 .. MaxExchanges, pos : 0 .. FrameLen, num : {MinLen, FrameLen, MaxLen}]
Noise == [frame |-> 0, pos |-> 0, num |-> MaxLen]
Reply(f) == [p \in 1 .. FrameLen |-> [frame |-> f, pos |-> p,
                                      num |-> IF p = 3 THEN FrameLen ELSE MaxLen]]

Init ==
  /\ QueueInit
  /\ out = <<>> /\ todo = <<>> /\ driver = <<>> /\ buffer = <<>>
  /\ reader = "select"
  /\ pc = "idle"
  /\ got = 0 /\ faults = 0
  /\ n = 0 /\ last = 0 /\ clean = TRUE /\ late = FALSE /\ missed = 0

\* Nothing is under way.
Quiet == out = <<>> /\ todo = <<>> /\ driver = <<>> /\ reader = "select"

\* Nothing is left over of earlier exchanges.
NothingLeft == out = <<>> /\ todo = <<>> /\ driver = <<>> /\ buffer = <<>>

Fault == faults < MaxFaults /\ faults' = faults + 1 /\ clean' = FALSE /\ missed' = 0

-----------------------------------------------------------------------------
(* The line and the device.                                                *)

\* The device hears the request and answers, or the request is lost.
Transmit ==
  /\ out # <<>>
  /\ out' = Tail(out)
  /\ \/ todo' = todo \o Reply(Head(out)) /\ UNCHANGED <<faults, clean, missed>>
     \/ Fault /\ UNCHANGED todo
  /\ UNCHANGED <<queue, wait, driver, buffer, reader, pc, got, n, last, late>>

\* What becomes of a byte on the line.
Garbled(b) ==
  {<<>>, <<Noise, b>>} \cup {<<[b EXCEPT !.pos = 0, !.num = k]>> : k \in {MinLen, MaxLen}}

Arrive ==
  /\ todo # <<>>
  /\ todo' = Tail(todo)
  /\ \/ driver' = Append(driver, Head(todo)) /\ UNCHANGED <<faults, clean, missed>>
     \/ Fault /\ \E g \in Garbled(Head(todo)) : driver' = driver \o g
  /\ UNCHANGED <<queue, wait, out, buffer, reader, pc, got, n, last, late>>

-----------------------------------------------------------------------------
(* PacketBuffer over the bytes b.                                          *)

HeadWrong(b) == Len(b) >= 2 /\ ~(b[1].pos = 1 /\ b[2].pos = 2)
Complete(b)  == Len(b) >= MinLen /\ Len(b) >= b[3].num
SumOk(b)     == \A i \in 3 .. b[3].num : b[i].pos = i /\ b[i].frame = b[3].frame

\* Mutant: the check sum is not compared.
ValidUnchecked(b) == ~HeadWrong(b) /\ Complete(b)

\* Mutant: a wrong check sum makes PacketVaild wait for more.
BrokenHead(b) == HeadWrong(b)

\* PacketVaild returns true, throws, or returns false and waits for more.
Valid(b) == ~HeadWrong(b) /\ Complete(b) /\ SumOk(b)
Broken(b) == HeadWrong(b) \/ (Complete(b) /\ ~SumOk(b))
Partial(b) == ~Valid(b) /\ ~Broken(b)

(* CProtocolComm::OnReceive.                                               *)

Read ==
  /\ reader = "select"
  /\ driver # <<>>
  /\ buffer' = buffer \o driver
  /\ driver' = <<>>
  /\ reader' = "receive"
  /\ UNCHANGED <<queue, wait, out, todo, pc, got, faults, histVars>>

\* GetPacket copies the first packet and deletes it; OnReceive pushes it.
GetPacket ==
  /\ reader = "receive"
  /\ Valid(buffer)
  /\ Push(buffer[3].frame)
  /\ buffer' = SubSeq(buffer, buffer[3].num + 1, Len(buffer))
  /\ UNCHANGED <<lineVars, reader, pc, got, faults, histVars>>

Incomplete ==
  /\ reader = "receive"
  /\ Partial(buffer)
  /\ reader' = "select"
  /\ UNCHANGED <<queue, wait, lineVars, buffer, pc, got, faults, histVars>>

\* The exception: m_buffer.clear() and Flush(), which empties both buffers of
\* the driver (TCIOFLUSH), a request that is being sent included.
Discard ==
  /\ reader = "receive"
  /\ Broken(buffer)
  /\ buffer' = <<>>
  /\ driver' = <<>>
  /\ out'    = <<>>
  /\ reader' = "select"
  /\ missed' = IF todo # <<>> THEN 0 ELSE missed
  /\ UNCHANGED <<queue, wait, todo, pc, got, faults, n, last, clean, late>>

-----------------------------------------------------------------------------
(* The thread that waits: SendFrame and WaitPopLast.                       *)

\* Mutant: the receive queue is not cleared.
SendFrameNoClear ==
  /\ pc = "idle"
  /\ n < MaxExchanges
  /\ n' = n + 1
  /\ out' = Append(out, n + 1)
  /\ got' = 0
  /\ clean' = NothingLeft
  /\ pc' = "first"
  /\ UNCHANGED <<queue, wait, todo, driver, buffer, reader, faults, last, late, missed>>

SendFrame ==
  /\ pc = "idle"
  /\ n < MaxExchanges
  /\ n' = n + 1
  /\ Clear
  /\ out' = Append(out, n + 1)
  /\ got' = 0
  /\ clean' = NothingLeft
  /\ pc' = "first"
  /\ UNCHANGED <<todo, driver, buffer, reader, faults, last, late, missed>>

\* Mutant: the first packet is kept, not the last.
TakeFirst ==
  /\ pc \in {"first", "more"}
  /\ PopFront(Waiter)
  /\ got' = IF pc = "first" THEN Head(queue) ELSE got
  /\ last' = Head(queue)
  /\ pc' = "more"
  /\ UNCHANGED <<lineVars, buffer, reader, faults, n, clean, late, missed>>

\* WaitPop succeeds: the packet replaces the one before it.
Take ==
  /\ pc \in {"first", "more"}
  /\ PopFront(Waiter)
  /\ got' = Head(queue)
  /\ last' = Head(queue)
  /\ pc' = "more"
  /\ UNCHANGED <<lineVars, buffer, reader, faults, n, clean, late, missed>>

Block ==
  /\ pc \in {"first", "more"}
  /\ Sleep(Waiter)
  /\ UNCHANGED <<lineVars, buffer, reader, pc, got, faults, histVars>>

\* The first WaitPop times out when nothing comes any more, or too early; the
\* later ones wait 0 ms.
Timeout ==
  /\ Expire(Waiter)
  /\ \/ (pc = "more" \/ Quiet) /\ UNCHANGED <<faults, clean, late, missed>>
     \/ pc = "first" /\ ~Quiet /\ Fault /\ late' = TRUE
  /\ UNCHANGED <<lineVars, buffer, reader, pc, got, n, last>>

Spurious ==
  /\ WakeUp(Waiter)
  /\ \/ pc = "more" /\ UNCHANGED <<faults, clean, late, missed>>
     \/ pc = "first" /\ Fault /\ late' = TRUE
  /\ UNCHANGED <<lineVars, buffer, reader, pc, got, n, last>>

\* WaitPopLast returns, with the last packet or without one.
Finish ==
  /\ pc \in {"first", "more"}
  /\ ReturnFalse(Waiter)
  /\ pc' = "idle"
  /\ missed' = IF got = n THEN missed ELSE missed + 1
  /\ UNCHANGED <<lineVars, buffer, reader, got, faults, n, last, clean, late>>

-----------------------------------------------------------------------------

Next ==
  \/ Transmit \/ Arrive
  \/ Read \/ GetPacket \/ Incomplete \/ Discard
  \/ SendFrame \/ Take \/ Block \/ Timeout \/ Spurious \/ Finish

Spec == Init /\ [][Next]_vars

-----------------------------------------------------------------------------
(* Properties.                                                             *)

TypeOK ==
  /\ queue  \in Seq(1 .. MaxExchanges)
  /\ wait   \in [Consumers -> {"out", "asleep", "woken", "expired"}]
  /\ out    \in Seq(1 .. MaxExchanges)
  /\ todo   \in Seq(Byte)
  /\ driver \in Seq(Byte)
  /\ buffer \in Seq(Byte)
  /\ reader \in {"select", "receive"}
  /\ pc     \in {"idle", "first", "more"}
  /\ got    \in 0 .. MaxExchanges
  /\ faults \in 0 .. MaxFaults
  /\ n      \in 0 .. MaxExchanges
  /\ last   \in 0 .. MaxExchanges
  /\ clean  \in BOOLEAN
  /\ late   \in BOOLEAN
  /\ missed \in Nat

\* An exchange that begins with nothing left over and suffers no fault returns
\* its own reply, into however many chunks the reader thread gets it and
\* however its steps fall between those of the waiting thread.
CleanExchangeSucceeds == pc = "idle" /\ n > 0 /\ clean => got = n

\* Exchanges whose replies a wrong length can hold back: m_buffer holds a byte
\* at least when they begin and waits for MaxLen bytes at most.
HoldBack == (MaxLen + FrameLen - 2) \div FrameLen

\* The receive path recovers.  After the last fault, and the last discard that cut
\* a reply in two and so left its rest to spoil what follows, the exchange in hand
\* and those held back are all that is missed.  How many discards one after the
\* other cut a reply is not bounded: see the README.
DamageBounded == ~late => missed <= HoldBack + 1

\* Replies reach the waiting thread in the order they were sent, each once.
RepliesInOrder == [][Take => last' > last]_vars

\* Exchanges that may still be missed without a further fault or cut; nothing is
\* counted once a reply has been late.
Credit  == HoldBack + 1 - missed
Balance == IF late THEN 0 ELSE Credit

\* The exchange that Exchange speaks of is the one in hand, its answer the packet
\* that WaitPopLast holds.
Promise == INSTANCE Exchange WITH
  Price <- HoldBack + 1, asked <- n, open <- pc # "idle", answer <- got, taken <- last,
  undisturbed <- clean, credit <- Balance

\* The reader thread, PacketBuffer, the queue and WaitPopLast together implement
\* Exchange: what they do with bytes and wake-ups is one exchange after another
\* that has its own reply, or misses it soon after a fault or a cut.
ExchangeRefined == Promise!Spec
=============================================================================
