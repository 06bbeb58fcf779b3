--------------------------- MODULE ReceiverProofs ---------------------------
(***************************************************************************)
(* The way of a reply from the wire to its thread, for frames of any       *)
(* length and any number of exchanges and faults: the state is well typed, *)
(* no wake-up of the queue is lost, and replies are taken in the order in  *)
(* which they were sent; an undisturbed exchange returns its own reply, a  *)
(* bounded number is missed after the last fault or cut, and what happens  *)
(* is what Exchange says.                                                  *)
(***************************************************************************)
EXTENDS Receiver, SequenceTheorems, FiniteSetTheorems, TLAPS

-----------------------------------------------------------------------------
(***************************************************************************)
(* JobQueue, for any number of consumers: each of its operations keeps     *)
(* NoLostWakeup.                                                           *)
(***************************************************************************)
Waits == {"out", "asleep", "woken", "expired"}

LEMMA FiniteWaits ==
  /\ IsFiniteSet(Woken) /\ Cardinality(Woken) \in Nat
<1>1. Woken \subseteq Consumers
  BY DEF Woken
<1> QED
  BY <1>1, FS_Subset, FS_CardinalityType, ConsumersAssumption

\* A signal hands one element to one sleeper.
LEMMA PushWakes ==
  ASSUME NEW S, queue \in Seq(S), NEW x \in S, wait \in [Consumers -> Waits],
         NoLostWakeup, Push(x)
  PROVE  NoLostWakeup' /\ wait' \in [Consumers -> Waits] /\ queue' \in Seq(S)
<1>1. queue' \in Seq(S) /\ Len(queue') = Len(queue) + 1
  BY DEF Push
<1>2. CASE Asleep = {} /\ UNCHANGED wait
  BY <1>1, <1>2 DEF NoLostWakeup, Asleep
<1>3. CASE \E c \in Asleep : wait' = [wait EXCEPT ![c] = "woken"]
  <2>1. PICK c \in Asleep : wait' = [wait EXCEPT ![c] = "woken"]
    BY <1>3
  <2>2. Woken' = Woken \cup {c} /\ c \notin Woken
    BY <2>1 DEF Woken, Asleep, Waits
  <2>3. Cardinality(Woken') = Cardinality(Woken) + 1
    BY <2>2, FiniteWaits, FS_AddElement
  <2>4. wait' \in [Consumers -> Waits]
    BY <2>1 DEF Waits
  <2> QED
    BY <1>1, <2>1, <2>3, <2>4, FiniteWaits DEF NoLostWakeup
<1> QED
  BY <1>1, <1>2, <1>3 DEF Push

\* Whoever takes an element had been woken for it, or was quicker than the one
\* that had.
LEMMA PopFrontWakes ==
  ASSUME NEW S, queue \in Seq(S), wait \in [Consumers -> Waits], NEW c \in Consumers,
         NoLostWakeup, PopFront(c)
  PROVE  /\ NoLostWakeup' /\ wait' \in [Consumers -> Waits]
         /\ queue' \in Seq(S) /\ Head(queue) \in S
<1> USE DEF PopFront
<1>1. queue' \in Seq(S) /\ Len(queue') = Len(queue) - 1 /\ Head(queue) \in S /\ Len(queue) \in Nat
  BY HeadTailProperties
<1>2. wait' \in [Consumers -> Waits]
  BY DEF Waits
<1>3. Asleep' = Asleep /\ Woken' = Woken \ {c}
  BY DEF Asleep, Woken, Waits
<1>4. Cardinality(Woken') >= Cardinality(Woken) - 1
  <2>1. Cardinality(Woken \ {c}) = IF c \in Woken THEN Cardinality(Woken) - 1 ELSE Cardinality(Woken)
    BY FiniteWaits, FS_RemoveElement
  <2> QED
    BY <1>3, <2>1, FiniteWaits
<1>5. Cardinality(Woken') \in Nat
  BY <1>3, FiniteWaits, FS_RemoveElement, FS_CardinalityType
<1> QED
  BY <1>1, <1>2, <1>3, <1>4, <1>5, FiniteWaits DEF NoLostWakeup

\* Going to sleep, waking, expiring and giving up.
LEMMA WaitingWakes ==
  ASSUME NEW S, queue \in Seq(S), wait \in [Consumers -> Waits], NEW c \in Consumers,
         NoLostWakeup, Sleep(c) \/ WakeUp(c) \/ Expire(c) \/ ReturnFalse(c)
  PROVE  NoLostWakeup' /\ wait' \in [Consumers -> Waits] /\ queue' = queue
<1>1. queue' = queue /\ Len(queue) \in Nat
  BY DEF Sleep, WakeUp, Expire, ReturnFalse
<1>2. wait' \in [Consumers -> Waits]
  BY DEF Sleep, WakeUp, Expire, ReturnFalse, Waits
<1>3. CASE queue = <<>>
  <2>1. Woken' \subseteq Consumers
    BY DEF Woken
  <2>2. Cardinality(Woken') \in Nat
    BY <2>1, FS_Subset, FS_CardinalityType, ConsumersAssumption
  <2> QED
    BY <1>1, <1>2, <1>3, <2>2 DEF NoLostWakeup
<1>4. CASE WakeUp(c)
  <2>1. Woken' = Woken \cup {c} /\ c \in Asleep /\ c \notin Woken
    BY <1>4 DEF WakeUp, Woken, Asleep, Waits
  <2>2. Cardinality(Woken') = Cardinality(Woken) + 1
    BY <2>1, FiniteWaits, FS_AddElement
  <2> QED
    BY <1>1, <1>2, <2>1, <2>2, FiniteWaits DEF NoLostWakeup
<1>5. CASE Expire(c) \/ (ReturnFalse(c) /\ queue # <<>>)
  <2>1. Woken' = Woken /\ (Asleep' # {} => Asleep # {})
    BY <1>5 DEF Expire, ReturnFalse, Woken, Asleep, Waits
  <2> QED
    BY <1>1, <1>2, <2>1 DEF NoLostWakeup
<1> QED
  BY <1>3, <1>4, <1>5 DEF Sleep, ReturnFalse

LEMMA ClearWakes ==
  ASSUME NEW S, wait \in [Consumers -> Waits], Clear
  PROVE  NoLostWakeup' /\ wait' \in [Consumers -> Waits] /\ queue' \in Seq(S)
<1>1. queue' = <<>> /\ wait' = wait
  BY DEF Clear
<1>2. Woken' = Woken
  BY <1>1 DEF Woken
<1> QED
  BY <1>1, <1>2, FiniteWaits DEF NoLostWakeup

-----------------------------------------------------------------------------
(***************************************************************************)
(* Sequences: what a tail, a suffix and a concatenation contain, and that  *)
(* they stay in order.                                                     *)
(***************************************************************************)
Items(s) == {s[i] : i \in 1 .. Len(s)}

\* A byte that is one of a frame comes before another such byte.
Before(a, b) ==
  a.pos > 0 /\ b.pos > 0 => a.frame < b.frame \/ (a.frame = b.frame /\ a.pos < b.pos)

Ordered(s) == \A i, j \in 1 .. Len(s) : i < j => Before(s[i], s[j])
Apart(s, t) == \A a \in Items(s), b \in Items(t) : Before(a, b)
Rising(s) == \A i, j \in 1 .. Len(s) : i < j => s[i] < s[j]

LEMMA EmptyItems ==
  Items(<<>>) = {} /\ Ordered(<<>>) /\ Rising(<<>>)
BY DEF Items, Ordered, Rising

LEMMA TailItems ==
  ASSUME NEW S, NEW s \in Seq(S), s # <<>>
  PROVE  /\ Tail(s) \in Seq(S)
         /\ Head(s) \in S /\ Head(s) \in Items(s)
         /\ Items(s) \subseteq S
         /\ Items(Tail(s)) \subseteq Items(s)
         /\ Ordered(s) => Ordered(Tail(s)) /\ \A b \in Items(Tail(s)) : Before(Head(s), b)
         /\ Rising(s) => Rising(Tail(s)) /\ \A b \in Items(Tail(s)) : Head(s) < b
<1>1. /\ Tail(s) \in Seq(S) /\ Len(Tail(s)) = Len(s) - 1 /\ Len(s) \in Nat \ {0}
      /\ \A i \in 1 .. Len(Tail(s)) : Tail(s)[i] = s[i + 1]
      /\ Head(s) = s[1] /\ Head(s) \in S
  BY HeadTailProperties, EmptySeq
<1>2. Items(s) \subseteq S
  BY ElementOfSeq DEF Items
<1>3. Items(Tail(s)) \subseteq Items(s)
  BY <1>1 DEF Items
<1>4. Head(s) \in Items(s)
  BY <1>1 DEF Items
<1>5. ASSUME Ordered(s)
      PROVE  Ordered(Tail(s)) /\ \A b \in Items(Tail(s)) : Before(Head(s), b)
  <2>1. Ordered(Tail(s))
    BY <1>1, <1>5 DEF Ordered
  <2>2. \A b \in Items(Tail(s)) : Before(Head(s), b)
    BY <1>1, <1>5 DEF Ordered, Items
  <2> QED
    BY <2>1, <2>2
<1>6. ASSUME Rising(s)
      PROVE  Rising(Tail(s)) /\ \A b \in Items(Tail(s)) : Head(s) < b
  BY <1>1, <1>6 DEF Rising, Items
<1> QED
  BY <1>1, <1>2, <1>3, <1>4, <1>5, <1>6

LEMMA SuffixItems ==
  ASSUME NEW S, NEW s \in Seq(S), NEW k \in 1 .. Len(s)
  PROVE  LET t == SubSeq(s, k + 1, Len(s))
         IN  /\ t \in Seq(S)
             /\ Items(t) \subseteq Items(s)
             /\ Ordered(s) => Ordered(t) /\ \A b \in Items(t) : Before(s[k], b)
<1> DEFINE t == SubSeq(s, k + 1, Len(s))
<1>1. Len(s) \in Nat /\ \A i \in k + 1 .. Len(s) : s[i] \in S
  BY ElementOfSeq, LenProperties
<1>2. /\ t \in Seq(S) /\ Len(t) = Len(s) - k
      /\ \A i \in 1 .. Len(s) - k : t[i] = s[k + i]
  <2>1. /\ t \in Seq(S) /\ Len(t) = IF k + 1 <= Len(s) THEN Len(s) - (k + 1) + 1 ELSE 0
        /\ \A i \in 1 .. Len(s) - (k + 1) + 1 : t[i] = s[(k + 1) + i - 1]
    BY <1>1, SubSeqProperties
  <2> QED
    BY <1>1, <2>1
<1> HIDE DEF t
<1>3. Items(t) \subseteq Items(s)
  BY <1>1, <1>2 DEF Items
<1>4. ASSUME Ordered(s) PROVE Ordered(t) /\ \A b \in Items(t) : Before(s[k], b)
  <2>1. Ordered(t)
    BY <1>1, <1>2, <1>4 DEF Ordered
  <2>2. \A b \in Items(t) : Before(s[k], b)
    BY <1>1, <1>2, <1>4 DEF Ordered, Items
  <2> QED
    BY <2>1, <2>2
<1> QED
  BY <1>2, <1>3, <1>4 DEF t

LEMMA ConcatItems ==
  ASSUME NEW S, NEW s \in Seq(S), NEW t \in Seq(S)
  PROVE  /\ s \o t \in Seq(S)
         /\ Items(s \o t) = Items(s) \cup Items(t)
         /\ Ordered(s) /\ Ordered(t) /\ Apart(s, t) => Ordered(s \o t)
         /\ (Rising(s) /\ Rising(t) /\ \A a \in Items(s), b \in Items(t) : a < b) => Rising(s \o t)
<1> DEFINE u == s \o t
<1>1. /\ u \in Seq(S) /\ Len(u) = Len(s) + Len(t)
      /\ \A i \in 1 .. Len(s) + Len(t) : u[i] = IF i <= Len(s) THEN s[i] ELSE t[i - Len(s)]
      /\ Len(s) \in Nat /\ Len(t) \in Nat
  BY ConcatProperties, LenProperties
<1> HIDE DEF u
<1>2. Items(u) = Items(s) \cup Items(t)
  <2>1. Items(u) \subseteq Items(s) \cup Items(t)
    BY <1>1 DEF Items
  <2>2. \A i \in 1 .. Len(s) : s[i] = u[i] /\ i \in 1 .. Len(u)
    BY <1>1
  <2>3. \A i \in 1 .. Len(t) : t[i] = u[Len(s) + i] /\ Len(s) + i \in 1 .. Len(u)
    BY <1>1
  <2>4. Items(s) \subseteq Items(u)
    BY <2>2 DEF Items
  <2>5. Items(t) \subseteq Items(u)
    BY <2>3 DEF Items
  <2> QED
    BY <2>1, <2>4, <2>5
<1>3. ASSUME NEW i \in 1 .. Len(u), NEW j \in 1 .. Len(u), i < j
      PROVE  \/ i \in 1 .. Len(s) /\ j \in 1 .. Len(s) /\ u[i] = s[i] /\ u[j] = s[j]
             \/ /\ i - Len(s) \in 1 .. Len(t) /\ j - Len(s) \in 1 .. Len(t)
                /\ u[i] = t[i - Len(s)] /\ u[j] = t[j - Len(s)]
             \/ u[i] \in Items(s) /\ u[j] \in Items(t)
  BY <1>1, <1>3 DEF Items
<1>4. ASSUME Ordered(s), Ordered(t), Apart(s, t) PROVE Ordered(u)
  <2> SUFFICES ASSUME NEW i \in 1 .. Len(u), NEW j \in 1 .. Len(u), i < j
               PROVE  Before(u[i], u[j])
    BY DEF Ordered
  <2>1. CASE i \in 1 .. Len(s) /\ j \in 1 .. Len(s) /\ u[i] = s[i] /\ u[j] = s[j]
    BY <2>1, <1>1, <1>4 DEF Ordered, Apart
  <2>2. CASE /\ i - Len(s) \in 1 .. Len(t) /\ j - Len(s) \in 1 .. Len(t)
             /\ u[i] = t[i - Len(s)] /\ u[j] = t[j - Len(s)]
    <3>1. i - Len(s) < j - Len(s)
      BY <1>1
    <3> QED
      BY <2>2, <3>1, <1>4 DEF Ordered, Apart
  <2>3. CASE u[i] \in Items(s) /\ u[j] \in Items(t)
    BY <2>3, <1>4 DEF Ordered, Apart
  <2> QED
    BY <1>3, <2>1, <2>2, <2>3
<1>5. ASSUME Rising(s), Rising(t), \A a \in Items(s), b \in Items(t) : a < b PROVE Rising(u)
  <2> SUFFICES ASSUME NEW i \in 1 .. Len(u), NEW j \in 1 .. Len(u), i < j
               PROVE  u[i] < u[j]
    BY DEF Rising
  <2>1. CASE i \in 1 .. Len(s) /\ j \in 1 .. Len(s) /\ u[i] = s[i] /\ u[j] = s[j]
    BY <2>1, <1>1, <1>5 DEF Rising
  <2>2. CASE /\ i - Len(s) \in 1 .. Len(t) /\ j - Len(s) \in 1 .. Len(t)
             /\ u[i] = t[i - Len(s)] /\ u[j] = t[j - Len(s)]
    <3>1. i - Len(s) < j - Len(s)
      BY <1>1
    <3> QED
      BY <2>2, <3>1, <1>5 DEF Rising
  <2>3. CASE u[i] \in Items(s) /\ u[j] \in Items(t)
    BY <2>3, <1>5 DEF Rising
  <2> QED
    BY <1>3, <2>1, <2>2, <2>3
<1> QED
  BY <1>1, <1>2, <1>4, <1>5 DEF u

\* A sequence of one.
LEMMA OneItem ==
  ASSUME NEW S, NEW e \in S
  PROVE  <<e>> \in Seq(S) /\ Items(<<e>>) = {e} /\ Ordered(<<e>>) /\ Rising(<<e>>)
BY DEF Items, Ordered, Rising

LEMMA AppendItems ==
  ASSUME NEW S, NEW s \in Seq(S), NEW e \in S
  PROVE  /\ Append(s, e) \in Seq(S)
         /\ Items(Append(s, e)) = Items(s) \cup {e}
         /\ (Rising(s) /\ \A a \in Items(s) : a < e) => Rising(Append(s, e))
         /\ (Ordered(s) /\ \A a \in Items(s) : Before(a, e)) => Ordered(Append(s, e))
<1> DEFINE u == Append(s, e)
<1>1. /\ u \in Seq(S) /\ Len(u) = Len(s) + 1 /\ Len(s) \in Nat
      /\ \A i \in 1 .. Len(s) : u[i] = s[i]
      /\ u[Len(s) + 1] = e
  OBVIOUS
<1> HIDE DEF u
<1>2. Items(u) = Items(s) \cup {e}
  <2>1. Items(u) \subseteq Items(s) \cup {e}
    BY <1>1 DEF Items
  <2>2. Items(s) \subseteq Items(u)
    BY <1>1 DEF Items
  <2>3. e \in Items(u)
    BY <1>1 DEF Items
  <2> QED
    BY <2>1, <2>2, <2>3
<1>3. (Rising(s) /\ \A a \in Items(s) : a < e) => Rising(u)
  BY <1>1 DEF Rising, Items
<1>4. (Ordered(s) /\ \A a \in Items(s) : Before(a, e)) => Ordered(u)
  BY <1>1 DEF Ordered, Items
<1> QED
  BY <1>1, <1>2, <1>3, <1>4 DEF u

-----------------------------------------------------------------------------
(***************************************************************************)
(* The inductive invariant.                                                *)
(***************************************************************************)
\* A byte that is one of a frame says so truly, the length byte too.
GoodByte == {b \in Byte : b.pos > 0 => b.frame >= 1 /\ (b.pos = 3 => b.num = FrameLen)}

ReceiverTypes ==
  /\ TypeOK
  /\ todo \in Seq(GoodByte) /\ driver \in Seq(GoodByte) /\ buffer \in Seq(GoodByte)

\* What is on its way from the device is in order, across its three stations.
LineOrder ==
  /\ Ordered(buffer) /\ Ordered(driver) /\ Ordered(todo)
  /\ Apart(buffer, driver) /\ Apart(buffer, todo) /\ Apart(driver, todo)

Stream == Items(buffer) \cup Items(driver) \cup Items(todo)

\* All of frame m has been passed on: what follows belongs to later frames.
Passed(m) ==
  /\ m <= n
  /\ \A b \in Stream : b.pos > 0 => m < b.frame
  /\ \A o \in Items(out) : m < o

FrameOrder ==
  /\ Rising(queue) /\ Rising(out)
  /\ Passed(last)
  /\ \A q \in Items(queue) : last < q /\ Passed(q)
  /\ \A o \in Items(out) : o <= n /\ \A b \in Stream : b.pos > 0 => b.frame < o
  /\ \A b \in Stream : b.pos > 0 => b.frame <= n

ReceiverInv == ReceiverTypes /\ NoLostWakeup /\ LineOrder /\ FrameOrder

LEMMA WaiterIn == Waiter \in Consumers
BY OneConsumer DEF Waiter

LEMMA NaturalBounds ==
  /\ MaxExchanges \in Nat /\ MaxFaults \in Nat
  /\ FrameLen \in Nat /\ FrameLen >= 5 /\ MinLen \in Nat /\ MinLen >= 5
  /\ MaxLen \in Nat /\ FrameLen < MaxLen
BY LenAssumption, BoundAssumption

LEMMA InitReceiver == Init => ReceiverInv
<1> SUFFICES ASSUME Init PROVE ReceiverInv
  OBVIOUS
<1>1. /\ queue = <<>> /\ out = <<>> /\ todo = <<>> /\ driver = <<>> /\ buffer = <<>>
      /\ wait = [c \in Consumers |-> "out"]
      /\ reader = "select" /\ pc = "idle" /\ got = 0 /\ faults = 0 /\ n = 0 /\ last = 0
      /\ missed = 0
  BY DEF Init, QueueInit
<1>2. clean \in BOOLEAN /\ late \in BOOLEAN
  BY Zenon DEF Init
<1>3. wait \in [Consumers -> {"out", "asleep", "woken", "expired"}]
  BY <1>1
<1>4. ReceiverTypes
  BY <1>1, <1>2, <1>3, NaturalBounds DEF ReceiverTypes, TypeOK
<1>5. NoLostWakeup
  BY <1>1 DEF NoLostWakeup, Asleep
<1>6. Stream = {} /\ Items(queue) = {} /\ Items(out) = {}
  BY <1>1, EmptyItems DEF Stream
<1>7. LineOrder /\ FrameOrder
  BY <1>1, <1>6, EmptyItems DEF LineOrder, FrameOrder, Passed, Apart
<1> QED
  BY <1>4, <1>5, <1>7 DEF ReceiverInv

\* Most steps leave the numbers and the queue alone and put nothing new on its
\* way: the frames stay in order.
LEMMA FramesKept ==
  ASSUME FrameOrder, UNCHANGED <<queue, n, last>>,
         \A b \in Stream' : b.pos > 0 => b \in Stream,
         Items(out') \subseteq Items(out), Rising(out')
  PROVE  FrameOrder'
BY DEF FrameOrder, Passed

-----------------------------------------------------------------------------
(***************************************************************************)
(* The line and the reader thread.                                         *)
(***************************************************************************)
\* A whole reply is in order.
LEMMA ReplyItems ==
  ASSUME NEW f \in 1 .. MaxExchanges
  PROVE  /\ Reply(f) \in Seq(GoodByte) /\ Ordered(Reply(f))
         /\ \A b \in Items(Reply(f)) : b.frame = f
<1> USE NaturalBounds
<1> DEFINE r == Reply(f)
<1>1. \A p \in 1 .. FrameLen : r[p].frame = f /\ r[p].pos = p /\ r[p] \in GoodByte
  BY DEF Reply, GoodByte, Byte
<1>2. r \in Seq(GoodByte) /\ Len(r) = FrameLen
  BY <1>1 DEF Reply
<1> HIDE DEF r
<1>3. Ordered(r) /\ \A b \in Items(r) : b.frame = f
  BY <1>1, <1>2 DEF Ordered, Items, Before
<1> QED
  BY <1>2, <1>3 DEF r

LEMMA FaultTypes ==
  ASSUME TypeOK, Fault
  PROVE  faults' \in 0 .. MaxFaults /\ clean' \in BOOLEAN /\ missed' \in Nat
<1>1. faults' \in 0 .. MaxFaults /\ missed' \in Nat
  BY NaturalBounds DEF TypeOK, Fault
<1>2. clean' \in BOOLEAN
  BY Zenon DEF Fault
<1> QED
  BY <1>1, <1>2

LEMMA FaultCounts ==
  ASSUME ReceiverTypes, Fault
  PROVE  faults' # faults
BY NaturalBounds DEF Fault, ReceiverTypes, TypeOK

LEMMA TransmitReceiver ==
  ASSUME ReceiverInv, Transmit
  PROVE  ReceiverInv'
<1> USE DEF ReceiverInv, Transmit, Fault
<1>1. /\ out' \in Seq(1 .. MaxExchanges) /\ Head(out) \in 1 .. MaxExchanges
      /\ Head(out) \in Items(out) /\ Items(out') \subseteq Items(out) /\ Rising(out')
      /\ \A o \in Items(out') : Head(out) < o
  BY TailItems DEF ReceiverTypes, TypeOK, FrameOrder
<1>2. NoLostWakeup'
  BY DEF NoLostWakeup, Asleep, Woken
<1>3. faults' \in 0 .. MaxFaults /\ clean' \in BOOLEAN /\ missed' \in Nat
  <2>1. CASE UNCHANGED <<faults, clean, missed>>
    BY <2>1 DEF ReceiverTypes, TypeOK
  <2>2. CASE Fault
    BY <2>2, FaultTypes DEF ReceiverTypes
  <2> QED
    BY <2>1, <2>2
<1>4. CASE todo' = todo \o Reply(Head(out))
  <2> DEFINE f == Head(out)
  <2>1. /\ Reply(f) \in Seq(GoodByte) /\ Ordered(Reply(f))
        /\ \A b \in Items(Reply(f)) : b.frame = f
    BY <1>1, ReplyItems
  <2>2. \A b \in Stream : b.pos > 0 => b.frame < f
    BY <1>1 DEF FrameOrder
  <2>3. Stream \subseteq GoodByte
    BY ElementOfSeq DEF Stream, Items, ReceiverTypes
  <2>4. \A b \in Stream, c \in Items(Reply(f)) : Before(b, c)
    BY <2>1, <2>2 DEF Before
  <2>5. /\ todo' \in Seq(GoodByte)
        /\ Items(todo') = Items(todo) \cup Items(Reply(f))
        /\ Ordered(todo')
    BY <1>4, <2>1, <2>4, ConcatItems DEF ReceiverTypes, LineOrder, Apart, Stream
  <2>6. LineOrder'
    BY <2>4, <2>5 DEF LineOrder, Apart, Stream
  <2>7. Stream' = Stream \cup Items(Reply(f))
    BY <2>5 DEF Stream
  <2>8. FrameOrder'
    BY <1>1, <2>1, <2>2, <2>7 DEF FrameOrder, Passed
  <2>9. todo' \in Seq(Byte)
    BY <2>5, SeqMonotonic DEF GoodByte
  <2>10. ReceiverTypes'
    BY <1>1, <1>3, <2>5, <2>9 DEF ReceiverTypes, TypeOK
  <2> QED
    BY <1>2, <2>6, <2>8, <2>10
<1>5. CASE UNCHANGED todo
  <2>1. Stream' = Stream
    BY <1>5 DEF Stream
  <2>2. FrameOrder'
    BY <1>1, <2>1, FramesKept
  <2>3. ReceiverTypes'
    BY <1>1, <1>3, <1>5 DEF ReceiverTypes, TypeOK
  <2> QED
    BY <1>2, <1>5, <2>2, <2>3 DEF LineOrder
<1> QED
  BY <1>4, <1>5

LEMMA GarbledBytes ==
  ASSUME NEW b \in GoodByte, NEW g \in Garbled(b)
  PROVE  /\ g \in Seq(GoodByte) /\ Ordered(g)
         /\ \A c \in Items(g) : c.pos > 0 => c = b
<1> USE NaturalBounds
<1>1. Noise \in GoodByte /\ Noise.pos = 0
  BY DEF Noise, GoodByte, Byte
<1>2. CASE g = <<>>
  BY <1>2, EmptyItems
<1>3. CASE g = <<Noise, b>>
  <2>1. g \in Seq(GoodByte) /\ Len(g) = 2 /\ g[1] = Noise /\ g[2] = b
    BY <1>1, <1>3
  <2> QED
    BY <1>1, <2>1 DEF Ordered, Items, Before
<1>4. CASE \E k \in {MinLen, MaxLen} : g = <<[b EXCEPT !.pos = 0, !.num = k]>>
  <2>1. PICK k \in {MinLen, MaxLen} : g = <<[b EXCEPT !.pos = 0, !.num = k]>>
    BY <1>4
  <2> DEFINE c == [b EXCEPT !.pos = 0, !.num = k]
  <2>2. b \in Byte /\ 0 \in 0 .. FrameLen
    BY DEF GoodByte
  <2>3. c \in Byte /\ c.pos = 0
    BY <2>2 DEF Byte
  <2> HIDE DEF c
  <2>4. c \in GoodByte
    BY <2>3 DEF GoodByte
  <2>5. g = <<c>>
    BY <2>1 DEF c
  <2> QED
    BY <2>3, <2>4, <2>5, OneItem
<1> QED
  BY <1>2, <1>3, <1>4 DEF Garbled

LEMMA ArriveReceiver ==
  ASSUME ReceiverInv, Arrive
  PROVE  ReceiverInv'
<1> USE DEF ReceiverInv, Arrive
<1> DEFINE h == Head(todo)
<1>1. /\ todo' \in Seq(GoodByte) /\ h \in GoodByte /\ h \in Items(todo)
      /\ Items(todo') \subseteq Items(todo) /\ Ordered(todo')
      /\ \A b \in Items(todo') : Before(h, b)
      /\ Items(todo) \subseteq GoodByte
  BY TailItems DEF ReceiverTypes, LineOrder
<1> HIDE DEF h
<1>2. PICK g \in Seq(GoodByte) : /\ Ordered(g) /\ driver' = driver \o g
                                 /\ \A c \in Items(g) : c.pos > 0 => c = h
  <2>1. CASE driver' = Append(driver, h)
    <3>1. Append(driver, h) = driver \o <<h>>
      BY <1>1, AppendIsConcat DEF ReceiverTypes
    <3> QED
      BY <2>1, <3>1, <1>1, OneItem
  <2>2. CASE \E g \in Garbled(h) : driver' = driver \o g
    BY <2>2, <1>1, GarbledBytes
  <2> QED
    BY <2>1, <2>2 DEF h
<1>3. \A b \in Items(buffer) \cup Items(driver), c \in Items(g) : Before(b, c)
  BY <1>1, <1>2 DEF LineOrder, Apart, Before
<1>4. \A c \in Items(g), b \in Items(todo') : Before(c, b)
  BY <1>1, <1>2 DEF Before
<1>5. /\ driver' \in Seq(GoodByte) /\ Items(driver') = Items(driver) \cup Items(g)
      /\ Ordered(driver')
  BY <1>2, <1>3, ConcatItems DEF ReceiverTypes, LineOrder, Apart
<1>6. LineOrder'
  BY <1>1, <1>3, <1>4, <1>5 DEF LineOrder, Apart
<1>7. \A b \in Stream' : b.pos > 0 => b \in Stream
  BY <1>1, <1>2, <1>5 DEF Stream
<1>8. FrameOrder'
  BY <1>7, FramesKept DEF FrameOrder
<1>9. faults' \in 0 .. MaxFaults /\ clean' \in BOOLEAN /\ missed' \in Nat
  <2>1. CASE UNCHANGED <<faults, clean, missed>>
    BY <2>1 DEF ReceiverTypes, TypeOK
  <2>2. CASE Fault
    BY <2>2, FaultTypes DEF ReceiverTypes
  <2> QED
    BY <2>1, <2>2
<1>10. todo' \in Seq(Byte) /\ driver' \in Seq(Byte)
  BY <1>1, <1>5, SeqMonotonic DEF GoodByte
<1>11. ReceiverTypes'
  BY <1>1, <1>5, <1>9, <1>10 DEF ReceiverTypes, TypeOK
<1>12. NoLostWakeup'
  BY DEF NoLostWakeup, Asleep, Woken
<1> QED
  BY <1>6, <1>8, <1>11, <1>12

LEMMA ReadReceiver ==
  ASSUME ReceiverInv, Read
  PROVE  ReceiverInv'
<1> USE DEF ReceiverInv, Read
<1>1. /\ buffer' \in Seq(GoodByte) /\ Items(buffer') = Items(buffer) \cup Items(driver)
      /\ Ordered(buffer')
  BY ConcatItems DEF ReceiverTypes, LineOrder
<1>2. Items(driver') = {} /\ Ordered(driver') /\ driver' \in Seq(GoodByte) /\ driver' \in Seq(Byte)
  BY EmptyItems
<1>3. LineOrder'
  BY <1>1, <1>2 DEF LineOrder, Apart
<1>4. Stream' = Stream
  BY <1>1, <1>2 DEF Stream
<1>5. FrameOrder'
  BY <1>4, FramesKept DEF FrameOrder, lineVars, histVars
<1>6. buffer' \in Seq(Byte)
  BY <1>1, SeqMonotonic DEF GoodByte
<1>7. ReceiverTypes'
  BY <1>1, <1>2, <1>6 DEF ReceiverTypes, TypeOK, histVars
<1>8. NoLostWakeup'
  BY DEF NoLostWakeup, Asleep, Woken
<1> QED
  BY <1>3, <1>5, <1>7, <1>8

LEMMA IncompleteReceiver ==
  ASSUME ReceiverInv, Incomplete
  PROVE  ReceiverInv'
<1> USE DEF ReceiverInv, Incomplete, lineVars, histVars
<1>1. ReceiverTypes'
  BY DEF ReceiverTypes, TypeOK
<1>2. NoLostWakeup'
  BY DEF NoLostWakeup, Asleep, Woken
<1> QED
  BY <1>1, <1>2 DEF LineOrder, FrameOrder, Passed, Stream

LEMMA DiscardReceiver ==
  ASSUME ReceiverInv, Discard
  PROVE  ReceiverInv'
<1> USE DEF ReceiverInv, Discard
<1>1. /\ buffer' = <<>> /\ driver' = <<>> /\ out' = <<>>
      /\ Items(buffer') = {} /\ Items(driver') = {} /\ Items(out') = {}
      /\ Ordered(buffer') /\ Ordered(driver') /\ Rising(out')
  BY EmptyItems
<1>2. LineOrder'
  BY <1>1 DEF LineOrder, Apart
<1>3. Stream' \subseteq Stream
  BY <1>1 DEF Stream
<1>4. FrameOrder'
  BY <1>1, <1>3, FramesKept
<1>5. missed' \in Nat
  BY DEF ReceiverTypes, TypeOK
<1>6. ReceiverTypes'
  BY <1>1, <1>5 DEF ReceiverTypes, TypeOK
<1>7. NoLostWakeup'
  BY DEF NoLostWakeup, Asleep, Woken
<1> QED
  BY <1>2, <1>4, <1>6, <1>7

\* A valid packet is the whole of one reply, and all that was left of it.
LEMMA ValidPacket ==
  ASSUME ReceiverInv, Valid(buffer)
  PROVE  /\ FrameLen \in 3 .. Len(buffer) /\ buffer[3].num = FrameLen
         /\ buffer[3].frame \in 1 .. MaxExchanges
         /\ buffer[3].pos > 0 /\ buffer[3] \in Items(buffer)
         /\ buffer[FrameLen].frame = buffer[3].frame
         /\ buffer[FrameLen].pos = FrameLen
<1> USE DEF ReceiverInv, Valid, Complete
<1>1. Len(buffer) \in Nat /\ Len(buffer) >= 5
  BY NaturalBounds, LenProperties DEF ReceiverTypes
<1>2. buffer[3] \in GoodByte /\ buffer[3] \in Items(buffer)
  BY <1>1, ElementOfSeq DEF ReceiverTypes, Items
<1>3. buffer[3].num \in Nat /\ buffer[3].num >= 5
  BY <1>2, NaturalBounds DEF GoodByte, Byte
<1>4. buffer[3].pos = 3
  BY <1>3 DEF SumOk
<1>5. buffer[3].num = FrameLen /\ buffer[3].frame \in 1 .. MaxExchanges
  BY <1>2, <1>4, NaturalBounds DEF GoodByte, Byte
<1>6. FrameLen \in 3 .. Len(buffer)
  BY <1>1, <1>5, NaturalBounds
<1>7. buffer[FrameLen].frame = buffer[3].frame /\ buffer[FrameLen].pos = FrameLen
  BY <1>5, <1>6 DEF SumOk
<1> QED
  BY <1>2, <1>4, <1>5, <1>6, <1>7

LEMMA GetPacketReceiver ==
  ASSUME ReceiverInv, GetPacket
  PROVE  ReceiverInv'
<1> USE DEF ReceiverInv, GetPacket
<1> DEFINE f == buffer[3].frame
<1> DEFINE e == buffer[FrameLen]
<1>0. /\ FrameLen \in 3 .. Len(buffer) /\ FrameLen \in 1 .. Len(buffer) /\ FrameLen > 0
      /\ buffer[3].num = FrameLen
  BY ValidPacket, NaturalBounds
<1>1. /\ FrameLen \in 1 .. Len(buffer)
      /\ f \in 1 .. MaxExchanges /\ e.frame = f /\ e.pos = FrameLen /\ FrameLen > 0
      /\ buffer[3].pos > 0 /\ buffer[3] \in Stream /\ e \in Items(buffer)
      /\ buffer' = SubSeq(buffer, FrameLen + 1, Len(buffer))
  BY <1>0, ValidPacket DEF Stream, Items
<1>2. /\ buffer' \in Seq(GoodByte) /\ Items(buffer') \subseteq Items(buffer)
      /\ Ordered(buffer') /\ \A b \in Items(buffer') : Before(e, b)
  BY <1>1, SuffixItems DEF ReceiverTypes, LineOrder
<1>3. /\ NoLostWakeup' /\ wait' \in [Consumers -> Waits]
      /\ queue' \in Seq(1 .. MaxExchanges)
  BY <1>1, PushWakes DEF ReceiverTypes, TypeOK, Waits
<1>4. Stream' \subseteq Stream /\ Stream \subseteq GoodByte
  <2>1. Stream' \subseteq Stream
    BY <1>2 DEF Stream, lineVars
  <2>2. Stream \subseteq GoodByte
    BY ElementOfSeq DEF Stream, ReceiverTypes, Items
  <2> QED
    BY <2>1, <2>2
<1>5. \A b \in Stream' : b.pos > 0 => f < b.frame
  <2>1. \A b \in Stream' : Before(e, b)
    BY <1>1, <1>2 DEF Stream, LineOrder, Apart, lineVars
  <2>2. \A b \in Stream' : b.pos <= FrameLen /\ b.pos \in Nat /\ b.frame \in Nat
    BY <1>4, NaturalBounds DEF GoodByte, Byte
  <2> QED
    BY <1>1, <2>1, <2>2, NaturalBounds DEF Before
<1>6. last < f /\ f <= n /\ (\A q \in Items(queue) : q < f) /\ \A o \in Items(out) : f < o
  BY <1>1 DEF FrameOrder, Passed
<1>7. queue' = Append(queue, f) /\ Items(queue') = Items(queue) \cup {f} /\ Rising(queue')
  <2>1. queue' = Append(queue, f)
    BY DEF Push
  <2>2. queue \in Seq(1 .. MaxExchanges) /\ Rising(queue)
    BY DEF ReceiverTypes, TypeOK, FrameOrder
  <2>3. f \in 1 .. MaxExchanges /\ \A q \in Items(queue) : q < f
    BY <1>1, <1>6
  <2> HIDE DEF f
  <2> DEFINE S == 1 .. MaxExchanges
  <2>4. queue \in Seq(S) /\ f \in S
    BY <2>2, <2>3
  <2> HIDE DEF S
  <2>5. /\ Items(Append(queue, f)) = Items(queue) \cup {f}
        /\ Rising(Append(queue, f))
    BY <2>2, <2>3, <2>4, AppendItems
  <2> QED
    BY <2>1, <2>5
<1>8. FrameOrder'
  BY <1>4, <1>5, <1>6, <1>7 DEF FrameOrder, Passed, lineVars, histVars
<1>9. LineOrder'
  BY <1>2 DEF LineOrder, Apart, lineVars
<1>10. buffer' \in Seq(Byte)
  BY <1>2, SeqMonotonic DEF GoodByte
<1>11. ReceiverTypes'
  BY <1>2, <1>3, <1>10 DEF ReceiverTypes, TypeOK, Waits, lineVars, histVars
<1> QED
  BY <1>3, <1>8, <1>9, <1>11

-----------------------------------------------------------------------------
(***************************************************************************)
(* The thread that waits.                                                  *)
(***************************************************************************)
LEMMA SendFrameReceiver ==
  ASSUME ReceiverInv, SendFrame
  PROVE  ReceiverInv'
<1> USE DEF ReceiverInv, SendFrame
<1>1. n \in 0 .. MaxExchanges /\ n' = n + 1 /\ n' \in 1 .. MaxExchanges /\ n < n'
  BY NaturalBounds DEF ReceiverTypes, TypeOK
<1>2. queue' = <<>> /\ Items(queue') = {} /\ Rising(queue')
  BY EmptyItems DEF Clear
<1>3. /\ NoLostWakeup' /\ wait' \in [Consumers -> Waits]
      /\ queue' \in Seq(1 .. MaxExchanges)
  BY ClearWakes DEF ReceiverTypes, TypeOK, Waits
<1>4. \A o \in Items(out) : o \in 1 .. MaxExchanges /\ o < n'
  <2>1. out \in Seq(1 .. MaxExchanges)
    BY DEF ReceiverTypes, TypeOK
  <2>2. \A o \in Items(out) : o \in 1 .. MaxExchanges
    BY <2>1, ElementOfSeq DEF Items
  <2>3. \A o \in Items(out) : o <= n
    BY DEF FrameOrder
  <2> QED
    BY <1>1, <2>2, <2>3
<1>5. out \in Seq(1 .. MaxExchanges) /\ Rising(out) /\ out' = Append(out, n')
  BY <1>1 DEF ReceiverTypes, TypeOK, FrameOrder
<1>6. /\ Items(out') = Items(out) \cup {n'} /\ Rising(out')
      /\ out' \in Seq(1 .. MaxExchanges)
  <2> DEFINE S == 1 .. MaxExchanges
  <2>1. out \in Seq(S) /\ n' \in S
    BY <1>1, <1>5
  <2> HIDE DEF S
  <2>2. /\ Append(out, n') \in Seq(S)
        /\ Items(Append(out, n')) = Items(out) \cup {n'}
        /\ Rising(Append(out, n'))
    BY <1>4, <1>5, <2>1, AppendItems
  <2> QED
    BY <1>5, <2>2 DEF S
<1>7. Stream' = Stream
  BY DEF Stream
<1>8. \A b \in Stream : b.pos > 0 => b.frame \in Nat
  <2>1. Stream \subseteq GoodByte
    BY ElementOfSeq DEF Stream, Items, ReceiverTypes
  <2> QED
    BY <2>1, NaturalBounds DEF GoodByte, Byte
<1>9. last \in Nat
  BY NaturalBounds DEF ReceiverTypes, TypeOK
<1>10. FrameOrder'
  <2>1. Passed(last)'
    BY <1>1, <1>6, <1>7, <1>9 DEF FrameOrder, Passed
  <2>2. \A o \in Items(out') : o <= n' /\ \A b \in Stream' : b.pos > 0 => b.frame < o
    BY <1>1, <1>4, <1>6, <1>7, <1>8 DEF FrameOrder
  <2>3. \A b \in Stream' : b.pos > 0 => b.frame <= n'
    BY <1>1, <1>7, <1>8 DEF FrameOrder
  <2> QED
    BY <1>2, <1>6, <2>1, <2>2, <2>3 DEF FrameOrder
<1>11. clean' \in BOOLEAN
  BY Zenon DEF NothingLeft
<1>12. ReceiverTypes'
  <2>1. n' \in 0 .. MaxExchanges /\ got' \in 0 .. MaxExchanges
    BY <1>1, NaturalBounds
  <2> QED
    BY <1>3, <1>6, <1>11, <2>1 DEF ReceiverTypes, TypeOK, Waits
<1>13. LineOrder'
  BY DEF LineOrder
<1> QED
  BY <1>3, <1>10, <1>12, <1>13

LEMMA TakeReceiver ==
  ASSUME ReceiverInv, Take
  PROVE  ReceiverInv' /\ last' > last
<1> USE DEF ReceiverInv, Take
<1>1. /\ NoLostWakeup' /\ wait' \in [Consumers -> Waits]
      /\ queue' \in Seq(1 .. MaxExchanges) /\ Head(queue) \in 1 .. MaxExchanges
  BY PopFrontWakes, WaiterIn DEF ReceiverTypes, TypeOK, Waits
<1>2. queue # <<>> /\ queue' = Tail(queue) /\ last' = Head(queue)
  BY DEF PopFront
<1>3. queue \in Seq(1 .. MaxExchanges) /\ Rising(queue)
  BY DEF ReceiverTypes, TypeOK, FrameOrder
<1>4. /\ Head(queue) \in Items(queue) /\ Items(Tail(queue)) \subseteq Items(queue)
      /\ Rising(Tail(queue)) /\ \A q \in Items(Tail(queue)) : Head(queue) < q
  <2> DEFINE S == 1 .. MaxExchanges
  <2>1. queue \in Seq(S)
    BY <1>3
  <2> HIDE DEF S
  <2> QED
    BY <1>2, <1>3, <2>1, TailItems
<1>5. Stream' = Stream
  BY DEF Stream, lineVars
<1>6. FrameOrder'
  <2>1. \A q \in Items(queue) : Passed(q)'
    BY <1>5 DEF FrameOrder, Passed, lineVars
  <2> QED
    BY <1>2, <1>4, <1>5, <2>1 DEF FrameOrder, Passed, lineVars
<1>7. last' > last
  BY <1>1, <1>2, <1>4, NaturalBounds DEF FrameOrder, ReceiverTypes, TypeOK
<1>8. ReceiverTypes'
  BY <1>1, <1>2, NaturalBounds DEF ReceiverTypes, TypeOK, Waits, lineVars
<1>9. LineOrder'
  BY DEF LineOrder, lineVars
<1> QED
  BY <1>1, <1>6, <1>7, <1>8, <1>9

\* Waiting changes nothing that the orders are about.
LEMMA WaitReceiver ==
  ASSUME ReceiverInv, Block \/ Timeout \/ Spurious \/ Finish
  PROVE  ReceiverInv'
<1> USE DEF ReceiverInv
<1>1. /\ Sleep(Waiter) \/ WakeUp(Waiter) \/ Expire(Waiter) \/ ReturnFalse(Waiter)
      /\ UNCHANGED <<lineVars, buffer, n, last>>
  BY DEF Block, Timeout, Spurious, Finish, histVars
<1>2. NoLostWakeup' /\ wait' \in [Consumers -> Waits] /\ queue' = queue
  BY <1>1, WaitingWakes, WaiterIn DEF ReceiverTypes, TypeOK, Waits
<1>3. LineOrder' /\ FrameOrder'
  BY <1>1, <1>2 DEF LineOrder, FrameOrder, Passed, Stream, lineVars
<1>4. faults' \in 0 .. MaxFaults /\ clean' \in BOOLEAN /\ late' \in BOOLEAN /\ missed' \in Nat
  <2>1. CASE UNCHANGED <<faults, clean, late>> /\ missed' \in {missed, missed + 1}
    BY <2>1 DEF ReceiverTypes, TypeOK
  <2>2. CASE Fault /\ late' = TRUE
    <3>1. late' \in BOOLEAN
      BY <2>2, Zenon
    <3> QED
      BY <2>2, <3>1, FaultTypes DEF ReceiverTypes
  <2> QED
    BY <2>1, <2>2 DEF Block, Timeout, Spurious, Finish, histVars
<1>5. pc' \in {"idle", "first", "more"}
  BY DEF Block, Timeout, Spurious, Finish, histVars, ReceiverTypes, TypeOK
<1>6. UNCHANGED <<reader, got>>
  BY DEF Block, Timeout, Spurious, Finish, histVars
<1>7. ReceiverTypes'
  BY <1>1, <1>2, <1>4, <1>5, <1>6 DEF ReceiverTypes, TypeOK, Waits, lineVars
<1> QED
  BY <1>2, <1>3, <1>7

LEMMA ReceiverStep == ReceiverInv /\ [Next]_vars => ReceiverInv'
<1> SUFFICES ASSUME ReceiverInv, [Next]_vars PROVE ReceiverInv'
  OBVIOUS
<1>1. CASE UNCHANGED vars
  <2>1. /\ UNCHANGED <<queue, wait, out, todo, driver, buffer, reader, pc, got, faults>>
        /\ UNCHANGED <<n, last, clean, late, missed>>
    BY <1>1 DEF vars, lineVars, histVars
  <2>2. ReceiverTypes'
    BY <2>1 DEF ReceiverInv, ReceiverTypes, TypeOK
  <2>3. NoLostWakeup'
    BY <2>1 DEF ReceiverInv, NoLostWakeup, Asleep, Woken
  <2> QED
    BY <2>1, <2>2, <2>3 DEF ReceiverInv, LineOrder, FrameOrder, Passed, Stream
<1> QED
  BY <1>1, TransmitReceiver, ArriveReceiver, ReadReceiver, GetPacketReceiver, IncompleteReceiver,
     DiscardReceiver, SendFrameReceiver, TakeReceiver, WaitReceiver DEF Next

THEOREM ReceiverInvariant == Spec => []ReceiverInv
<1> QED
  BY InitReceiver, ReceiverStep, PTL DEF Spec

-----------------------------------------------------------------------------
\* The types of the receive path hold throughout; in particular only frames
\* that were sent reach the queue, whatever the line damages.
THEOREM ReceiverTyped == Spec => []TypeOK
<1>1. ReceiverInv => TypeOK
  BY DEF ReceiverInv, ReceiverTypes
<1> QED
  BY <1>1, ReceiverInvariant, PTL

\* A thread never sleeps on a queue that holds a packet nobody was woken for.
THEOREM NeverLosesWakeup == Spec => []NoLostWakeup
<1>1. ReceiverInv => NoLostWakeup
  BY DEF ReceiverInv
<1> QED
  BY <1>1, ReceiverInvariant, PTL

\* Replies reach the waiting thread in the order they were sent, each once.
THEOREM RepliesAlwaysInOrder == Spec => RepliesInOrder
<1>1. ReceiverInv /\ [Next]_vars => [Take => last' > last]_vars
  BY TakeReceiver
<1> QED
  BY <1>1, ReceiverInvariant, PTL DEF Spec, RepliesInOrder

-----------------------------------------------------------------------------
(* What an exchange promises.                                              *)

\* The bytes between the device and PacketBuffer, the oldest first.
Flow == buffer \o driver \o todo

\* The four phases of an exchange that goes well: the request is on its way,
\* the reply is, the packet is in the queue, the packet has been taken.
Asked  == /\ pc = "first" /\ got = 0 /\ queue = <<>> /\ wait[Waiter] \in {"out", "asleep"}
          /\ out = <<n>> /\ Flow = <<>>
Coming == /\ pc = "first" /\ got = 0 /\ queue = <<>> /\ wait[Waiter] \in {"out", "asleep"}
          /\ out = <<>> /\ Flow = Reply(n)
Queued == /\ pc = "first" /\ got = 0 /\ queue = <<n>> /\ wait[Waiter] \in {"out", "woken"}
          /\ out = <<>> /\ Flow = <<>>
Taken  == /\ pc = "more" /\ got = n /\ queue = <<>>
          /\ out = <<>> /\ Flow = <<>>

Good == Asked \/ Coming \/ Queued \/ Taken

\* A caller outside WaitPop does not wait, and a reader in select has looked at
\* all of m_buffer.
Settled ==
  /\ pc = "idle" => wait[Waiter] = "out"
  /\ pc # "idle" => n > 0
  /\ reader = "select" => Partial(buffer)

-----------------------------------------------------------------------------
(***************************************************************************)
(* The one consumer and the bytes of the flow.                             *)
(***************************************************************************)
LEMMA OneWaiter == Consumers = {Waiter}
BY OneConsumer DEF Waiter

\* A packet pushed into an empty queue finds its waiter or wakes it.
LEMMA PushOne ==
  ASSUME wait \in [Consumers -> Waits], queue = <<>>, NEW x, Push(x),
         wait[Waiter] \in {"out", "asleep"}
  PROVE  queue' = <<x>> /\ wait'[Waiter] \in {"out", "woken"}
<1>1. queue' = <<x>>
  BY DEF Push
<1>2. CASE Asleep = {} /\ UNCHANGED wait
  BY <1>1, <1>2, WaiterIn DEF Asleep
<1>3. CASE \E c \in Asleep : wait' = [wait EXCEPT ![c] = "woken"]
  <2>1. \A c \in Asleep : c = Waiter
    BY OneWaiter DEF Asleep
  <2>2. wait' = [wait EXCEPT ![Waiter] = "woken"]
    BY <1>3, <2>1
  <2> QED
    BY <1>1, <2>2, WaiterIn
<1> QED
  BY <1>1, <1>2, <1>3 DEF Push

LEMMA FlowParts ==
  ASSUME ReceiverTypes
  PROVE  /\ Flow \in Seq(GoodByte)
         /\ Len(Flow) = Len(buffer) + Len(driver) + Len(todo)
         /\ Len(buffer) \in Nat /\ Len(driver) \in Nat /\ Len(todo) \in Nat
         /\ \A i \in 1 .. Len(buffer) : Flow[i] = buffer[i]
         /\ Flow = <<>> <=> buffer = <<>> /\ driver = <<>> /\ todo = <<>>
<1> DEFINE u == buffer \o driver
<1>1. buffer \in Seq(GoodByte) /\ driver \in Seq(GoodByte) /\ todo \in Seq(GoodByte)
  BY DEF ReceiverTypes
<1>2. /\ u \in Seq(GoodByte) /\ Len(u) = Len(buffer) + Len(driver)
      /\ \A i \in 1 .. Len(buffer) + Len(driver) :
            u[i] = IF i <= Len(buffer) THEN buffer[i] ELSE driver[i - Len(buffer)]
      /\ u = <<>> <=> buffer = <<>> /\ driver = <<>>
  BY <1>1, ConcatProperties, ConcatEqualIffEmpty
<1>3. Len(buffer) \in Nat /\ Len(driver) \in Nat /\ Len(todo) \in Nat
  BY <1>1, LenProperties
<1> HIDE DEF u
<1>4. /\ u \o todo \in Seq(GoodByte) /\ Len(u \o todo) = Len(u) + Len(todo)
      /\ \A i \in 1 .. Len(u) + Len(todo) :
            (u \o todo)[i] = IF i <= Len(u) THEN u[i] ELSE todo[i - Len(u)]
      /\ u \o todo = <<>> <=> u = <<>> /\ todo = <<>>
  <2>1. u \in Seq(GoodByte)
    BY <1>2
  <2> QED
    BY <1>1, <2>1, ConcatProperties, ConcatEqualIffEmpty
<1>5. Flow = u \o todo
  BY DEF Flow, u
<1>6. \A i \in 1 .. Len(buffer) : Flow[i] = buffer[i]
  BY <1>2, <1>3, <1>4, <1>5
<1> QED
  BY <1>2, <1>3, <1>4, <1>5, <1>6

\* PacketBuffer waits for the first byte.
LEMMA EmptyPartial ==
  Partial(<<>>) /\ ~Valid(<<>>) /\ ~Broken(<<>>)
BY NaturalBounds DEF Partial, Valid, Broken, HeadWrong, Complete

\* An undamaged reply is never discarded, and is a packet once it is whole.
LEMMA WholeReply ==
  ASSUME ReceiverTypes, Flow = Reply(n)
  PROVE  /\ ~Broken(buffer)
         /\ Valid(buffer) <=> Len(buffer) = FrameLen
         /\ Len(buffer) + Len(driver) + Len(todo) = FrameLen
         /\ Len(buffer) >= 3 => buffer[3].frame = n /\ buffer[3].num = FrameLen
<1> USE NaturalBounds
<1>1. Len(Flow) = FrameLen
  BY DEF Reply
<1>2. /\ Len(buffer) \in 0 .. FrameLen
      /\ Len(buffer) + Len(driver) + Len(todo) = FrameLen
  BY <1>1, FlowParts
<1>3. \A i \in 1 .. Len(buffer) : /\ buffer[i].pos = i /\ buffer[i].frame = n
                                  /\ i = 3 => buffer[i].num = FrameLen
  <2> SUFFICES ASSUME NEW i \in 1 .. Len(buffer)
               PROVE  /\ buffer[i].pos = i /\ buffer[i].frame = n
                      /\ i = 3 => buffer[i].num = FrameLen
    OBVIOUS
  <2>1. buffer[i] = Reply(n)[i] /\ i \in 1 .. FrameLen
    BY <1>2, FlowParts
  <2> QED
    BY <2>1 DEF Reply
<1>4. ~HeadWrong(buffer)
  BY <1>2, <1>3 DEF HeadWrong
<1>5. Complete(buffer) <=> Len(buffer) = FrameLen
  BY <1>2, <1>3, LenAssumption DEF Complete
<1>6. Complete(buffer) => SumOk(buffer)
  BY <1>2, <1>3, <1>5 DEF SumOk
<1>7. Len(buffer) >= 3 => buffer[3].frame = n /\ buffer[3].num = FrameLen
  BY <1>2, <1>3
<1> QED
  BY <1>2, <1>4, <1>5, <1>6, <1>7 DEF Valid, Broken

\* The reader thread moves the flow on without changing it.
LEMMA ReadFlow ==
  ASSUME ReceiverTypes, Read
  PROVE  Flow' = Flow
<1>1. buffer \in Seq(GoodByte) /\ driver \in Seq(GoodByte) /\ todo \in Seq(GoodByte)
  BY DEF ReceiverTypes
<1>2. buffer \o driver \in Seq(GoodByte)
  BY <1>1, ConcatProperties
<1>3. (buffer \o driver) \o <<>> = buffer \o driver
  BY <1>2, ConcatEmptySeq
<1> QED
  BY <1>3 DEF Flow, Read

\* So does a byte that arrives whole: the head of a sequence moves to the end
\* of the one before it.
LEMMA Regroup ==
  ASSUME NEW s \in Seq(GoodByte), NEW t \in Seq(GoodByte), NEW u \in Seq(GoodByte), u # <<>>
  PROVE  (s \o Append(t, Head(u))) \o Tail(u) = (s \o t) \o u
<1>1. /\ Head(u) \in GoodByte /\ Head(u) = u[1] /\ Tail(u) \in Seq(GoodByte) /\ Len(u) \in Nat \ {0}
      /\ Len(Tail(u)) = Len(u) - 1
      /\ \A i \in 1 .. Len(u) - 1 : Tail(u)[i] = u[i + 1]
  BY HeadTailProperties, EmptySeq
<1> DEFINE a == Append(t, Head(u))
<1> DEFINE b == s \o a
<1> DEFINE c == s \o t
<1> DEFINE v == Tail(u)
<1>2. /\ a \in Seq(GoodByte) /\ Len(a) = Len(t) + 1 /\ Len(t) \in Nat /\ Len(s) \in Nat
      /\ \A i \in 1 .. Len(t) : a[i] = t[i]
      /\ a[Len(t) + 1] = u[1]
  BY <1>1, AppendProperties, LenProperties
<1>3. v \in Seq(GoodByte) /\ Len(v) = Len(u) - 1 /\ \A i \in 1 .. Len(u) - 1 : v[i] = u[i + 1]
  BY <1>1
<1> HIDE DEF a, v
<1>4. /\ b \in Seq(GoodByte) /\ Len(b) = Len(s) + Len(a)
      /\ \A i \in 1 .. Len(s) + Len(a) : b[i] = IF i <= Len(s) THEN s[i] ELSE a[i - Len(s)]
  BY <1>2, ConcatProperties
<1>5. /\ c \in Seq(GoodByte) /\ Len(c) = Len(s) + Len(t)
      /\ \A i \in 1 .. Len(s) + Len(t) : c[i] = IF i <= Len(s) THEN s[i] ELSE t[i - Len(s)]
  BY ConcatProperties
<1> HIDE DEF b, c
<1>6. /\ b \o v \in Seq(GoodByte) /\ Len(b \o v) = Len(b) + Len(v)
      /\ \A i \in 1 .. Len(b) + Len(v) :
            (b \o v)[i] = IF i <= Len(b) THEN b[i] ELSE v[i - Len(b)]
  <2>1. b \in Seq(GoodByte) /\ v \in Seq(GoodByte)
    BY <1>3, <1>4
  <2> QED
    BY <2>1, ConcatProperties
<1>7. /\ c \o u \in Seq(GoodByte) /\ Len(c \o u) = Len(c) + Len(u)
      /\ \A i \in 1 .. Len(c) + Len(u) :
            (c \o u)[i] = IF i <= Len(c) THEN c[i] ELSE u[i - Len(c)]
  <2>1. c \in Seq(GoodByte)
    BY <1>5
  <2> QED
    BY <2>1, ConcatProperties
<1>8. Len(b \o v) = Len(c \o u)
  BY <1>1, <1>2, <1>3, <1>4, <1>5, <1>6, <1>7
<1>9. ASSUME NEW i \in 1 .. Len(b \o v) PROVE (b \o v)[i] = (c \o u)[i]
  <2>1. CASE i <= Len(s) + Len(t)
    <3>1. (c \o u)[i] = c[i] /\ (b \o v)[i] = b[i]
      BY <1>1, <1>2, <1>3, <1>4, <1>5, <1>6, <1>7, <2>1
    <3>2. i \in 1 .. Len(s) + Len(t) /\ i \in 1 .. Len(s) + Len(a)
      BY <1>2, <1>3, <1>4, <1>6, <2>1
    <3>3. CASE i <= Len(s)
      <4>1. b[i] = s[i] /\ c[i] = s[i]
        BY <1>4, <1>5, <3>2, <3>3
      <4> QED
        BY <3>1, <4>1
    <3>4. CASE ~(i <= Len(s))
      <4>1. b[i] = a[i - Len(s)] /\ c[i] = t[i - Len(s)] /\ i - Len(s) \in 1 .. Len(t)
        BY <1>2, <1>4, <1>5, <3>2, <3>4
      <4> QED
        BY <1>2, <3>1, <4>1
    <3> QED
      BY <3>3, <3>4
  <2>2. CASE i = Len(s) + Len(t) + 1
    <3>1. (c \o u)[i] = u[1] /\ (b \o v)[i] = b[i]
      BY <1>1, <1>2, <1>3, <1>4, <1>5, <1>6, <1>7, <2>2
    <3>2. b[i] = a[Len(t) + 1]
      BY <1>2, <1>4, <2>2
    <3> QED
      BY <1>2, <3>1, <3>2
  <2>3. CASE i > Len(s) + Len(t) + 1
    <3> DEFINE j == i - Len(b)
    <3>1. /\ (c \o u)[i] = u[j + 1] /\ (b \o v)[i] = v[j]
          /\ j \in 1 .. Len(u) - 1
      <4>1. i - Len(c) = j + 1 /\ i \in 1 .. Len(c) + Len(u) /\ ~(i <= Len(c))
        BY <1>1, <1>2, <1>3, <1>4, <1>5, <1>7, <1>8, <2>3
      <4>2. i \in 1 .. Len(b) + Len(v) /\ ~(i <= Len(b)) /\ j \in 1 .. Len(u) - 1
        BY <1>1, <1>2, <1>3, <1>4, <1>6, <2>3
      <4> QED
        BY <1>6, <1>7, <4>1, <4>2
    <3> QED
      BY <1>3, <3>1
  <2>4. Len(b \o v) \in Nat
    BY <1>6, LenProperties
  <2>5. i \in Nat
    BY <2>4
  <2>6. i <= Len(s) + Len(t) \/ i = Len(s) + Len(t) + 1 \/ i > Len(s) + Len(t) + 1
    <3>1. Len(s) \in Nat /\ Len(t) \in Nat
      BY <1>2
    <3> QED
      BY ONLY <2>5, <3>1
  <2> QED
    BY <2>1, <2>2, <2>3, <2>6, Zenon
<1>10. b \o v = c \o u
  BY <1>6, <1>7, <1>8, <1>9, SeqEqual
<1> QED
  BY <1>10 DEF a, b, c, v

LEMMA ArriveFlow ==
  ASSUME ReceiverTypes, todo # <<>>, todo' = Tail(todo), buffer' = buffer,
         driver' = Append(driver, Head(todo))
  PROVE  Flow' = Flow
<1>1. buffer \in Seq(GoodByte) /\ driver \in Seq(GoodByte) /\ todo \in Seq(GoodByte)
  BY DEF ReceiverTypes
<1>2. (buffer \o Append(driver, Head(todo))) \o Tail(todo) = (buffer \o driver) \o todo
  <2>1. \A s, t, u \in Seq(GoodByte) :
          u # <<>> => (s \o Append(t, Head(u))) \o Tail(u) = (s \o t) \o u
    BY Regroup, Zenon
  <2> QED
    BY <1>1, <2>1, Zenon
<1> QED
  BY <1>2 DEF Flow

-----------------------------------------------------------------------------
(***************************************************************************)
(* The undisturbed exchange.                                               *)
(***************************************************************************)
LEMMA SettledStep ==
  ASSUME ReceiverInv, Settled, [Next]_vars
  PROVE  Settled'
<1> USE DEF Settled
<1>0. pc' # "idle" => n' > 0
  <2>1. n \in Nat
    BY NaturalBounds DEF ReceiverInv, ReceiverTypes, TypeOK
  <2>2. pc' # "idle" => n' = n + 1 \/ (n' = n /\ pc # "idle")
    BY DEF Next, vars, Transmit, Arrive, Read, GetPacket, Incomplete, Discard, SendFrame, Take,
           Block, Timeout, Spurious, Finish, histVars
  <2> QED
    BY <2>1, <2>2
<1>1. CASE UNCHANGED vars
  BY <1>0, <1>1 DEF vars, lineVars, Partial, Valid, Broken, HeadWrong, Complete, SumOk
<1>2. CASE Transmit \/ Arrive
  BY <1>0, <1>2 DEF Transmit, Arrive, Partial, Valid, Broken, HeadWrong, Complete, SumOk
<1>3. CASE Read
  BY <1>0, <1>3 DEF Read
<1>4. CASE GetPacket
  <2>1. reader' = "receive" /\ pc' = pc
    BY <1>4 DEF GetPacket
  <2>2. pc = "idle" => wait'[Waiter] = "out"
    <3>1. HAVE pc = "idle"
    <3>2. Waiter \notin Asleep
      BY <3>1 DEF Asleep
    <3>3. Asleep = {}
      BY <3>2, OneWaiter DEF Asleep
    <3> QED
      BY <1>4, <3>1, <3>3 DEF GetPacket, Push
  <2> QED
    BY <1>0, <2>1, <2>2
<1>5. CASE Incomplete
  BY <1>0, <1>5 DEF Incomplete, Partial, Valid, Broken, HeadWrong, Complete, SumOk
<1>6. CASE Discard
  <2>1. buffer' = <<>>
    BY <1>0, <1>6 DEF Discard
  <2>2. Partial(buffer)'
    BY <2>1, EmptyPartial
  <2> QED
    BY <1>0, <1>6, <2>2 DEF Discard
<1>7. CASE SendFrame
  BY <1>0, <1>7 DEF SendFrame, Partial, Valid, Broken, HeadWrong, Complete, SumOk
<1>8. CASE Take \/ Block \/ Timeout \/ Spurious
  <2>1. pc' # "idle" /\ UNCHANGED <<buffer, reader>>
    BY <1>0, <1>8 DEF Take, Block, Timeout, Spurious, Sleep, Expire, WakeUp
  <2> QED
    BY <1>0, <2>1 DEF Partial, Valid, Broken, HeadWrong, Complete, SumOk
<1>9. CASE Finish
  <2>1. wait'[Waiter] = "out"
    BY <1>9, WaiterIn DEF Finish, ReturnFalse, ReceiverInv, ReceiverTypes, TypeOK
  <2> QED
    BY <1>0, <1>9, <2>1 DEF Finish, lineVars, Partial, Valid, Broken, HeadWrong, Complete, SumOk
<1> QED
  BY <1>1, <1>2, <1>3, <1>4, <1>5, <1>6, <1>7, <1>8, <1>9 DEF Next

\* A step that is no fault takes an exchange that goes well to its next phase,
\* and from the last one to its end, with its own reply.
Succeeds ==
  /\ UNCHANGED <<n, late, missed>>
  /\ IF pc' = "idle" THEN got' = n /\ (out = <<>> /\ Flow = <<>>)' ELSE Good'

LEMMA GoodTransmit ==
  ASSUME ReceiverInv, Good, Transmit, faults' = faults
  PROVE  Succeeds
<1>1. Asked
  BY DEF Good, Asked, Coming, Queued, Taken, Transmit
<1>2. todo' = todo \o Reply(Head(out)) /\ Head(out) = n /\ out' = <<>>
  BY <1>1 DEF Transmit, Fault, ReceiverInv, ReceiverTypes, TypeOK, Asked
<1>3. buffer = <<>> /\ driver = <<>> /\ todo = <<>>
  BY <1>1, FlowParts DEF Asked, ReceiverInv
<1>4. n \in 1 .. MaxExchanges
  <2>1. out = <<n>> /\ out \in Seq(1 .. MaxExchanges)
    BY <1>1 DEF Asked, ReceiverInv, ReceiverTypes, TypeOK
  <2> QED
    BY <2>1
<1>5. Reply(n) \in Seq(GoodByte)
  BY <1>4, ReplyItems
<1>6. Flow' = Reply(n)
  <2>1. Flow' = (<<>> \o <<>>) \o (<<>> \o Reply(n))
    BY <1>2, <1>3 DEF Flow, Transmit
  <2> QED
    BY <1>5, <2>1
<1>7. Coming'
  BY <1>1, <1>2, <1>6 DEF Asked, Coming, Transmit, Reply
<1>8. missed' = missed
  BY FaultCounts DEF Transmit, ReceiverInv
<1> QED
  BY <1>1, <1>7, <1>8 DEF Succeeds, Good, Asked, Transmit

LEMMA GoodReader ==
  ASSUME ReceiverInv, Good, Arrive \/ Read \/ Incomplete, faults' = faults
  PROVE  Succeeds
<1>1. Flow' = Flow
  <2>1. CASE Arrive
    BY <2>1, ArriveFlow DEF Arrive, Fault, ReceiverInv, ReceiverTypes, TypeOK
  <2>2. CASE Read
    BY <2>2, ReadFlow DEF ReceiverInv
  <2>3. CASE Incomplete
    BY <2>3 DEF Incomplete, lineVars, Flow
  <2> QED
    BY <2>1, <2>2, <2>3
<1>2. UNCHANGED <<queue, wait, out, pc, got, n, late, missed>>
  BY FaultCounts DEF Arrive, Read, Incomplete, lineVars, histVars, ReceiverInv
<1> QED
  BY <1>1, <1>2 DEF Succeeds, Good, Asked, Coming, Queued, Taken, Reply

LEMMA GoodPacket ==
  ASSUME ReceiverInv, Good, GetPacket
  PROVE  Succeeds
<1>1. buffer # <<>>
  BY EmptyPartial DEF GetPacket
<1>2. Coming
  BY <1>1, FlowParts DEF Good, Asked, Queued, Taken, ReceiverInv
<1>3. /\ Len(buffer) = FrameLen /\ buffer[3].frame = n /\ buffer[3].num = FrameLen
      /\ Len(buffer) + Len(driver) + Len(todo) = FrameLen
  BY <1>2, WholeReply, NaturalBounds DEF GetPacket, ReceiverInv, Coming
<1>4. driver = <<>> /\ todo = <<>>
  <2>1. Len(driver) = 0 /\ Len(todo) = 0
    BY <1>3, FlowParts, NaturalBounds DEF ReceiverInv
  <2> QED
    BY <2>1, EmptySeq DEF ReceiverInv, ReceiverTypes
<1>5. buffer' = <<>>
  BY <1>3, SubSeqEmpty, NaturalBounds DEF GetPacket
<1>6. Flow' = <<>>
  BY <1>4, <1>5 DEF Flow, GetPacket, lineVars
<1>7. queue' = <<n>> /\ wait'[Waiter] \in {"out", "woken"}
  BY <1>2, <1>3, PushOne DEF GetPacket, Coming, ReceiverInv, ReceiverTypes, TypeOK, Waits
<1>8. Queued'
  BY <1>2, <1>6, <1>7 DEF Coming, Queued, GetPacket, lineVars, histVars
<1> QED
  BY <1>2, <1>8 DEF Succeeds, Good, Coming, GetPacket, histVars

LEMMA GoodWait ==
  ASSUME ReceiverInv, Settled, Good, Take \/ Block \/ Timeout \/ Spurious \/ Finish,
         faults' = faults
  PROVE  Succeeds
<1>1. wait \in [Consumers -> Waits] /\ Waiter \in Consumers /\ faults \in Nat
  BY WaiterIn, NaturalBounds DEF ReceiverInv, ReceiverTypes, TypeOK, Waits
<1>2. Flow' = Flow /\ out' = out
  BY DEF Flow, Take, Block, Timeout, Spurious, Finish, lineVars
<1>3. UNCHANGED <<n, late>>
  BY <1>1 DEF Take, Block, Timeout, Spurious, Finish, histVars, Fault
<1>4. CASE Take
  <2>1. Queued
    BY <1>4 DEF Take, PopFront, Good, Asked, Coming, Queued, Taken
  <2>2. got' = n /\ queue' = <<>> /\ pc' = "more"
    BY <1>4, <2>1 DEF Take, PopFront, Queued
  <2>3. Taken'
    BY <1>2, <1>3, <2>1, <2>2 DEF Queued, Taken
  <2> QED
    BY <1>3, <1>4, <2>2, <2>3 DEF Succeeds, Good, Take
<1>5. CASE Block
  <2>1. queue' = queue /\ wait'[Waiter] = "asleep" /\ queue = <<>>
    BY <1>1, <1>5 DEF Block, Sleep
  <2> QED
    BY <1>2, <1>3, <1>5, <2>1
    DEF Succeeds, Good, Block, histVars, Asked, Coming, Queued, Taken, Reply
<1>6. CASE Timeout \/ Spurious
  <2>1. queue' = queue /\ wait[Waiter] = "asleep" /\ pc' = pc /\ got' = got /\ missed' = missed
    BY <1>6, FaultCounts DEF Timeout, Spurious, Expire, WakeUp, ReceiverInv
  <2>2. pc = "more" \/ Quiet
    BY <1>1, <1>6 DEF Timeout, Spurious, Fault
  <2>3. ~(Coming /\ Quiet)
    <3>1. SUFFICES ASSUME Coming, Quiet PROVE FALSE
      OBVIOUS
    <3>2. Len(driver) = 0 /\ Len(todo) = 0 /\ Partial(buffer)
      BY <3>1 DEF Quiet, Settled
    <3>3. Len(buffer) = FrameLen
      BY <3>1, <3>2, WholeReply, FlowParts DEF Coming, ReceiverInv
    <3> QED
      BY <3>1, <3>2, <3>3, WholeReply DEF Coming, ReceiverInv, Partial
  <2>4. Taken
    BY <2>1, <2>2, <2>3 DEF Good, Asked, Coming, Queued, Quiet
  <2> QED
    BY <1>2, <1>3, <2>1, <2>4 DEF Succeeds, Good, Taken
<1>7. CASE Finish
  <2>1. Taken
    BY <1>7 DEF Finish, ReturnFalse, Good, Asked, Coming, Queued
  <2> QED
    BY <1>2, <1>3, <1>7, <2>1 DEF Succeeds, Taken, Finish
<1> QED
  BY <1>4, <1>5, <1>6, <1>7

LEMMA GoodStep ==
  ASSUME ReceiverInv, Settled, Good, Next, faults' = faults
  PROVE  Succeeds
<1>1. ~SendFrame
  BY DEF SendFrame, Good, Asked, Coming, Queued, Taken
<1>2. ~Broken(buffer)
  <2>1. CASE Coming
    BY <2>1, WholeReply DEF Coming, ReceiverInv
  <2>2. CASE buffer = <<>>
    BY <2>2, EmptyPartial
  <2> QED
    BY <2>1, <2>2, FlowParts DEF Good, Asked, Queued, Taken, ReceiverInv
<1>3. ~Discard
  BY <1>2 DEF Discard
<1> QED
  BY <1>1, <1>3, GoodTransmit, GoodReader, GoodPacket, GoodWait DEF Next

\* Between exchanges, with nothing left over, the reader can but go back to select.
LEMMA NothingComes ==
  ASSUME ReceiverInv, Settled, pc = "idle", out = <<>>, Flow = <<>>, Next, ~SendFrame
  PROVE  Incomplete
<1>1. buffer = <<>> /\ driver = <<>> /\ todo = <<>>
  BY FlowParts DEF ReceiverInv
<1>2. ~GetPacket /\ ~Discard
  BY <1>1, EmptyPartial DEF GetPacket, Discard, Partial
<1>3. ~Transmit /\ ~Arrive /\ ~Read
  BY <1>1 DEF Transmit, Arrive, Read
<1>4. ~Take /\ ~Block /\ ~Timeout /\ ~Spurious /\ ~Finish
  BY DEF Settled, Take, Block, Timeout, Spurious, Finish, Expire, WakeUp
<1> QED
  BY <1>2, <1>3, <1>4 DEF Next

\* An exchange stays clean as long as no fault happens, and leaves nothing over.
CleanGoesWell ==
  clean => IF pc = "idle" THEN got = n /\ out = <<>> /\ Flow = <<>> ELSE Good

CleanInv == Settled /\ CleanGoesWell

LEMMA InitSettled == Init => Settled
BY WaiterIn, EmptyPartial DEF Init, QueueInit, Settled

LEMMA CleanStep ==
  ASSUME ReceiverInv, CleanInv, [Next]_vars
  PROVE  CleanInv'
<1> USE DEF CleanInv
<1>1. SUFFICES CleanGoesWell'
  BY SettledStep
<1>2. CASE UNCHANGED vars
  BY <1>2 DEF vars, lineVars, histVars, CleanGoesWell, Good, Asked, Coming, Queued, Taken,
              Flow, Reply
<1>3. CASE SendFrame
  <2> SUFFICES ASSUME clean' PROVE Asked'
    BY <1>3 DEF SendFrame, CleanGoesWell, Good
  <2>1. NothingLeft
    BY <1>3 DEF SendFrame
  <2>2. out' = <<n'>> /\ Flow' = <<>>
    BY <1>3, <2>1 DEF SendFrame, NothingLeft, Flow
  <2> QED
    BY <1>3, <2>2 DEF SendFrame, Clear, Asked, Settled
<1>4. CASE Next /\ ~SendFrame /\ clean'
  <2>1. /\ faults' = faults /\ clean /\ n' = n
    BY <1>4 DEF Next, Transmit, Arrive, Read, GetPacket, Incomplete, Discard, Take, Block,
                Timeout, Spurious, Finish, Fault, histVars
  <2>2. CASE pc # "idle"
    <3>1. Succeeds
      BY <1>4, <2>1, <2>2, GoodStep DEF CleanGoesWell
    <3> QED
      BY <3>1, <2>1 DEF Succeeds, CleanGoesWell
  <2>3. CASE pc = "idle"
    <3>1. got = n /\ out = <<>> /\ Flow = <<>>
      BY <2>1, <2>3 DEF CleanGoesWell
    <3>2. Incomplete
      BY <1>4, <2>3, <3>1, NothingComes
    <3> QED
      BY <2>3, <3>1, <3>2 DEF CleanGoesWell, Incomplete, Flow, lineVars, histVars
  <2> QED
    BY <2>2, <2>3
<1>5. CASE ~clean'
  BY <1>5 DEF CleanGoesWell
<1> QED
  BY <1>2, <1>3, <1>4, <1>5

LEMMA CleanInvariant == Spec => []CleanInv
<1>1. Init => CleanInv
  BY InitSettled DEF Init, CleanInv, CleanGoesWell, Flow
<1>2. ReceiverInv /\ CleanInv /\ [Next]_vars => CleanInv'
  BY CleanStep
<1> QED
  BY <1>1, <1>2, ReceiverInvariant, PTL DEF Spec

\* An exchange that begins with nothing left over and suffers no fault returns
\* its own reply, however its bytes are cut into chunks and its steps fall
\* between those of the waiting thread.
THEOREM CleanExchangesSucceed == Spec => []CleanExchangeSucceeds
<1>1. CleanInv => CleanExchangeSucceeds
  BY DEF CleanInv, CleanGoesWell, CleanExchangeSucceeds
<1> QED
  BY <1>1, CleanInvariant, PTL

-----------------------------------------------------------------------------
(***************************************************************************)
(* What may still be missed.  The credit is what DamageBounded leaves of   *)
(* the exchanges that may be missed after the last fault or cut.  It       *)
(* covers those that what is now in the flow may still spoil: none if the  *)
(* flow is empty; few if it begins with a byte that is no head, since the  *)
(* second byte shows that; and those that fill a wrong length otherwise.   *)
(***************************************************************************)
\* The first byte in the flow is not the head of a frame.
Spoiled == Flow # <<>> /\ Flow[1].pos # 1

\* Bytes in the flow, with those of the reply to a request on its way.
Left == Len(Flow) + (IF out = <<>> THEN 0 ELSE FrameLen)

Affords(k, size, spoiled) ==
  /\ k \in Nat
  /\ \/ size = 0
     \/ spoiled /\ (size >= 2 \/ k >= 1)
     \/ ~spoiled /\ size + k * FrameLen >= MaxLen

LEMMA HoldBackBounds ==
  HoldBack \in Nat /\ HoldBack >= 1 /\ HoldBack * FrameLen >= MaxLen - 1
<1> USE NaturalBounds
<1> DEFINE a == MaxLen + FrameLen - 2
<1>1. /\ a \div FrameLen \in Int /\ a % FrameLen \in 0 .. FrameLen - 1
      /\ a = FrameLen * (a \div FrameLen) + (a % FrameLen)
  OBVIOUS
<1>2. FrameLen * (a \div FrameLen) >= MaxLen - 1
  BY <1>1
<1>3. a \div FrameLen >= 1
  <2> DEFINE h == a \div FrameLen
  <2>1. h \in Int /\ FrameLen * h >= MaxLen - 1
    BY <1>1, <1>2
  <2> HIDE DEF h
  <2>2. h <= 0 => FrameLen * h <= 0
    BY <2>1
  <2> QED
    BY <2>1, <2>2 DEF h
<1>4. (a \div FrameLen) * FrameLen = FrameLen * (a \div FrameLen)
  BY <1>1
<1> QED
  BY <1>1, <1>2, <1>3, <1>4 DEF HoldBack

\* One more exchange is one reply more in the flow.
LEMMA AffordsOneMore ==
  ASSUME NEW k \in Nat, NEW size \in Nat, k >= 1
  PROVE  size + FrameLen + (k - 1) * FrameLen = size + k * FrameLen
BY NaturalBounds

\* After a fault or a cut the credit covers whatever is in the flow.
LEMMA AffordsFault ==
  ASSUME NEW size \in Nat, NEW spoiled \in BOOLEAN
  PROVE  Affords(HoldBack, size, spoiled)
BY NaturalBounds, HoldBackBounds DEF Affords

\* The next exchange fails, and there is credit for it.
LEMMA AffordsSend ==
  ASSUME NEW k \in Nat, NEW size \in Nat, NEW spoiled \in BOOLEAN,
         Affords(k, size, spoiled), size > 0, k >= 1
  PROVE  Affords(k - 1, size + FrameLen, spoiled)
BY NaturalBounds, AffordsOneMore DEF Affords

-----------------------------------------------------------------------------
(***************************************************************************)
(* While no reply comes late, all that an exchange finds on the line is    *)
(* its own, and nothing follows the last byte of its reply.                *)
(***************************************************************************)
End(b, f)     == b.pos = FrameLen /\ b.frame = f
EndLast(s, f) == \A i \in 1 .. Len(s) : End(s[i], f) => i = Len(s)
NoEnd(s, f)   == \A i \in 1 .. Len(s) : ~End(s[i], f)
RestOf(s, f)  == /\ Len(s) <= FrameLen
                 /\ \A i \in 1 .. Len(s) : s[i].pos = FrameLen - Len(s) + i /\ s[i].frame = f
OwnBytes(s, f) == \A i \in 1 .. Len(s) : s[i].pos > 0 => s[i].frame = f

Shape ==
  /\ out = <<>> \/ (out = <<n>> /\ driver = <<>> /\ todo = <<>>)
  /\ out # <<>> \/ Len(todo) = FrameLen => Partial(buffer) /\ driver = <<>>
  /\ RestOf(todo, n) /\ OwnBytes(driver, n)
  /\ Valid(buffer) => buffer[3].frame = n
  /\ EndLast(buffer, n) /\ EndLast(driver, n)
  /\ driver # <<>> \/ todo # <<>> => NoEnd(buffer, n)
  /\ todo # <<>> => NoEnd(driver, n)

LEMMA EmptyShape ==
  ASSUME NEW f
  PROVE  EndLast(<<>>, f) /\ NoEnd(<<>>, f) /\ RestOf(<<>>, f) /\ OwnBytes(<<>>, f)
BY NaturalBounds DEF EndLast, NoEnd, RestOf, OwnBytes

\* Nothing of a frame is in m_buffer before its request has left.
LEMMA BeforeRequest ==
  ASSUME ReceiverInv, NEW f \in Nat, \A b \in Stream : b.pos > 0 => b.frame < f
  PROVE  NoEnd(buffer, f)
<1>1. \A i \in 1 .. Len(buffer) : buffer[i] \in Stream /\ buffer[i] \in GoodByte
  BY ElementOfSeq DEF Stream, Items, ReceiverInv, ReceiverTypes
<1> QED
  BY <1>1, NaturalBounds DEF NoEnd, End, GoodByte, Byte

LEMMA WholeRest ==
  ASSUME NEW f \in 1 .. MaxExchanges
  PROVE  RestOf(Reply(f), f) /\ Len(Reply(f)) = FrameLen
BY NaturalBounds DEF Reply, RestOf

\* A step of the byte h off the line, whole or garbled.
LEMMA ArrivingBytes ==
  ASSUME NEW h \in GoodByte, NEW g, g = <<h>> \/ g \in Garbled(h)
  PROVE  /\ g \in Seq(GoodByte) /\ Len(g) \in 0 .. 2
         /\ \A i \in 1 .. Len(g) : g[i].pos > 0 => g[i] = h /\ i = Len(g)
<1> USE NaturalBounds
<1>1. CASE g = <<h>>
  BY <1>1
<1>2. CASE g = <<>>
  BY <1>2, EmptyItems
<1>3. CASE g = <<Noise, h>>
  <2>1. Len(g) = 2 /\ g[1] = Noise /\ g[2] = h
    BY <1>3
  <2>2. Noise.pos = 0
    BY DEF Noise
  <2>3. g \in Garbled(h)
    BY <1>3 DEF Garbled
  <2> QED
    BY <2>1, <2>2, <2>3, GarbledBytes
<1>4. CASE \E k \in {MinLen, MaxLen} : g = <<[h EXCEPT !.pos = 0, !.num = k]>>
  <2>1. PICK k \in {MinLen, MaxLen} : g = <<[h EXCEPT !.pos = 0, !.num = k]>>
    BY <1>4
  <2>2. Len(g) = 1 /\ g[1].pos = 0
    BY <2>1 DEF GoodByte, Byte
  <2>3. g \in Garbled(h)
    BY <1>4 DEF Garbled
  <2> QED
    BY <2>2, <2>3, GarbledBytes
<1> QED
  BY <1>1, <1>2, <1>3, <1>4 DEF Garbled

\* What comes after bytes that hold no end.
LEMMA ConcatEnd ==
  ASSUME NEW s \in Seq(GoodByte), NEW t \in Seq(GoodByte), NEW f
  PROVE  /\ NoEnd(s, f) /\ EndLast(t, f) => EndLast(s \o t, f)
         /\ NoEnd(s, f) /\ NoEnd(t, f) => NoEnd(s \o t, f)
         /\ OwnBytes(s, f) /\ OwnBytes(t, f) => OwnBytes(s \o t, f)
<1> DEFINE u == s \o t
<1>1. /\ u \in Seq(GoodByte) /\ Len(u) = Len(s) + Len(t)
      /\ \A i \in 1 .. Len(s) + Len(t) : u[i] = IF i <= Len(s) THEN s[i] ELSE t[i - Len(s)]
      /\ Len(s) \in Nat /\ Len(t) \in Nat
  BY ConcatProperties, LenProperties
<1> HIDE DEF u
<1>2. \A i \in 1 .. Len(u) : \/ i \in 1 .. Len(s) /\ u[i] = s[i]
                             \/ i - Len(s) \in 1 .. Len(t) /\ u[i] = t[i - Len(s)]
  BY <1>1
<1>3. NoEnd(s, f) /\ EndLast(t, f) => EndLast(u, f)
  <2> SUFFICES ASSUME NoEnd(s, f), EndLast(t, f), NEW i \in 1 .. Len(u), End(u[i], f)
               PROVE  i = Len(u)
    BY DEF EndLast
  <2>1. i - Len(s) \in 1 .. Len(t) /\ End(t[i - Len(s)], f)
    BY <1>2 DEF NoEnd
  <2>2. i - Len(s) = Len(t)
    BY <2>1 DEF EndLast
  <2>3. i \in Nat
    BY <1>1
  <2> QED
    BY <1>1, <2>2, <2>3
<1>4. NoEnd(s, f) /\ NoEnd(t, f) => NoEnd(u, f)
  BY <1>2 DEF NoEnd
<1>5. OwnBytes(s, f) /\ OwnBytes(t, f) => OwnBytes(u, f)
  BY <1>2 DEF OwnBytes
<1> QED
  BY <1>3, <1>4, <1>5 DEF u

\* The same of the next state.
LEMMA ValidPacketNext ==
  (ReceiverInv /\ Valid(buffer) =>
     /\ FrameLen \in 3 .. Len(buffer) /\ buffer[3].num = FrameLen
     /\ buffer[3].frame = buffer[FrameLen].frame /\ buffer[FrameLen].pos = FrameLen)'
<1>1. ReceiverInv /\ Valid(buffer) =>
        /\ FrameLen \in 3 .. Len(buffer) /\ buffer[3].num = FrameLen
        /\ buffer[3].frame = buffer[FrameLen].frame /\ buffer[FrameLen].pos = FrameLen
  BY ValidPacket
<1> QED
  BY <1>1, PTL

LEMMA ShapeSend ==
  ASSUME ReceiverInv, out = <<>>, driver = <<>>, todo = <<>>, Partial(buffer), SendFrame
  PROVE  Shape'
<1>1. out' = <<n'>> /\ UNCHANGED <<todo, driver, buffer>> /\ n' = n + 1 /\ n \in Nat
  BY NaturalBounds DEF SendFrame, ReceiverInv, ReceiverTypes, TypeOK
<1>2. \A b \in Stream : b.pos > 0 => b.frame < n'
  <2>1. \A b \in Stream : b \in GoodByte
    BY ElementOfSeq DEF Stream, Items, ReceiverInv, ReceiverTypes
  <2>2. \A b \in Stream : b.pos > 0 => b.frame <= n /\ b.frame \in Nat
    BY <2>1, NaturalBounds DEF ReceiverInv, FrameOrder, GoodByte, Byte
  <2> QED
    BY <1>1, <2>2
<1>3. NoEnd(buffer, n')
  BY <1>1, <1>2, BeforeRequest
<1>4. EndLast(buffer, n')
  BY <1>3 DEF NoEnd, EndLast
<1>5. Partial(buffer)' /\ ~Valid(buffer)'
  BY <1>1 DEF Partial, Valid, Broken, HeadWrong, Complete, SumOk
<1> QED
  BY <1>1, <1>3, <1>4, <1>5, EmptyShape DEF Shape

LEMMA ShapeTransmit ==
  ASSUME ReceiverInv, Shape, Transmit
  PROVE  Shape'
<1>1. /\ out = <<n>> /\ driver = <<>> /\ todo = <<>> /\ Partial(buffer) /\ out' = <<>>
      /\ UNCHANGED <<driver, buffer, n>>
  <2>1. out # <<>> /\ out' = Tail(out) /\ UNCHANGED <<driver, buffer, n>>
    BY DEF Transmit
  <2>2. out = <<n>> /\ driver = <<>> /\ todo = <<>> /\ Partial(buffer)
    BY <2>1 DEF Shape
  <2>3. Tail(<<n>>) = <<>>
    OBVIOUS
  <2> QED
    BY <2>1, <2>2, <2>3
<1>2. n \in 1 .. MaxExchanges /\ n \in Items(out)
  <2>1. out = <<n>> /\ out \in Seq(1 .. MaxExchanges)
    BY <1>1 DEF ReceiverInv, ReceiverTypes, TypeOK
  <2> QED
    BY <2>1 DEF Items
<1>3. NoEnd(buffer, n)
  BY <1>2, BeforeRequest DEF ReceiverInv, FrameOrder
<1>4. todo' = Reply(n) \/ todo' = <<>>
  <2>1. Reply(n) \in Seq(GoodByte)
    BY <1>2, ReplyItems
  <2>2. <<>> \o Reply(n) = Reply(n)
    BY <2>1, ConcatEmptySeq
  <2>3. Head(out) = n
    BY <1>1
  <2> QED
    BY <1>1, <2>2, <2>3 DEF Transmit
<1>5. RestOf(todo', n)
  BY <1>2, <1>4, WholeRest, EmptyShape
<1>6. Partial(buffer)' /\ ~Valid(buffer)'
  BY <1>1 DEF Partial, Valid, Broken, HeadWrong, Complete, SumOk
<1> QED
  BY <1>1, <1>3, <1>5, <1>6, EmptyShape DEF Shape

LEMMA ShapeArrive ==
  ASSUME ReceiverInv, Shape, Arrive
  PROVE  Shape'
<1> DEFINE h == Head(todo)
<1>1. /\ todo' = Tail(todo) /\ todo # <<>> /\ out = <<>> /\ UNCHANGED <<out, buffer, n>>
      /\ NoEnd(buffer, n) /\ NoEnd(driver, n)
      /\ Valid(buffer) => buffer[3].frame = n
  BY DEF Shape, Arrive
<1>2. /\ h \in GoodByte /\ h = todo[1] /\ todo' \in Seq(GoodByte) /\ Len(todo) \in Nat \ {0}
      /\ Len(todo') = Len(todo) - 1 /\ \A i \in 1 .. Len(todo') : todo'[i] = todo[i + 1]
  BY <1>1, HeadTailProperties, EmptySeq DEF ReceiverInv, ReceiverTypes
<1>3. h.pos = FrameLen - Len(todo) + 1 /\ h.frame = n /\ Len(todo) <= FrameLen
  BY <1>2 DEF Shape, RestOf
<1>4. RestOf(todo', n) /\ Len(todo') # FrameLen
  <2>1. \A i \in 1 .. Len(todo') : i + 1 \in 1 .. Len(todo) /\ i \in Nat
    BY <1>2
  <2>2. \A i \in 1 .. Len(todo') :
           todo'[i].pos = FrameLen - Len(todo) + (i + 1) /\ todo'[i].frame = n
    BY <1>2, <2>1 DEF Shape, RestOf
  <2> QED
    BY <1>2, <1>3, <2>1, <2>2, NaturalBounds DEF RestOf
<1>5. PICK g : (g = <<h>> \/ g \in Garbled(h)) /\ driver' = driver \o g
  <2>1. CASE driver' = Append(driver, h)
    <3>1. Append(driver, h) = driver \o <<h>>
      BY <1>2, AppendIsConcat DEF ReceiverInv, ReceiverTypes
    <3> QED
      BY <2>1, <3>1
  <2> QED
    BY <2>1 DEF Arrive
<1> HIDE DEF h
<1>6. /\ g \in Seq(GoodByte) /\ Len(g) \in 0 .. 2
      /\ \A i \in 1 .. Len(g) : g[i].pos > 0 => g[i] = h /\ i = Len(g)
  BY <1>2, <1>5, ArrivingBytes
<1>7. OwnBytes(g, n) /\ EndLast(g, n) /\ (todo' # <<>> => NoEnd(g, n))
  <2>1. OwnBytes(g, n)
    BY <1>3, <1>6 DEF OwnBytes
  <2>2. EndLast(g, n)
    BY <1>6, NaturalBounds DEF EndLast, End
  <2>3. todo' # <<>> => NoEnd(g, n)
    <3>1. HAVE todo' # <<>>
    <3>2. Len(todo') > 0
      BY <1>2, <3>1, EmptySeq
    <3>3. h.pos # FrameLen
      BY <1>2, <1>3, <3>2, NaturalBounds
    <3> QED
      BY <1>6, <3>3, NaturalBounds DEF NoEnd, End
  <2> QED
    BY <2>1, <2>2, <2>3
<1>8. /\ OwnBytes(driver', n) /\ EndLast(driver', n)
      /\ todo' # <<>> => NoEnd(driver', n)
  <2>1. driver \in Seq(GoodByte) /\ OwnBytes(driver, n)
    BY DEF Shape, ReceiverInv, ReceiverTypes
  <2> QED
    BY <1>1, <1>5, <1>6, <1>7, <2>1, ConcatEnd
<1>9. EndLast(buffer, n)
  BY <1>1 DEF NoEnd, EndLast
<1>10. Valid(buffer)' = Valid(buffer)
  BY <1>1 DEF Valid, HeadWrong, Complete, SumOk
<1> QED
  BY <1>1, <1>4, <1>8, <1>9, <1>10 DEF Shape

LEMMA ShapeRead ==
  ASSUME ReceiverInv, ReceiverInv', Settled, Shape, Read
  PROVE  Shape'
<1>1. /\ buffer' = buffer \o driver /\ driver' = <<>> /\ driver # <<>>
      /\ UNCHANGED <<out, todo, n>> /\ out = <<>> /\ Len(todo) # FrameLen
      /\ NoEnd(buffer, n) /\ EndLast(driver, n) /\ OwnBytes(driver, n)
      /\ ~Valid(buffer) /\ RestOf(todo, n)
      /\ todo # <<>> => NoEnd(driver, n)
  BY DEF Shape, Read, Settled, Partial, histVars
<1>2. buffer \in Seq(GoodByte) /\ driver \in Seq(GoodByte)
  BY DEF ReceiverInv, ReceiverTypes
<1>3. EndLast(buffer', n) /\ (todo # <<>> => NoEnd(buffer', n))
  BY <1>1, <1>2, ConcatEnd
<1>4. Valid(buffer)' => buffer'[3].frame = n
  <2> SUFFICES ASSUME Valid(buffer)' PROVE buffer'[3].frame = n
    OBVIOUS
  <2>1. /\ FrameLen \in 3 .. Len(buffer') /\ buffer'[3].frame = buffer'[FrameLen].frame
        /\ buffer'[FrameLen].pos = FrameLen
    BY ValidPacketNext
  <2>2. /\ Len(buffer') = Len(buffer) + Len(driver) /\ Len(buffer) \in Nat /\ Len(driver) \in Nat
        /\ \A i \in 1 .. Len(buffer) + Len(driver) :
             buffer'[i] = IF i <= Len(buffer) THEN buffer[i] ELSE driver[i - Len(buffer)]
    BY <1>1, <1>2, ConcatProperties, LenProperties
  <2>3. CASE FrameLen <= Len(buffer)
    <3>1. \A i \in 1 .. FrameLen : buffer'[i] = buffer[i]
      BY <2>2, <2>3, NaturalBounds
    <3>2. buffer'[3].num = FrameLen
      BY ValidPacketNext
    <3>3. Valid(buffer)
      BY <2>3, <3>1, <3>2, <2>2, NaturalBounds, LenAssumption
      DEF Valid, HeadWrong, Complete, SumOk
    <3> QED
      BY <1>1, <3>3
  <2>4. CASE FrameLen > Len(buffer)
    <3> DEFINE j == FrameLen - Len(buffer)
    <3>1. j \in 1 .. Len(driver) /\ buffer'[FrameLen] = driver[j]
      BY <2>1, <2>2, <2>4, NaturalBounds
    <3>2. driver[j].frame = n
      BY <1>1, <2>1, <3>1, NaturalBounds DEF OwnBytes
    <3> QED
      BY <2>1, <3>1, <3>2
  <2> QED
    BY <2>2, <2>3, <2>4, NaturalBounds
<1> QED
  BY <1>1, <1>3, <1>4, EmptyShape DEF Shape

\* The reply is pushed, and nothing is left of it.
LEMMA OwnPacket ==
  ASSUME ReceiverInv, Shape, GetPacket
  PROVE  /\ buffer[3].frame = n /\ buffer' = <<>>
         /\ out = <<>> /\ driver = <<>> /\ todo = <<>>
<1>1. /\ FrameLen \in 3 .. Len(buffer) /\ buffer[3].num = FrameLen /\ buffer[3].frame = n
      /\ buffer[FrameLen].frame = n /\ buffer[FrameLen].pos = FrameLen
  BY ValidPacket DEF GetPacket, Shape
<1>2. End(buffer[FrameLen], n) /\ FrameLen \in 1 .. Len(buffer)
  BY <1>1, NaturalBounds DEF End
<1>3. Len(buffer) = FrameLen
  BY <1>2 DEF Shape, EndLast
<1>4. driver = <<>> /\ todo = <<>>
  BY <1>2 DEF Shape, NoEnd
<1>5. buffer' = <<>>
  BY <1>1, <1>3, SubSeqEmpty, NaturalBounds DEF GetPacket
<1>6. out = <<>>
  BY DEF Shape, GetPacket, Partial
<1> QED
  BY <1>1, <1>4, <1>5, <1>6

LEMMA ShapeStep ==
  ASSUME ReceiverInv, ReceiverInv', Settled, Shape, Next, pc # "idle"
  PROVE  Shape'
<1>1. CASE GetPacket
  <2>1. /\ buffer' = <<>> /\ out' = <<>> /\ driver' = <<>> /\ todo' = <<>>
    BY <1>1, OwnPacket DEF GetPacket, lineVars
  <2>2. Partial(buffer)' /\ ~Valid(buffer)'
    BY <2>1, EmptyPartial
  <2> QED
    BY <2>1, <2>2, EmptyShape DEF Shape
<1>2. CASE Discard
  <2>1. /\ buffer' = <<>> /\ out' = <<>> /\ driver' = <<>> /\ UNCHANGED <<todo, n>>
    BY <1>2 DEF Discard
  <2>2. Partial(buffer)' /\ ~Valid(buffer)'
    BY <2>1, EmptyPartial
  <2> QED
    BY <2>1, <2>2, EmptyShape DEF Shape
<1>3. CASE Incomplete \/ Take \/ Block \/ Timeout \/ Spurious \/ Finish
  <2>1. UNCHANGED <<out, todo, driver, buffer, n>>
    BY <1>3 DEF Incomplete, Take, Block, Timeout, Spurious, Finish, lineVars, histVars
  <2> QED
    BY <2>1 DEF Shape, Partial, Valid, Broken, HeadWrong, Complete, SumOk
<1> QED
  BY <1>1, <1>2, <1>3, ShapeTransmit, ShapeArrive, ShapeRead DEF Next, SendFrame

-----------------------------------------------------------------------------
(***************************************************************************)
(* The account of faults and failures.                                     *)
(***************************************************************************)
\* This exchange will time out; what it leaves behind is paid for.
Failing ==
  /\ pc = "first" /\ got = 0 /\ queue = <<>>
  /\ wait[Waiter] \in {"out", "asleep", "expired"}
  /\ wait[Waiter] = "expired" => Quiet
  /\ Affords(Credit - 1, Left, Spoiled)

Between ==
  /\ out = <<>> /\ driver = <<>> /\ todo = <<>> /\ Partial(buffer)
  /\ Affords(Credit, Left, Spoiled)

Account ==
  IF pc = "idle" THEN Between ELSE Shape /\ ((Good /\ Credit \in Nat) \/ Failing)

AccountInv == Settled /\ (~late => Account)

LEMMA AccountTypes ==
  ReceiverTypes =>
    /\ Credit \in Int /\ Left \in Nat /\ Spoiled \in BOOLEAN
    /\ Len(Flow) = Len(buffer) + Len(driver) + Len(todo)
    /\ Len(buffer) \in Nat /\ Len(driver) \in Nat /\ Len(todo) \in Nat
    /\ \A i \in 1 .. Len(buffer) : Flow[i] = buffer[i]
    /\ Flow = <<>> <=> buffer = <<>> /\ driver = <<>> /\ todo = <<>>
    /\ Flow = <<>> => Len(Flow) = 0
<1> SUFFICES ASSUME ReceiverTypes
             PROVE  /\ Credit \in Int /\ Left \in Nat /\ Spoiled \in BOOLEAN
                    /\ Flow = <<>> => Len(Flow) = 0
  BY FlowParts
<1>1. Len(Flow) \in Nat
  BY FlowParts
<1>2. Credit \in Int
  BY HoldBackBounds, NaturalBounds DEF Credit, ReceiverTypes, TypeOK
<1> QED
  BY <1>1, <1>2, NaturalBounds DEF Left, Spoiled

LEMMA AccountTypesNext == (ReceiverTypes => Len(Flow) = Len(buffer) + Len(driver) + Len(todo)
                             /\ Credit \in Int /\ Left \in Nat /\ Spoiled \in BOOLEAN
                             /\ (Flow = <<>> => buffer = <<>>))'
<1>1. ReceiverTypes => Len(Flow) = Len(buffer) + Len(driver) + Len(todo)
                       /\ Credit \in Int /\ Left \in Nat /\ Spoiled \in BOOLEAN
                       /\ (Flow = <<>> => buffer = <<>>)
  BY AccountTypes
<1> QED
  BY <1>1, PTL

\* The credit after a fault or a cut, and after a missed exchange.
LEMMA CreditSteps ==
  ASSUME ReceiverTypes
  PROVE  /\ missed' = 0 => Credit' = HoldBack + 1
         /\ missed' = missed + 1 => Credit' = Credit - 1
         /\ UNCHANGED missed => Credit' = Credit
<1>1. missed \in Nat /\ HoldBack \in Nat
  BY HoldBackBounds, NaturalBounds DEF ReceiverTypes, TypeOK
<1> QED
  BY <1>1, HoldBackBounds DEF Credit

LEMMA AccountSend ==
  ASSUME ReceiverInv, ReceiverInv', Settled, pc = "idle", Between, SendFrame
  PROVE  (Asked' /\ Credit' \in Nat) \/ Failing'
<1> USE DEF ReceiverInv
<1>1. /\ out' = <<n'>> /\ UNCHANGED <<todo, driver, buffer, reader, wait, missed>>
      /\ queue' = <<>> /\ pc' = "first" /\ got' = 0
  BY DEF SendFrame, Between, Clear
<1>2. wait'[Waiter] = "out"
  BY <1>1 DEF Settled
<1>3. Flow' = Flow /\ Credit' = Credit /\ Credit \in Nat
  BY <1>1, CreditSteps DEF Flow, Between, Affords
<1>4. CASE Flow = <<>>
  BY <1>1, <1>2, <1>3, <1>4 DEF Asked
<1>5. CASE Flow # <<>>
  <2>1. /\ Left = Len(Flow) /\ Len(Flow) = Len(buffer) /\ Len(buffer) \in Nat \ {0}
        /\ Flow[1] = buffer[1]
    <3>1. driver = <<>> /\ todo = <<>> /\ out = <<>> /\ buffer # <<>>
      BY <1>5, AccountTypes DEF Between
    <3>2. Len(buffer) \in Nat \ {0}
      BY <3>1, EmptySeq DEF ReceiverTypes
    <3> QED
      BY <3>1, <3>2, AccountTypes, EmptySeq DEF Left
  <2>2. Left' = Left + FrameLen /\ Spoiled' = Spoiled
    BY <1>1, <1>3, <2>1 DEF Left, Spoiled
  <2>3. Credit >= 1
    <3>1. SUFFICES ASSUME Credit = 0 PROVE FALSE
      BY <1>3
    <3>2. CASE Spoiled
      <4>1. Len(buffer) >= 2 /\ buffer[1].pos # 1
        BY <2>1, <3>1, <3>2 DEF Between, Affords, Spoiled
      <4> QED
        BY <4>1 DEF Between, Partial, Broken, HeadWrong
    <3>3. CASE ~Spoiled
      <4>1. Len(buffer) >= MaxLen
        BY <2>1, <3>1, <3>3, NaturalBounds DEF Between, Affords
      <4>2. buffer[3] \in Byte
        <5>1. buffer \in Seq(Byte)
          BY DEF ReceiverTypes, TypeOK
        <5>2. 3 \in 1 .. Len(buffer)
          BY <2>1, <4>1, NaturalBounds
        <5> QED
          BY <5>1, <5>2, ElementOfSeq
      <4>3. Complete(buffer)
        BY <2>1, <4>1, <4>2, NaturalBounds, LenAssumption DEF Complete, Byte
      <4> QED
        BY <4>3 DEF Between, Partial, Broken, Valid
    <3> QED
      BY <3>2, <3>3
  <2>4. Affords(Credit - 1, Left + FrameLen, Spoiled)
    BY <1>3, <2>1, <2>3, AffordsSend, AccountTypes DEF Between
  <2> QED
    BY <1>1, <1>2, <1>3, <2>2, <2>4 DEF Failing
<1> QED
  BY <1>4, <1>5

\* A fault on the line: the reply may be lost, and the credit starts anew.
LEMMA AccountFault ==
  ASSUME ReceiverInv, ReceiverInv', Good \/ Failing,
         Transmit \/ Arrive, faults' # faults
  PROVE  Failing'
<1> USE DEF ReceiverInv
<1>1. UNCHANGED <<queue, wait, buffer, reader, pc, got>> /\ missed' = 0
  BY DEF Transmit, Arrive, Fault
<1>2. Credit' = HoldBack + 1
  BY <1>1, CreditSteps
<1>3. /\ pc = "first" /\ got = 0 /\ queue = <<>> /\ wait[Waiter] \in {"out", "asleep"}
  <2>1. CASE Failing
    BY <2>1 DEF Failing, Quiet, Transmit, Arrive
  <2>2. CASE Good
    BY <2>2, AccountTypes DEF Good, Asked, Coming, Queued, Taken, Transmit, Arrive
  <2> QED
    BY <2>1, <2>2
<1>4. Affords(Credit' - 1, Left', Spoiled')
  <2>1. Left' \in Nat /\ Spoiled' \in BOOLEAN
    BY AccountTypesNext
  <2>2. Credit' - 1 = HoldBack
    BY <1>2, HoldBackBounds
  <2> QED
    BY <2>1, <2>2, AffordsFault
<1> QED
  BY <1>1, <1>3, <1>4 DEF Failing

\* Without a fault the flow is only moved.
LEMMA AccountLine ==
  ASSUME ReceiverInv, Shape, Failing, Transmit \/ Arrive \/ Read \/ Incomplete,
         faults' = faults
  PROVE  Failing'
<1> USE DEF ReceiverInv
<1>1. UNCHANGED <<queue, wait, pc, got, missed>>
  BY FaultCounts DEF Transmit, Arrive, Read, Incomplete, histVars
<1>2. wait[Waiter] \in {"out", "asleep"}
  BY DEF Failing, Quiet, Transmit, Arrive, Read, Incomplete
<1>3. Credit' = Credit
  BY <1>1, CreditSteps
<1>4. Left' = Left /\ Spoiled' = Spoiled
  <2>1. CASE Transmit
    <3>1. /\ out # <<>> /\ out' = Tail(out) /\ todo' = todo \o Reply(Head(out))
          /\ UNCHANGED <<driver, buffer>>
      BY <2>1 DEF Transmit, Fault, ReceiverTypes, TypeOK
    <3>2. out = <<n>> /\ driver = <<>> /\ todo = <<>>
      BY <3>1 DEF Shape
    <3>3. n \in 1 .. MaxExchanges
      <4>1. out \in Seq(1 .. MaxExchanges)
        BY DEF ReceiverTypes, TypeOK
      <4> QED
        BY <3>2, <4>1
    <3>4. Reply(n) \in Seq(GoodByte) /\ Len(Reply(n)) = FrameLen
      BY <3>3, ReplyItems, WholeRest
    <3>5. out' = <<>> /\ todo' = Reply(n)
      <4>1. Tail(<<n>>) = <<>> /\ Head(<<n>>) = n
        OBVIOUS
      <4>2. <<>> \o Reply(n) = Reply(n)
        BY <3>4, ConcatEmptySeq
      <4> QED
        BY <3>1, <3>2, <4>1, <4>2
    <3>6. buffer \in Seq(GoodByte)
      BY DEF ReceiverTypes
    <3>7. buffer \o <<>> = buffer
      BY <3>6, ConcatEmptySeq
    <3>8. Flow = buffer
      BY <3>2, <3>7 DEF Flow
    <3>9. Flow' = buffer \o Reply(n)
      BY <3>1, <3>2, <3>5, <3>7 DEF Flow
    <3> DEFINE r == Reply(n)
    <3>10. r \in Seq(GoodByte) /\ Len(r) = FrameLen /\ r[1].pos = 1
      BY <3>4, NaturalBounds DEF Reply
    <3> HIDE DEF r
    <3>11. /\ Len(buffer \o r) = Len(buffer) + FrameLen /\ Len(buffer) \in Nat
           /\ \A i \in 1 .. Len(buffer) + FrameLen :
                (buffer \o r)[i] = IF i <= Len(buffer) THEN buffer[i] ELSE r[i - Len(buffer)]
      BY <3>6, <3>10, ConcatProperties, LenProperties
    <3>12. Left' = Left
      BY <3>2, <3>5, <3>8, <3>9, <3>11 DEF Left, r
    <3>13. Flow' # <<>>
      BY <3>9, <3>11, NaturalBounds DEF r
    <3>14. CASE buffer = <<>>
      <4>1. Flow'[1] = r[1]
        BY <3>9, <3>11, <3>14, NaturalBounds DEF r
      <4>2. ~Spoiled
        BY <3>8, <3>14 DEF Spoiled
      <4>3. ~Spoiled'
        BY <3>10, <4>1 DEF Spoiled
      <4> QED
        BY <3>12, <4>2, <4>3 DEF Spoiled
    <3>15. CASE buffer # <<>>
      <4>1. 1 <= Len(buffer)
        BY <3>6, <3>15, EmptySeq
      <4>2. Flow'[1] = buffer[1]
        BY <3>9, <3>11, <4>1, NaturalBounds DEF r
      <4>3. Spoiled <=> buffer[1].pos # 1
        BY <3>8, <3>15 DEF Spoiled
      <4>4. Spoiled' <=> buffer[1].pos # 1
        BY <3>13, <4>2 DEF Spoiled
      <4> QED
        BY <3>12, <4>3, <4>4 DEF Spoiled
    <3> QED
      BY <3>12, <3>14, <3>15
  <2>2. CASE Arrive
    <3>1. Flow' = Flow /\ out' = out
      BY <2>2, ArriveFlow DEF Arrive, Fault, ReceiverTypes, TypeOK
    <3> QED
      BY <3>1 DEF Left, Spoiled
  <2>3. CASE Read
    <3>1. Flow' = Flow /\ out' = out
      BY <2>3, ReadFlow DEF Read
    <3> QED
      BY <3>1 DEF Left, Spoiled
  <2>4. CASE Incomplete
    <3>1. Flow' = Flow /\ out' = out
      BY <2>4 DEF Incomplete, lineVars, Flow
    <3> QED
      BY <3>1 DEF Left, Spoiled
  <2> QED
    BY <2>1, <2>2, <2>3, <2>4
<1> QED
  BY <1>1, <1>2, <1>3, <1>4 DEF Failing

\* The reply comes through all the same.
LEMMA AccountPacket ==
  ASSUME ReceiverInv, Shape, Failing, GetPacket
  PROVE  Queued' /\ Credit' \in Nat
<1> USE DEF ReceiverInv
<1>1. /\ buffer[3].frame = n /\ buffer' = <<>>
      /\ out' = <<>> /\ driver' = <<>> /\ todo' = <<>>
  BY OwnPacket DEF GetPacket, lineVars
<1>2. Flow' = <<>>
  BY <1>1 DEF Flow
<1>3. wait[Waiter] \in {"out", "asleep"}
  BY DEF Failing, Quiet, GetPacket
<1>4. queue' = <<n>> /\ wait'[Waiter] \in {"out", "woken"}
  BY <1>1, <1>3, PushOne DEF GetPacket, Failing, ReceiverTypes, TypeOK, Waits
<1>5. Credit' = Credit
  BY CreditSteps DEF GetPacket, histVars
<1>6. Credit \in Nat
  BY AccountTypes DEF Failing, Affords
<1> QED
  BY <1>1, <1>2, <1>4, <1>5, <1>6 DEF Queued, Failing, GetPacket, histVars

\* Discarding ends what the faults left behind, unless it cuts the reply.
LEMMA AccountDiscard ==
  ASSUME ReceiverInv, ReceiverInv', Shape, Failing, Discard
  PROVE  Failing'
<1> USE DEF ReceiverInv
<1>1. /\ buffer' = <<>> /\ driver' = <<>> /\ out' = <<>> /\ todo' = todo
      /\ UNCHANGED <<queue, wait, pc, got>>
  BY DEF Discard
<1>2. wait[Waiter] \in {"out", "asleep"}
  BY DEF Failing, Quiet, Discard
<1>3. todo \in Seq(GoodByte)
  BY DEF ReceiverTypes
<1>4. Flow' = todo
  BY <1>1, <1>3, ConcatEmptySeq DEF Flow
<1>5. Credit - 1 \in Nat /\ Credit \in Int
  BY AccountTypes DEF Failing, Affords
<1>6. Affords(Credit' - 1, Left', Spoiled')
  <2>1. CASE todo = <<>>
    <3>1. Left' = 0
      BY <1>1, <1>4, <2>1 DEF Left
    <3>2. Credit' = Credit
      BY <1>1, <2>1, CreditSteps DEF Discard
    <3> QED
      BY <1>5, <3>1, <3>2 DEF Affords
  <2>2. CASE todo # <<>>
    <3>1. Credit' - 1 = HoldBack
      BY <1>1, <2>2, CreditSteps, HoldBackBounds DEF Discard
    <3>2. Left' \in Nat /\ Spoiled' \in BOOLEAN
      BY AccountTypesNext
    <3> QED
      BY <3>1, <3>2, AffordsFault
  <2> QED
    BY <2>1, <2>2
<1> QED
  BY <1>1, <1>2, <1>6 DEF Failing

\* The wait ends when nothing is under way any more.
LEMMA AccountWait ==
  ASSUME ReceiverInv, Settled, Shape, Failing, Block \/ Timeout \/ Spurious \/ Finish, ~late'
  PROVE  IF pc' = "idle" THEN Between' ELSE Failing'
<1> USE DEF ReceiverInv
<1>1. /\ UNCHANGED <<out, todo, driver, buffer, reader, got>>
      /\ wait \in [Consumers -> Waits] /\ Waiter \in Consumers
  BY WaiterIn
  DEF Block, Timeout, Spurious, Finish, lineVars, histVars, ReceiverTypes, TypeOK, Waits
<1>2. Left' = Left /\ Spoiled' = Spoiled /\ Flow' = Flow
  BY <1>1 DEF Left, Spoiled, Flow
<1>3. CASE Block
  <2>1. wait'[Waiter] = "asleep" /\ queue' = queue /\ pc' = pc
    BY <1>1, <1>3 DEF Block, Sleep
  <2>2. Credit' = Credit
    BY <1>3, CreditSteps DEF Block, histVars
  <2> QED
    BY <1>1, <1>2, <2>1, <2>2 DEF Failing
<1>4. CASE Timeout
  <2>1. /\ Quiet /\ UNCHANGED <<missed, pc>>
        /\ wait'[Waiter] = "expired" /\ queue' = queue
    BY <1>1, <1>4 DEF Timeout, Expire, Failing
  <2>2. Credit' = Credit
    BY <2>1, CreditSteps
  <2>3. Quiet'
    BY <1>1, <2>1 DEF Quiet
  <2> QED
    BY <1>1, <1>2, <2>1, <2>2, <2>3 DEF Failing
<1>5. CASE Spurious
  BY <1>5 DEF Spurious, Failing
<1>6. CASE Finish
  <2>1. wait[Waiter] = "expired"
    BY <1>6 DEF Finish, ReturnFalse, Failing
  <2>2. out = <<>> /\ driver = <<>> /\ todo = <<>> /\ Partial(buffer)
    BY <2>1 DEF Failing, Quiet, Settled
  <2>3. got # n
    <3>1. n # 0
      BY DEF Failing, Settled
    <3> QED
      BY <3>1 DEF Failing
  <2>4. missed' = missed + 1 /\ pc' = "idle"
    BY <1>6, <2>3 DEF Finish
  <2>5. Credit' = Credit - 1
    BY <2>4, CreditSteps
  <2>6. Between'
    BY <1>1, <1>2, <2>2, <2>5
    DEF Between, Failing, Partial, Valid, Broken, HeadWrong, Complete, SumOk
  <2> QED
    BY <2>4, <2>6
<1> QED
  BY <1>3, <1>4, <1>5, <1>6

LEMMA AccountStep ==
  ASSUME ReceiverInv, ReceiverInv', AccountInv, [Next]_vars
  PROVE  AccountInv'
<1> USE DEF AccountInv
<1>1. SUFFICES ASSUME ~late' PROVE Account'
  BY SettledStep
<1>2. ~late
  <2>1. late' = late \/ late' = TRUE
    BY DEF Next, vars, Transmit, Arrive, Read, GetPacket, Incomplete, Discard, SendFrame, Take,
           Block, Timeout, Spurious, Finish, histVars
  <2> QED
    BY <1>1, <2>1, Zenon
<1>3. Account
  BY <1>2
<1>4. CASE UNCHANGED vars
  BY <1>3, <1>4
  DEF vars, lineVars, histVars, Account, Between, Shape, Good, Failing, Asked, Coming, Queued,
      Taken, Flow, Reply, Credit, Left, Spoiled, Quiet, Partial, Valid, Broken, HeadWrong,
      Complete, SumOk
<1>5. CASE pc = "idle" /\ Next
  <2>1. Between /\ wait[Waiter] = "out"
    BY <1>3, <1>5 DEF Account, Settled
  <2>2. SendFrame \/ Incomplete
    BY <1>5, <2>1
    DEF Next, Between, Transmit, Arrive, Read, GetPacket, Discard, Take, Block, Timeout,
        Spurious, Finish, Expire, WakeUp, ReturnFalse, Partial
  <2>3. CASE SendFrame
    <3>1. pc' # "idle"
      BY <2>3 DEF SendFrame
    <3>2. Shape'
      BY <2>1, <2>3, ShapeSend DEF Between
    <3>3. (Asked' /\ Credit' \in Nat) \/ Failing'
      BY <1>5, <2>1, <2>3, AccountSend
    <3> QED
      BY <3>1, <3>2, <3>3 DEF Account, Good
  <2>4. CASE Incomplete
    BY <1>5, <2>1, <2>4
    DEF Incomplete, lineVars, histVars, Account, Between, Flow, Credit, Left, Spoiled, Partial,
        Valid, Broken, HeadWrong, Complete, SumOk
  <2> QED
    BY <2>2, <2>3, <2>4
<1>6. CASE pc # "idle" /\ Next
  <2>1. Shape /\ ((Good /\ Credit \in Nat) \/ Failing)
    BY <1>3, <1>6 DEF Account
  <2>2. Shape'
    BY <1>6, <2>1, ShapeStep
  <2>3. CASE faults' # faults
    <3>1. Transmit \/ Arrive
      BY <1>1, <1>6, <2>3
      DEF Next, Read, GetPacket, Incomplete, Discard, SendFrame, Take, Block, Timeout, Spurious,
          Finish, histVars
    <3>2. Failing'
      BY <2>1, <2>3, <3>1, AccountFault
    <3>3. pc' # "idle"
      BY <3>2 DEF Failing
    <3> QED
      BY <2>2, <3>2, <3>3 DEF Account
  <2>4. CASE Good /\ Credit \in Nat /\ faults' = faults
    <3>1. Succeeds
      BY <1>6, <2>4, GoodStep
    <3>2. Credit' = Credit
      BY <2>4, <3>1, CreditSteps DEF Succeeds, ReceiverInv
    <3>3. CASE pc' = "idle"
      <4>1. out' = <<>> /\ Flow' = <<>>
        BY <3>1, <3>3 DEF Succeeds
      <4>2. Left' = 0
        BY <4>1 DEF Left
      <4>3. buffer' = <<>> /\ driver' = <<>> /\ todo' = <<>>
        BY <4>1, AccountTypesNext DEF ReceiverInv
      <4>4. Partial(buffer)'
        BY <4>3, EmptyPartial
      <4> QED
        BY <2>4, <3>2, <3>3, <4>1, <4>2, <4>3, <4>4 DEF Account, Between, Affords
    <3>4. CASE pc' # "idle"
      BY <2>2, <2>4, <3>1, <3>2, <3>4 DEF Account, Succeeds
    <3> QED
      BY <3>3, <3>4
  <2>5. CASE Failing /\ faults' = faults
    <3>1. CASE Transmit \/ Arrive \/ Read \/ Incomplete
      <4>1. Failing'
        BY <2>1, <2>5, <3>1, AccountLine
      <4> QED
        BY <2>2, <4>1 DEF Account, Failing
    <3>2. CASE GetPacket
      <4>1. Queued' /\ Credit' \in Nat
        BY <2>1, <2>5, <3>2, AccountPacket
      <4> QED
        BY <2>2, <4>1 DEF Account, Good, Queued
    <3>3. CASE Discard
      <4>1. Failing'
        BY <2>1, <2>5, <3>3, AccountDiscard
      <4> QED
        BY <2>2, <4>1 DEF Account, Failing
    <3>4. CASE Block \/ Timeout \/ Spurious \/ Finish
      <4>1. IF pc' = "idle" THEN Between' ELSE Failing'
        BY <1>1, <2>1, <2>5, <3>4, AccountWait
      <4> QED
        BY <2>2, <4>1 DEF Account
    <3>5. ~Take /\ ~SendFrame
      BY <1>6, <2>5 DEF Take, PopFront, SendFrame, Failing
    <3> QED
      BY <1>6, <3>1, <3>2, <3>3, <3>4, <3>5 DEF Next
  <2> QED
    BY <2>1, <2>3, <2>4, <2>5
<1> QED
  BY <1>4, <1>5, <1>6

LEMMA AccountInvariant == Spec => []AccountInv
<1>1. Init => AccountInv
  <2> SUFFICES ASSUME Init PROVE Settled /\ Account
    BY DEF AccountInv
  <2>1. /\ out = <<>> /\ todo = <<>> /\ driver = <<>> /\ buffer = <<>> /\ pc = "idle"
        /\ missed = 0
    BY DEF Init
  <2>2. Credit \in Nat
    BY <2>1, HoldBackBounds DEF Credit
  <2>3. Left = 0
    <3>1. Flow = <<>>
      BY <2>1 DEF Flow
    <3> QED
      BY <2>1, <3>1 DEF Left
  <2> QED
    BY <2>1, <2>2, <2>3, InitSettled, EmptyPartial DEF Account, Between, Affords
<1>2. ReceiverInv /\ ReceiverInv' /\ AccountInv /\ [Next]_vars => AccountInv'
  BY AccountStep
<1> QED
  BY <1>1, <1>2, ReceiverInvariant, PTL DEF Spec

\* The receive path recovers: after the last fault, and the last discard that cut
\* a reply in two, no more than HoldBack + 1 exchanges are missed.
THEOREM DamageAlwaysBounded == Spec => []DamageBounded
<1>1. ReceiverInv /\ AccountInv => DamageBounded
  <2> SUFFICES ASSUME ReceiverInv, AccountInv, ~late
               PROVE  missed <= HoldBack + 1
    BY DEF DamageBounded
  <2>1. Credit \in Int
    BY AccountTypes DEF ReceiverInv
  <2>2. Credit >= 0
    BY <2>1 DEF AccountInv, Account, Between, Failing, Affords
  <2>3. missed \in Nat /\ HoldBack \in Nat
    BY HoldBackBounds DEF ReceiverInv, ReceiverTypes, TypeOK
  <2> QED
    BY <2>2, <2>3 DEF Credit
<1> QED
  BY <1>1, ReceiverInvariant, AccountInvariant, PTL

-----------------------------------------------------------------------------
(***************************************************************************)
(* Receiver implements Exchange: sending is Begin, taking a packet is      *)
(* Deliver, the end of the exchange is Answered or Missed, a fault is      *)
(* Fault, and a discard that hits a frame before its last byte is Cut.     *)
(* All else is between the line and the queue, which Exchange knows        *)
(* nothing of.                                                             *)
(***************************************************************************)
Callers == <<n, pc, got, last>>

LEMMA RefinedInit == Init => Promise!Init
<1> SUFFICES ASSUME Init PROVE Promise!Init
  OBVIOUS
<1>1. missed = 0 /\ late = FALSE
  BY DEF Init
<1>2. Balance = HoldBack + 1
  BY <1>1, HoldBackBounds DEF Balance, Credit
<1> QED
  BY <1>2 DEF Init, Promise!Init

LEMMA BalanceKept ==
  ASSUME ReceiverTypes, UNCHANGED <<missed, late>>
  PROVE  Balance' = Balance
BY CreditSteps DEF Balance

LEMMA SendRefined ==
  ASSUME ReceiverInv, CleanInv, SendFrame
  PROVE  Promise!Begin
<1>1. clean' \in {TRUE, clean}
  <2>1. clean' = NothingLeft /\ clean \in BOOLEAN
    BY DEF SendFrame, ReceiverInv, ReceiverTypes, TypeOK
  <2>2. clean => NothingLeft
    BY FlowParts DEF SendFrame, NothingLeft, CleanInv, CleanGoesWell, ReceiverInv
  <2>3. NothingLeft \in BOOLEAN
    BY DEF NothingLeft
  <2> QED
    BY <2>1, <2>2, <2>3
<1>2. Balance' = Balance
  BY BalanceKept DEF SendFrame, ReceiverInv
<1> QED
  BY <1>1, <1>2 DEF SendFrame, Promise!Begin

\* A caller that nothing disturbs finds its own reply in the queue, and only that.
LEMMA TakeRefined ==
  ASSUME ReceiverInv, ReceiverInv', CleanInv, Take
  PROVE  Promise!Deliver
<1>1. got' = last' /\ got' \in (last + 1) .. n
  <2>1. last' > last /\ n' = n /\ got' = last'
    BY TakeReceiver DEF Take
  <2>2. last' <= n'
    BY DEF ReceiverInv, FrameOrder, Passed
  <2>3. last \in Nat /\ n \in Nat /\ last' \in Nat
    BY NaturalBounds DEF ReceiverInv, ReceiverTypes, TypeOK
  <2> QED
    BY <2>1, <2>2, <2>3
<1>2. clean => got' = n
  BY DEF Take, PopFront, CleanInv, CleanGoesWell, Good, Asked, Coming, Queued, Taken
<1>3. Balance' = Balance
  BY BalanceKept DEF Take, lineVars, ReceiverInv
<1> QED
  BY <1>1, <1>2, <1>3 DEF Take, Promise!Deliver

LEMMA FinishRefined ==
  ASSUME ReceiverInv, CleanInv', DamageBounded', Finish
  PROVE  Promise!Answered \/ Promise!Missed
<1>1. /\ pc # "idle" /\ pc' = "idle" /\ UNCHANGED <<n, got, last, clean, late>>
      /\ missed' = IF got = n THEN missed ELSE missed + 1
  BY DEF Finish
<1>2. CASE got = n
  BY <1>1, <1>2, BalanceKept DEF Promise!Answered, ReceiverInv
<1>3. CASE got # n
  <2>1. ~clean
    BY <1>1, <1>3 DEF CleanInv, CleanGoesWell
  <2>2. CASE late
    BY <1>1, <1>3, <2>1, <2>2 DEF Promise!Missed, Balance
  <2>3. CASE ~late
    <3>1. Credit' = Credit - 1 /\ Credit \in Int
      BY <1>1, <1>3, CreditSteps, AccountTypes DEF ReceiverInv
    <3>2. missed' <= HoldBack + 1
      <4>1. (~late => missed <= HoldBack + 1)'
        BY DEF DamageBounded
      <4> QED
        BY <1>1, <2>3, <4>1
    <3>3. missed \in Nat /\ HoldBack \in Nat
      BY HoldBackBounds DEF ReceiverInv, ReceiverTypes, TypeOK
    <3>4. missed + 1 <= HoldBack + 1
      BY <1>1, <1>3, <3>2
    <3>5. Credit > 0
      BY <3>3, <3>4 DEF Credit
    <3> QED
      BY <1>1, <1>3, <2>1, <2>3, <3>1, <3>5 DEF Promise!Missed, Balance
  <2> QED
    BY <2>2, <2>3
<1> QED
  BY <1>2, <1>3

\* Whatever goes wrong on the line or while waiting is one fault.
LEMMA FaultRefined ==
  ASSUME ReceiverInv, Fault, UNCHANGED Callers, late' \in {late, TRUE}
  PROVE  Promise!Fault
<1>1. missed' = 0 /\ clean' = FALSE
  BY DEF Fault
<1>2. Credit' = HoldBack + 1
  BY <1>1, CreditSteps DEF ReceiverInv
<1>3. \/ ~late /\ Balance' = HoldBack + 1 /\ UNCHANGED late
      \/ late' = TRUE /\ Balance' = 0
  BY <1>2 DEF Balance
<1> QED
  BY <1>1, <1>3 DEF Promise!Fault, Callers

\* A discard comes after a fault only.
LEMMA DiscardRefined ==
  ASSUME ReceiverInv, CleanInv, Discard
  PROVE  Promise!Cut \/ UNCHANGED Promise!vars
<1>1. UNCHANGED <<n, pc, got, last, clean, late>>
  BY DEF Discard
<1>2. CASE todo = <<>> \/ late
  <2>1. Balance' = Balance
    BY <1>1, <1>2, BalanceKept DEF Balance, Discard, ReceiverInv
  <2> QED
    BY <1>1, <2>1 DEF Promise!vars
<1>3. CASE todo # <<>> /\ ~late
  <2>1. Balance' = HoldBack + 1
    BY <1>1, <1>3, CreditSteps DEF Discard, Balance, ReceiverInv
  <2>2. ~clean
    <3> SUFFICES ASSUME clean PROVE FALSE
      OBVIOUS
    <3>1. Broken(buffer)
      BY DEF Discard
    <3>2. buffer # <<>>
      BY <3>1, EmptyPartial
    <3>3. Flow # <<>>
      BY <3>2, FlowParts DEF ReceiverInv
    <3>4. Coming
      BY <3>3 DEF CleanInv, CleanGoesWell, Good, Asked, Queued, Taken
    <3> QED
      BY <3>1, <3>4, WholeReply DEF Coming, ReceiverInv
  <2> QED
    BY <1>1, <1>3, <2>1, <2>2 DEF Promise!Cut
<1> QED
  BY <1>2, <1>3

LEMMA ExchangeRefinedStep ==
  ASSUME ReceiverInv, ReceiverInv', CleanInv, CleanInv', DamageBounded', [Next]_vars
  PROVE  [Promise!Next]_Promise!vars
<1>1. CASE UNCHANGED <<Callers, clean, late, missed>>
  <2>1. Balance' = Balance
    BY <1>1, BalanceKept DEF ReceiverInv
  <2> QED
    BY <1>1, <2>1 DEF Promise!vars, Callers
<1>2. CASE Transmit \/ Arrive \/ Timeout \/ Spurious
  <2>1. UNCHANGED Callers
    BY <1>2 DEF Transmit, Arrive, Timeout, Spurious, Callers
  <2>2. \/ Fault /\ late' \in {late, TRUE}
        \/ UNCHANGED <<clean, late, missed>>
    BY <1>2 DEF Transmit, Arrive, Timeout, Spurious
  <2>3. CASE Fault /\ late' \in {late, TRUE}
    BY <2>1, <2>3, FaultRefined DEF Promise!Next
  <2>4. CASE UNCHANGED <<clean, late, missed>>
    BY <1>1, <2>1, <2>4
  <2> QED
    BY <2>2, <2>3, <2>4
<1>3. CASE Read \/ GetPacket \/ Incomplete \/ Block \/ UNCHANGED vars
  BY <1>1, <1>3 DEF Read, GetPacket, Incomplete, Block, vars, histVars, Callers
<1>4. CASE SendFrame
  BY <1>4, SendRefined DEF Promise!Next
<1>5. CASE Take
  BY <1>5, TakeRefined DEF Promise!Next
<1>6. CASE Finish
  BY <1>6, FinishRefined DEF Promise!Next
<1>7. CASE Discard
  BY <1>7, DiscardRefined DEF Promise!Next
<1> QED
  BY <1>2, <1>3, <1>4, <1>5, <1>6, <1>7 DEF Next

\* Receiver implements Exchange: for replies of any length, however their bytes
\* and the threads' steps fall, one exchange follows another that has its own
\* reply, or misses it soon after a fault or a cut.
THEOREM ExchangeRefinement == Spec => ExchangeRefined
<1>1. Spec => [](ReceiverInv /\ CleanInv /\ DamageBounded)
  BY ReceiverInvariant, CleanInvariant, DamageAlwaysBounded, PTL
<1>2. QED
  BY <1>1, RefinedInit, ExchangeRefinedStep, PTL DEF Spec, ExchangeRefined, Promise!Spec
=============================================================================
