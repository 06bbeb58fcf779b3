--------------------------- MODULE TransformProofs ---------------------------
(***************************************************************************)
(* Safety of ProtocolMethod::transform for every set of devices, threads   *)
(* and (type,function) pairs, and every number of retries.                 *)
(***************************************************************************)
EXTENDS Transform, TLAPS

(***************************************************************************)
(* Type correctness.                                                       *)
(***************************************************************************)

LEMMA AnyCallType == AnyCall \in Call /\ AnyFrame \in Frame
<1>1. PICK a \in Addrs, f \in Polled : TRUE
  BY AddrAssumption
<1>2. [addr |-> a, fn |-> f, save |-> TRUE, stop |-> TRUE] \in Call
  BY DEF Call, Fns
<1>3. AnyCall \in Call
  BY <1>2 DEF AnyCall
<1>4. QED
  BY <1>3 DEF AnyFrame, Call, Frame, Vals

LEMMA TypeInit == Init => TypeOK
  BY AnyCallType, CountAssumption DEF Init, TypeOK, Vals, NoVal, Keys

LEMMA CopyOfReply ==
  ASSUME NEW r, NEW m \in NextCopy(r)
  PROVE  m.reply = r /\ m.copy \in 0 .. MaxFaults /\ m = [reply |-> r, copy |-> m.copy]
<1>1. PICK k \in 0 .. MaxFaults : m = [reply |-> r, copy |-> k]
  BY DEF NextCopy
<1>2. QED
  BY <1>1

LEMMA TypeTransmit ==
  ASSUME TypeOK, NEW f \in Frame, NEW late \in {0, 1}, Transmit(f, late)
  PROVE  /\ dev' \in [Addrs -> Vals]
         /\ applied' \in [Addrs -> SUBSET Vals]
         /\ air' \in SUBSET OnAir
         /\ faults' \in Nat
<1> DEFINE v == IF f.fn \in Commands THEN f.val ELSE dev[f.addr]
<1>1. /\ v \in Vals
      /\ [f EXCEPT !.val = v] \in Frame
  BY DEF TypeOK, Frame, Vals
<1>2. f.addr \in Addrs
  BY DEF Frame
<1> HIDE DEF v
<1>3. CASE /\ f.addr \notin Absent
           /\ dev' = [dev EXCEPT ![f.addr] = v]
           /\ applied' = [applied EXCEPT ![f.addr] = @ \cup {v}]
           /\ \E m \in NextCopy([f EXCEPT !.val = v]) : air' = air \cup {m}
           /\ faults' = faults + late
  <2>1. dev' \in [Addrs -> Vals]
    BY <1>1, <1>3 DEF TypeOK
  <2>2. applied' \in [Addrs -> SUBSET Vals]
    <3>1. applied[f.addr] \cup {v} \in SUBSET Vals
      BY <1>1, <1>2 DEF TypeOK
    <3>2. QED
      BY <1>3, <3>1 DEF TypeOK
  <2>3. air' \in SUBSET OnAir
    <3>1. PICK m \in NextCopy([f EXCEPT !.val = v]) : air' = air \cup {m}
      BY <1>3
    <3>2. m \in OnAir
      BY <1>1, CopyOfReply DEF OnAir
    <3>3. QED
      BY <3>1, <3>2 DEF TypeOK
  <2>4. faults' \in Nat
    BY <1>3 DEF TypeOK
  <2>5. QED
    BY <2>1, <2>2, <2>3, <2>4
<1>4. CASE LET loss == IF f.addr \in Absent THEN 0 ELSE 1 IN
           /\ faults + late + loss <= MaxFaults
           /\ faults' = faults + late + loss
           /\ UNCHANGED <<dev, applied, air>>
  BY <1>4 DEF TypeOK
<1>5. QED
  BY <1>3, <1>4 DEF Transmit, v

LEMMA TypeLeave ==
  ASSUME TypeOK, NEW t \in Threads, NEW b \in BOOLEAN, LeaveBus(t, b)
  PROVE  /\ pc' \in [Threads -> {"idle", "lookup", "lock", "send", "wait", "update"}]
         /\ ret' \in [Threads -> BOOLEAN]
         /\ resend' \in BOOLEAN
         /\ bus' \in Threads \cup {NoThread}
<1>1. call[t].addr \in Addrs
  BY DEF TypeOK, Call
<1>2. dev[call[t].addr] \in Vals
  BY <1>1 DEF TypeOK
<1>3. saved[t] \in BOOLEAN /\ resend \in BOOLEAN
  BY DEF TypeOK
<1>4. QED
  BY <1>2, <1>3 DEF TypeOK, LeaveBus

LEMMA TypeStep == TypeOK /\ [Next]_vars => TypeOK'
<1> SUFFICES ASSUME TypeOK, [Next]_vars PROVE TypeOK'
  OBVIOUS
<1> USE DEF threadVars, busVars, cacheVars, devVars
<1>1. ASSUME NEW t \in Threads, NEW c \in CallsOf(t), Start(t, c) PROVE TypeOK'
  <2>1. c \in Call
    BY DEF CallsOf
  <2>2. QED
    BY <1>1, <2>1 DEF Start, TypeOK
<1>2. ASSUME NEW t \in Threads, Lookup(t) PROVE TypeOK'
  BY <1>2 DEF Lookup, TypeOK
<1>3. ASSUME NEW t \in Threads, LockBus(t) PROVE TypeOK'
  BY <1>3 DEF LockBus, TypeOK
<1>4. ASSUME NEW t \in Threads, SendFrame(t) PROVE TypeOK'
  <2> DEFINE f == FrameOf(call[t], IF call[t].fn \in Commands THEN cmds + 1 ELSE 0)
  <2>1. f \in Frame
    BY DEF FrameOf, TypeOK, Call, Frame, Vals
  <2> HIDE DEF f
  <2>2. Transmit(f, 0)
    BY <1>4 DEF SendFrame, f
  <2>3. /\ dev' \in [Addrs -> Vals]
        /\ applied' \in [Addrs -> SUBSET Vals]
        /\ air' \in SUBSET OnAir
        /\ faults' \in Nat
    BY <2>1, <2>2, TypeTransmit
  <2>4. packet' \in Frame /\ queue' \in Seq(Frame)
    BY <1>4, <2>1 DEF SendFrame, f
  <2>5. /\ cmds' \in Nat
        /\ sends' \in [Threads -> Nat]
        /\ count' \in [Threads -> 0 .. RESEND_COUNT]
        /\ pc' \in [Threads -> {"idle", "lookup", "lock", "send", "wait", "update"}]
    BY <1>4, CountAssumption DEF SendFrame, TypeOK
  <2>6. UNCHANGED <<call, got, ret, saved, bus, resend, cache, blocked>>
    BY <1>4 DEF SendFrame
  <2>7. /\ call' \in [Threads -> Call] /\ got' \in [Threads -> Frame]
        /\ ret' \in [Threads -> BOOLEAN] /\ saved' \in [Threads -> BOOLEAN]
        /\ bus' \in Threads \cup {NoThread} /\ resend' \in BOOLEAN
        /\ cache' \in [Keys -> Vals \cup {NoVal}] /\ blocked' \in SUBSET Fns
    BY <2>6 DEF TypeOK
  <2>8. QED
    BY <2>3, <2>4, <2>5, <2>7 DEF TypeOK
<1>5. ASSUME NEW t \in Threads, SendFail(t) PROVE TypeOK'
  <2>1. LeaveBus(t, FALSE)
    BY <1>5 DEF SendFail
  <2>2. FrameOf(call[t], 0) \in Frame
    BY DEF FrameOf, TypeOK, Call, Frame, Vals
  <2>3. packet' \in Frame /\ queue' \in Seq(Frame) /\ faults' \in Nat
    BY <1>5, <2>2 DEF SendFail, TypeOK
  <2>4. /\ pc' \in [Threads -> {"idle", "lookup", "lock", "send", "wait", "update"}]
        /\ ret' \in [Threads -> BOOLEAN]
        /\ resend' \in BOOLEAN
        /\ bus' \in Threads \cup {NoThread}
    BY <2>1, TypeLeave
  <2>5. UNCHANGED <<call, got, saved, count, sends, cache, blocked, dev, air, cmds, applied>>
    BY <1>5 DEF SendFail
  <2>6. QED
    BY <2>3, <2>4, <2>5 DEF TypeOK
<1>6. ASSUME NEW t \in Threads, TakeReply(t) PROVE TypeOK'
  <2> DEFINE r == queue[Len(queue)]
  <2>1. r \in Frame
    BY <1>6 DEF TakeReply, TypeOK
  <2>2. LeaveBus(t, Matches(r, call[t]))
    BY <1>6 DEF TakeReply
  <2>3. Matches(r, call[t]) \in BOOLEAN
    BY DEF Matches
  <2>4. QED
    BY <1>6, <2>1, <2>2, <2>3, TypeLeave DEF TakeReply, TypeOK
<1>7. ASSUME NEW t \in Threads, Resend(t) PROVE TypeOK'
  <2>1. Lateness \in {0, 1} /\ packet \in Frame /\ Transmit(packet, Lateness)
    BY <1>7 DEF Resend, Lateness, TypeOK
  <2>2. /\ count' \in [Threads -> 0 .. RESEND_COUNT]
        /\ sends' \in [Threads -> Nat]
    BY <1>7, CountAssumption DEF Resend, TypeOK, OneMore
  <2>3. UNCHANGED <<pc, call, got, ret, saved, busVars, cacheVars, cmds>>
    BY <1>7 DEF Resend
  <2>4. QED
    BY <2>1, <2>2, <2>3, TypeTransmit DEF TypeOK
<1>8. ASSUME NEW t \in Threads, GiveUp(t) PROVE TypeOK'
  <2>1. LeaveBus(t, FALSE)
    BY <1>8 DEF GiveUp
  <2>2. faults' \in Nat
    BY <1>8 DEF GiveUp, Lateness, TypeOK
  <2>3. QED
    BY <1>8, <2>1, <2>2, TypeLeave DEF GiveUp, TypeOK
<1>9. ASSUME NEW t \in Threads, UpdateCache(t) PROVE TypeOK'
  <2>1. /\ Key(got[t]) \in Keys
        /\ Key(call[t]) \in Keys
        /\ got[t].val \in Vals
        /\ call[t].fn \in Fns
    BY DEF Key, Keys, TypeOK, Frame, Call
  <2>2. ASSUME call[t].fn \in DOMAIN CmdTrans
        PROVE  <<got[t].addr, CmdTrans[call[t].fn]>> \in Keys
    BY <2>2, FnAssumption DEF Keys, Fns, TypeOK, Frame
  <2>3. cache' \in [Keys -> Vals \cup {NoVal}]
    BY <1>9, <2>1, <2>2 DEF UpdateCache, SaveReply, TranslateReply, TypeOK
  <2>4. blocked' \in SUBSET Fns
    BY <1>9, <2>1 DEF UpdateCache, SaveReply, TranslateReply, TypeOK
  <2>5. QED
    BY <1>9, <2>3, <2>4, AnyCallType, CountAssumption DEF UpdateCache, TypeOK, Vals
<1>10. ASSUME NEW m \in air, OnReceive(m) PROVE TypeOK'
  BY <1>10 DEF OnReceive, TypeOK, OnAir
<1>11. ASSUME NEW m \in air, LoseReply(m) PROVE TypeOK'
  BY <1>11 DEF LoseReply, TypeOK
<1>12. CASE UNCHANGED vars
  BY <1>12 DEF vars, TypeOK
<1>13. QED
  BY <1>1, <1>2, <1>3, <1>4, <1>5, <1>6, <1>7, <1>8, <1>9, <1>10, <1>11, <1>12
     DEF Next, Exchange

\* Every variable of transform and of the port keeps its type.
THEOREM TypeCorrect == Spec => []TypeOK
  BY TypeInit, TypeStep, PTL DEF Spec

(***************************************************************************)
(* The exchange on the bus.                                                *)
(***************************************************************************)

\* m_mutex is held exactly during the exchange.
Holder == \A t \in Threads : (pc[t] \in {"send", "wait"}) <=> bus = t

\* While a call that stops resending holds the bus, m_bResend is off and the
\* value to restore is on; otherwise m_bResend is on.
ResendState ==
  /\ bus = NoThread => resend
  /\ \A t \in Threads : bus = t => /\ resend = ~call[t].stop
                                   /\ saved[t]

\* What count and sends say of each other, and where sends is still 0.
SendCount ==
  \A t \in Threads :
    /\ pc[t] \in {"lookup", "lock", "send"} => sends[t] = 0
    /\ pc[t] = "wait" => /\ count[t] \in 1 .. RESEND_COUNT
                         /\ sends[t] = RESEND_COUNT + 1 - count[t]
                         /\ call[t].stop => sends[t] = 1

BusInv == Holder /\ ResendState /\ SendCount /\ OwnFrameOnBus /\ SendsBounded

LEMMA BusInit == Init => BusInv
<1> SUFFICES ASSUME Init PROVE BusInv
  OBVIOUS
<1>1. /\ bus = NoThread /\ NoThread \notin Threads /\ resend
      /\ \A t \in Threads : pc[t] = "idle" /\ sends[t] = 0
  BY NobodyAssumption DEF Init
<1>2. Holder /\ ResendState /\ SendCount /\ OwnFrameOnBus
  BY <1>1 DEF Holder, ResendState, SendCount, OwnFrameOnBus
<1>3. SendsBounded
  BY <1>1, CountAssumption DEF SendsBounded
<1>4. QED
  BY <1>2, <1>3 DEF BusInv

\* A thread leaves the bus: shared by the four ways an exchange can end.
LEMMA BusLeave ==
  ASSUME TypeOK, BusInv, NEW t \in Threads, NEW b \in BOOLEAN,
         pc[t] \in {"send", "wait"}, LeaveBus(t, b),
         UNCHANGED <<call, saved, count, sends, cmds>>
  PROVE  BusInv'
<1>1. bus = t /\ t # NoThread
  BY NobodyAssumption DEF BusInv, Holder
<1>2. pc' = [pc EXCEPT ![t] = "update"] /\ bus' = NoThread
  BY DEF LeaveBus
<1>3. \A u \in Threads \ {t} : pc[u] \notin {"send", "wait"} /\ pc'[u] = pc[u]
  BY <1>1, <1>2 DEF BusInv, Holder, TypeOK
<1>4. pc'[t] = "update"
  BY <1>2 DEF TypeOK
<1>5. Holder'
  BY <1>2, <1>3, <1>4, NobodyAssumption DEF Holder
<1>6. ResendState'
  BY <1>1, <1>2, NobodyAssumption DEF LeaveBus, BusInv, ResendState
<1>7. SendCount'
  BY <1>3, <1>4 DEF BusInv, SendCount
<1>8. OwnFrameOnBus'
  BY <1>3, <1>4 DEF OwnFrameOnBus
<1>9. SendsBounded'
  BY DEF BusInv, SendsBounded
<1>10. QED
  BY <1>5, <1>6, <1>7, <1>8, <1>9 DEF BusInv

\* A thread outside the exchange moves to another place outside it.
LEMMA BusOutside ==
  ASSUME TypeOK, BusInv, NEW t \in Threads,
         pc[t] \notin {"send", "wait"},
         NEW p \in {"idle", "lookup", "lock", "update"},
         pc' = [pc EXCEPT ![t] = p],
         p \in {"lookup", "lock"} => sends'[t] = 0,
         sends'[t] = 0 \/ (sends'[t] = sends[t] /\ call'[t] = call[t]),
         \A u \in Threads \ {t} : /\ call'[u] = call[u] /\ saved'[u] = saved[u]
                                  /\ count'[u] = count[u] /\ sends'[u] = sends[u],
         UNCHANGED <<bus, resend, packet, cmds>>
  PROVE  BusInv'
<1>1. pc'[t] = p /\ \A u \in Threads \ {t} : pc'[u] = pc[u]
  BY DEF TypeOK
<1>2. bus # t
  BY DEF BusInv, Holder
<1>3. Holder'
  BY <1>1, <1>2 DEF BusInv, Holder
<1>4. ResendState'
  BY <1>2 DEF BusInv, ResendState
<1>5. SendCount'
  BY <1>1 DEF BusInv, SendCount
<1>6. OwnFrameOnBus'
  BY <1>1 DEF BusInv, OwnFrameOnBus
<1>7. SendsBounded'
  BY <1>1, CountAssumption DEF BusInv, SendsBounded
<1>8. QED
  BY <1>3, <1>4, <1>5, <1>6, <1>7 DEF BusInv

LEMMA BusStep == TypeOK /\ BusInv /\ [Next]_vars => BusInv'
<1> SUFFICES ASSUME TypeOK, BusInv, [Next]_vars PROVE BusInv'
  OBVIOUS
<1> USE DEF threadVars, busVars, cacheVars, devVars
<1>1. ASSUME NEW t \in Threads, NEW c \in CallsOf(t), Start(t, c) PROVE BusInv'
  BY <1>1, BusOutside DEF Start, TypeOK
<1>2. ASSUME NEW t \in Threads, Lookup(t) PROVE BusInv'
  <2>1. sends[t] = 0
    BY <1>2 DEF Lookup, BusInv, SendCount
  <2>2. QED
    BY <1>2, <2>1, BusOutside DEF Lookup, TypeOK
<1>3. ASSUME NEW t \in Threads, LockBus(t) PROVE BusInv'
  <2>1. pc[t] = "lock" /\ pc'[t] = "send" /\ bus = NoThread /\ bus' = t
    BY <1>3 DEF LockBus, TypeOK
  <2>2. \A u \in Threads : pc[u] \notin {"send", "wait"} /\ u # NoThread
    BY <2>1, NobodyAssumption DEF BusInv, Holder
  <2>3. \A u \in Threads \ {t} : pc'[u] = pc[u]
    BY <1>3 DEF LockBus, TypeOK
  <2>4. Holder'
    BY <2>1, <2>2, <2>3 DEF Holder
  <2>5. ResendState'
    <3>1. resend = TRUE
      BY <2>1 DEF BusInv, ResendState, TypeOK
    <3>2. saved'[t] /\ resend' = ~call[t].stop
      BY <1>3, <3>1 DEF LockBus, TypeOK, Call
    <3>3. QED
      BY <1>3, <2>1, <2>2, <3>2 DEF LockBus, ResendState
  <2>6. SendCount' /\ OwnFrameOnBus' /\ SendsBounded'
    BY <1>3, <2>1, <2>2, <2>3 DEF LockBus, BusInv, SendCount, OwnFrameOnBus, SendsBounded
  <2>7. QED
    BY <2>4, <2>5, <2>6 DEF BusInv
<1>4. ASSUME NEW t \in Threads, SendFrame(t) PROVE BusInv'
  <2>1. pc[t] = "send" /\ pc'[t] = "wait" /\ \A u \in Threads \ {t} : pc'[u] = pc[u]
    BY <1>4 DEF SendFrame, TypeOK
  <2>2. bus = t /\ UNCHANGED <<bus, call, saved, resend>>
    BY <1>4, <2>1 DEF SendFrame, BusInv, Holder
  <2>3. \A u \in Threads \ {t} : pc[u] \notin {"send", "wait"}
    BY <2>2 DEF BusInv, Holder
  <2>4. /\ sends'[t] = 1 /\ count'[t] = RESEND_COUNT
        /\ \A u \in Threads \ {t} : sends'[u] = sends[u] /\ count'[u] = count[u]
    BY <1>4 DEF SendFrame, TypeOK
  <2>5. Holder' /\ ResendState'
    BY <2>1, <2>2 DEF BusInv, Holder, ResendState
  <2>6. SendCount' /\ SendsBounded'
    BY <2>1, <2>2, <2>3, <2>4, CountAssumption DEF BusInv, SendCount, SendsBounded
  <2>7. OwnFrameOnBus'
    BY <1>4, <2>1, <2>2, <2>3 DEF SendFrame, FrameOf, OwnFrameOnBus
  <2>8. QED
    BY <2>5, <2>6, <2>7 DEF BusInv
<1>5. ASSUME NEW t \in Threads, SendFail(t) PROVE BusInv'
  BY <1>5, BusLeave DEF SendFail
<1>6. ASSUME NEW t \in Threads, TakeReply(t) PROVE BusInv'
  BY <1>6, BusLeave DEF TakeReply, Matches
<1>7. ASSUME NEW t \in Threads, Resend(t) PROVE BusInv'
  <2>1. pc[t] = "wait" /\ resend /\ count[t] > 1
    BY <1>7 DEF Resend
  <2>2. bus = t /\ ~call[t].stop
    BY <2>1 DEF BusInv, Holder, ResendState, TypeOK, Call
  <2>3. \A u \in Threads \ {t} : pc[u] \notin {"send", "wait"}
    BY <2>2 DEF BusInv, Holder
  <2>4. /\ sends'[t] = OneMore(sends[t]) /\ count'[t] = count[t] - 1
        /\ \A u \in Threads \ {t} : sends'[u] = sends[u] /\ count'[u] = count[u]
    BY <1>7 DEF Resend, TypeOK
  <2>5. UNCHANGED <<pc, call, saved, bus, resend, packet, cmds>>
    BY <1>7 DEF Resend
  <2>6. Holder' /\ ResendState' /\ OwnFrameOnBus'
    BY <2>5 DEF BusInv, Holder, ResendState, OwnFrameOnBus
  <2>7. /\ count[t] \in 1 .. RESEND_COUNT /\ count'[t] \in 1 .. RESEND_COUNT
        /\ sends[t] = RESEND_COUNT + 1 - count[t]
        /\ sends'[t] = RESEND_COUNT + 1 - count'[t]
        /\ sends'[t] <= RESEND_COUNT
    BY <2>1, <2>4, CountAssumption DEF BusInv, SendCount, OneMore
  <2>8. SendCount'
    BY <2>1, <2>2, <2>3, <2>4, <2>5, <2>7 DEF BusInv, SendCount
  <2>9. SendsBounded'
    BY <2>2, <2>4, <2>5, <2>7 DEF BusInv, SendsBounded
  <2>10. QED
    BY <2>6, <2>8, <2>9 DEF BusInv
<1>8. ASSUME NEW t \in Threads, GiveUp(t) PROVE BusInv'
  BY <1>8, BusLeave DEF GiveUp
<1>9. ASSUME NEW t \in Threads, UpdateCache(t) PROVE BusInv'
  BY <1>9, BusOutside DEF UpdateCache, TypeOK
<1>10. ASSUME NEW m \in air, OnReceive(m) \/ LoseReply(m) PROVE BusInv'
  BY <1>10 DEF OnReceive, LoseReply, BusInv, Holder, ResendState, SendCount,
               OwnFrameOnBus, SendsBounded
<1>11. CASE UNCHANGED vars
  BY <1>11 DEF vars, BusInv, Holder, ResendState, SendCount, OwnFrameOnBus, SendsBounded
<1>12. QED
  BY <1>1, <1>2, <1>3, <1>4, <1>5, <1>6, <1>7, <1>8, <1>9, <1>10, <1>11
     DEF Next, Exchange

\* One exchange at a time, with the resend setting of its own call: the frame
\* a timeout repeats is the waiter's, and it is repeated no more often than
\* bStopResendTemp and RESEND_COUNT allow.
THEOREM BusExchange == Spec => [](OwnFrameOnBus /\ ResendRestored /\ SendsBounded)
<1>1. BusInv => OwnFrameOnBus /\ ResendRestored /\ SendsBounded
  BY DEF BusInv, ResendState, ResendRestored
<1>2. QED
  BY <1>1, BusInit, BusStep, TypeCorrect, PTL DEF Spec

(***************************************************************************)
(* What the cache holds.                                                   *)
(***************************************************************************)

\* Only queries are cached, each with a state of its own device.
CacheContent ==
  \A k \in Keys : cache[k] # NoVal => k[2] \in Polled /\ cache[k] \in applied[k[1]]

\* Only polled queries are saved under their own key.
SavesPolled == \A t \in Threads : pc[t] # "idle" /\ call[t].save => call[t].fn \in Polled

\* Replies on the line and in the queue come from a state of their device.
RepliesApplied ==
  /\ \A m \in air : m.reply.val \in applied[m.reply.addr]
  /\ \A i \in 1 .. Len(queue) : queue[i].val \in applied[queue[i].addr]

\* A call that left the bus with success holds its own reply.
GotOwn ==
  \A t \in Threads : pc[t] = "update" /\ ret[t] =>
    /\ Matches(got[t], call[t])
    /\ got[t].val \in applied[got[t].addr]
    /\ sends[t] > 0

\* Nothing has been answered before the cache has been looked up.
NoEarlyAnswer == \A t \in Threads : pc[t] = "lookup" => ~ret[t]

CacheInv == /\ CacheContent
            /\ SavesPolled
            /\ RepliesApplied
            /\ GotOwn
            /\ NoEarlyAnswer
            /\ CommandReachesBus

LEMMA CacheInit == Init => CacheInv
  BY DEF Init, CacheInv, CacheContent, SavesPolled, RepliesApplied, GotOwn,
         NoEarlyAnswer, CommandReachesBus

\* What a transmission does to the history and to the line.
LEMMA TransmitApplied ==
  ASSUME TypeOK, RepliesApplied, NEW f \in Frame, NEW late \in {0, 1}, Transmit(f, late)
  PROVE  /\ \A a \in Addrs : applied[a] \subseteq applied'[a]
         /\ \A m \in air' : m.reply.val \in applied'[m.reply.addr]
<1> DEFINE v == IF f.fn \in Commands THEN f.val ELSE dev[f.addr]
<1>1. f.addr \in Addrs
  BY DEF Frame
<1>2. v = v /\ [f EXCEPT !.val = v].val = v /\ [f EXCEPT !.val = v].addr = f.addr
  BY DEF Frame
<1>3. \A m \in air : m.reply.addr \in Addrs
  BY DEF TypeOK, Frame, OnAir
<1> HIDE DEF v
<1>4. CASE /\ applied' = [applied EXCEPT ![f.addr] = @ \cup {v}]
           /\ \E m \in NextCopy([f EXCEPT !.val = v]) : air' = air \cup {m}
  <2>1. PICK m \in NextCopy([f EXCEPT !.val = v]) : air' = air \cup {m}
    BY <1>4
  <2>2. m.reply = [f EXCEPT !.val = v]
    BY CopyOfReply
  <2>3. QED
    BY <1>1, <1>2, <1>3, <1>4, <2>1, <2>2 DEF TypeOK, RepliesApplied
<1>5. CASE UNCHANGED <<applied, air>>
  BY <1>5 DEF RepliesApplied
<1>6. QED
  BY <1>4, <1>5 DEF Transmit, v

\* A thread leaves the bus with a reply that is a state of its device, or fails.
LEMMA CacheLeave ==
  ASSUME TypeOK, CacheInv, NEW t \in Threads, NEW b \in BOOLEAN,
         pc[t] \in {"send", "wait"}, LeaveBus(t, b),
         UNCHANGED <<call, cache, sends, applied, air>>,
         queue' \in {<<>>, queue},
         \A u \in Threads \ {t} : got'[u] = got[u],
         b => /\ Matches(got'[t], call[t])
              /\ got'[t].val \in applied[got'[t].addr]
              /\ sends[t] > 0
  PROVE  CacheInv'
<1>1. /\ pc'[t] = "update" /\ ret'[t] = b
      /\ \A u \in Threads \ {t} : pc'[u] = pc[u] /\ ret'[u] = ret[u]
  BY DEF LeaveBus, TypeOK
<1>2. CacheContent'
  BY DEF CacheInv, CacheContent
<1>3. SavesPolled'
  BY <1>1 DEF CacheInv, SavesPolled
<1>4. RepliesApplied'
  BY DEF CacheInv, RepliesApplied
<1>5. GotOwn'
  BY <1>1 DEF CacheInv, GotOwn, Matches
<1>6. NoEarlyAnswer' /\ CommandReachesBus'
  BY <1>1 DEF CacheInv, NoEarlyAnswer, CommandReachesBus
<1>7. QED
  BY <1>2, <1>3, <1>4, <1>5, <1>6 DEF CacheInv

\* A step during the exchange: a transmission by the thread that holds the bus.
LEMMA CacheTransmit ==
  ASSUME TypeOK, CacheInv, NEW t \in Threads, pc[t] \in {"send", "wait"},
         pc' = [pc EXCEPT ![t] = "wait"],
         NEW f \in Frame, NEW late \in {0, 1}, Transmit(f, late),
         UNCHANGED <<call, cache, got, ret>>,
         queue' \in {<<>>, queue},
         \A u \in Threads \ {t} : sends'[u] = sends[u]
  PROVE  CacheInv'
<1>1. pc'[t] = "wait" /\ \A u \in Threads \ {t} : pc'[u] = pc[u]
  BY DEF TypeOK
<1>2. /\ \A a \in Addrs : applied[a] \subseteq applied'[a]
      /\ \A m \in air' : m.reply.val \in applied'[m.reply.addr]
  BY TransmitApplied DEF CacheInv
<1>3. CacheContent'
  BY <1>2 DEF CacheInv, CacheContent, Keys
<1>4. SavesPolled'
  BY <1>1 DEF CacheInv, SavesPolled
<1>5. RepliesApplied'
  <2>1. \A i \in 1 .. Len(queue) : queue[i].addr \in Addrs
    <3>1. \A i \in 1 .. Len(queue) : queue[i] \in Frame
      BY DEF TypeOK
    <3>2. QED
      BY <3>1 DEF Frame
  <2>2. QED
    BY <1>2, <2>1 DEF CacheInv, RepliesApplied
<1>6. GotOwn'
  <2>1. \A u \in Threads : got[u].addr \in Addrs
    BY DEF TypeOK, Frame
  <2>2. QED
    BY <1>1, <1>2, <2>1 DEF CacheInv, GotOwn
<1>7. NoEarlyAnswer' /\ CommandReachesBus'
  BY <1>1 DEF CacheInv, NoEarlyAnswer, CommandReachesBus
<1>8. QED
  BY <1>3, <1>4, <1>5, <1>6, <1>7 DEF CacheInv

LEMMA CacheStep == TypeOK /\ BusInv /\ CacheInv /\ [Next]_vars => CacheInv'
<1> SUFFICES ASSUME TypeOK, BusInv, CacheInv, [Next]_vars PROVE CacheInv'
  OBVIOUS
<1> USE DEF threadVars, busVars, cacheVars, devVars
<1>1. ASSUME NEW t \in Threads, NEW c \in CallsOf(t), Start(t, c) PROVE CacheInv'
  <2>1. c.save => c.fn \in Polled
    BY DEF CallsOf, MayCall, Retried, Once
  <2>2. /\ call'[t] = c /\ ~ret'[t] /\ pc'[t] \in {"lock", "lookup"}
        /\ \A u \in Threads \ {t} : /\ call'[u] = call[u] /\ ret'[u] = ret[u]
                                    /\ pc'[u] = pc[u] /\ sends'[u] = sends[u]
        /\ UNCHANGED <<got, cache, queue, air, applied>>
    BY <1>1 DEF Start, TypeOK
  <2>3. CacheContent' /\ RepliesApplied'
    BY <2>2 DEF CacheInv, CacheContent, RepliesApplied
  <2>4. SavesPolled' /\ GotOwn'
    BY <2>1, <2>2 DEF CacheInv, SavesPolled, GotOwn
  <2>5. NoEarlyAnswer' /\ CommandReachesBus'
    BY <2>2 DEF CacheInv, NoEarlyAnswer, CommandReachesBus
  <2>6. QED
    BY <2>3, <2>4, <2>5 DEF CacheInv
<1>2. ASSUME NEW t \in Threads, Lookup(t) PROVE CacheInv'
  <2>1. Key(call[t]) \in Keys /\ Key(call[t])[2] = call[t].fn
    BY DEF Key, Keys, TypeOK, Call
  <2>2. /\ pc[t] = "lookup" /\ ~ret[t]
        /\ pc'[t] \in {"idle", "lock"}
        /\ ret'[t] => pc'[t] = "idle" /\ call[t].fn \in Polled
        /\ \A u \in Threads \ {t} : pc'[u] = pc[u] /\ ret'[u] = ret[u]
        /\ UNCHANGED <<got, cache, queue, air, applied, call, sends>>
    BY <1>2, <2>1 DEF Lookup, TypeOK, CacheInv, CacheContent, NoEarlyAnswer
  <2>3. CacheContent' /\ RepliesApplied' /\ SavesPolled' /\ GotOwn' /\ NoEarlyAnswer'
    BY <2>2 DEF CacheInv, CacheContent, RepliesApplied, SavesPolled, GotOwn, NoEarlyAnswer
  <2>4. CommandReachesBus'
    BY <2>2, FnAssumption DEF CacheInv, CommandReachesBus
  <2>5. QED
    BY <2>3, <2>4 DEF CacheInv
<1>3. ASSUME NEW t \in Threads, LockBus(t) PROVE CacheInv'
  <2>1. /\ pc[t] = "lock" /\ pc'[t] = "send"
        /\ \A u \in Threads \ {t} : pc'[u] = pc[u]
        /\ UNCHANGED <<got, ret, cache, queue, air, applied, call, sends>>
    BY <1>3 DEF LockBus, TypeOK
  <2>2. QED
    BY <2>1 DEF CacheInv, CacheContent, RepliesApplied, SavesPolled, GotOwn,
                NoEarlyAnswer, CommandReachesBus
<1>4. ASSUME NEW t \in Threads, SendFrame(t) PROVE CacheInv'
  <2> DEFINE f == FrameOf(call[t], IF call[t].fn \in Commands THEN cmds + 1 ELSE 0)
  <2>1. f \in Frame
    BY DEF FrameOf, TypeOK, Call, Frame, Vals
  <2>2. Transmit(f, 0) /\ pc[t] = "send" /\ pc' = [pc EXCEPT ![t] = "wait"]
    BY <1>4 DEF SendFrame
  <2>3. /\ UNCHANGED <<call, cache, got, ret>> /\ queue' = <<>>
        /\ \A u \in Threads \ {t} : sends'[u] = sends[u]
    BY <1>4 DEF SendFrame, TypeOK
  <2> HIDE DEF f
  <2>4. QED
    BY <2>1, <2>2, <2>3, CacheTransmit
<1>5. ASSUME NEW t \in Threads, SendFail(t) PROVE CacheInv'
  BY <1>5, CacheLeave DEF SendFail
<1>6. ASSUME NEW t \in Threads, TakeReply(t) PROVE CacheInv'
  <2> DEFINE r == queue[Len(queue)]
  <2>1. r \in Frame /\ r.val \in applied[r.addr]
    BY <1>6 DEF TakeReply, TypeOK, CacheInv, RepliesApplied
  <2>2. pc[t] = "wait" /\ sends[t] > 0
    BY <1>6, CountAssumption DEF TakeReply, BusInv, SendCount
  <2>3. got'[t] = r /\ \A u \in Threads \ {t} : got'[u] = got[u]
    BY <1>6 DEF TakeReply, TypeOK
  <2>4. /\ LeaveBus(t, Matches(r, call[t])) /\ Matches(r, call[t]) \in BOOLEAN
        /\ UNCHANGED <<call, cache, sends, applied, air>> /\ queue' = <<>>
    BY <1>6 DEF TakeReply, Matches
  <2> HIDE DEF r
  <2>5. QED
    BY <2>1, <2>2, <2>3, <2>4, CacheLeave
<1>7. ASSUME NEW t \in Threads, Resend(t) PROVE CacheInv'
  <2>1. Lateness \in {0, 1} /\ packet \in Frame /\ Transmit(packet, Lateness)
    BY <1>7 DEF Resend, Lateness, TypeOK
  <2>2. pc[t] = "wait" /\ pc' = [pc EXCEPT ![t] = "wait"]
    BY <1>7 DEF Resend, TypeOK
  <2>3. /\ UNCHANGED <<call, cache, got, ret, queue>>
        /\ \A u \in Threads \ {t} : sends'[u] = sends[u]
    BY <1>7 DEF Resend, TypeOK
  <2>4. QED
    BY <2>1, <2>2, <2>3, CacheTransmit
<1>8. ASSUME NEW t \in Threads, GiveUp(t) PROVE CacheInv'
  BY <1>8, CacheLeave DEF GiveUp
<1>9. ASSUME NEW t \in Threads, UpdateCache(t) PROVE CacheInv'
  <2>1. /\ pc[t] = "update" /\ pc'[t] = "idle"
        /\ \A u \in Threads \ {t} : pc'[u] = pc[u] /\ got'[u] = got[u]
        /\ UNCHANGED <<ret, queue, air, applied, call, sends>>
    BY <1>9 DEF UpdateCache, TypeOK
  <2>2. CacheContent'
    <3>1. /\ \A k \in Keys : k = <<k[1], k[2]>>
          /\ Key(got[t]) \in Keys /\ Key(call[t]) \in Keys
      BY DEF Key, Keys, TypeOK, Frame, Call
    <3>2. CASE call[t].save /\ ret[t]
      <4>1. cache' = [cache EXCEPT ![Key(got[t])] = got[t].val]
        BY <1>9, <3>2 DEF UpdateCache, SaveReply, TranslateReply
      <4>2. /\ Key(got[t])[1] = got[t].addr /\ Key(got[t])[2] \in Polled
            /\ got[t].val \in applied[got[t].addr]
        BY <2>1, <3>2 DEF CacheInv, SavesPolled, GotOwn, Matches, Key
      <4>3. QED
        BY <2>1, <3>1, <4>1, <4>2 DEF CacheInv, CacheContent, TypeOK
    <3>3. CASE call[t].save /\ ~ret[t]
      BY <1>9, <2>1, <3>1, <3>3
         DEF UpdateCache, SaveReply, TranslateReply, CacheInv, CacheContent, TypeOK
    <3>4. CASE ~call[t].save /\ ret[t] /\ call[t].fn \in DOMAIN CmdTrans
      <4> DEFINE k == <<got[t].addr, CmdTrans[call[t].fn]>>
      <4>1. cache' = [cache EXCEPT ![k] = got[t].val]
        BY <1>9, <3>4 DEF UpdateCache, SaveReply, TranslateReply
      <4>2. /\ k \in Keys /\ k[1] = got[t].addr /\ k[2] \in Polled
            /\ got[t].val \in applied[got[t].addr]
        BY <2>1, <3>4, FnAssumption DEF CacheInv, GotOwn, Keys, Fns, TypeOK, Frame
      <4> HIDE DEF k
      <4>3. QED
        BY <2>1, <4>1, <4>2 DEF CacheInv, CacheContent, TypeOK
    <3>5. CASE ~call[t].save /\ ~(ret[t] /\ call[t].fn \in DOMAIN CmdTrans)
      BY <1>9, <2>1, <3>5
         DEF UpdateCache, SaveReply, TranslateReply, CacheInv, CacheContent
    <3>6. QED
      BY <3>2, <3>3, <3>4, <3>5
  <2>3. SavesPolled' /\ RepliesApplied' /\ GotOwn' /\ NoEarlyAnswer'
    BY <2>1 DEF CacheInv, SavesPolled, RepliesApplied, GotOwn, NoEarlyAnswer
  <2>4. CommandReachesBus'
    BY <2>1 DEF CacheInv, GotOwn, CommandReachesBus
  <2>5. QED
    BY <2>2, <2>3, <2>4 DEF CacheInv
<1>10. ASSUME NEW m \in air, OnReceive(m) PROVE CacheInv'
  <2>1. /\ queue' = Append(queue, m.reply) /\ air' = air \ {m} /\ m.reply \in Frame
        /\ UNCHANGED <<pc, call, got, ret, sends, cache, applied>>
    BY <1>10 DEF OnReceive, TypeOK, OnAir
  <2>2. RepliesApplied'
    <3>1. m.reply.val \in applied[m.reply.addr]
      BY DEF CacheInv, RepliesApplied
    <3>2. /\ \A i \in 1 .. Len(queue) : queue'[i] = queue[i]
          /\ queue'[Len(queue) + 1] = m.reply
          /\ Len(queue') = Len(queue) + 1 /\ Len(queue) \in Nat
      BY <2>1 DEF TypeOK
    <3>3. ASSUME NEW i \in 1 .. Len(queue')
          PROVE  queue'[i].val \in applied[queue'[i].addr]
      <4>1. CASE i = Len(queue) + 1
        BY <3>1, <3>2, <4>1
      <4>2. CASE i \in 1 .. Len(queue)
        BY <3>2, <4>2 DEF CacheInv, RepliesApplied
      <4>3. QED
        BY <3>2, <3>3, <4>1, <4>2
    <3>4. \A c \in air' : c.reply.val \in applied[c.reply.addr]
      BY <2>1 DEF CacheInv, RepliesApplied
    <3>5. QED
      BY <2>1, <3>3, <3>4 DEF RepliesApplied
  <2>3. QED
    BY <2>1, <2>2 DEF CacheInv, CacheContent, SavesPolled, GotOwn, NoEarlyAnswer,
                      CommandReachesBus
<1>11. ASSUME NEW m \in air, LoseReply(m) PROVE CacheInv'
  BY <1>11 DEF LoseReply, CacheInv, CacheContent, SavesPolled, RepliesApplied, GotOwn,
               NoEarlyAnswer, CommandReachesBus
<1>12. CASE UNCHANGED vars
  BY <1>12 DEF vars, CacheInv, CacheContent, SavesPolled, RepliesApplied, GotOwn,
               NoEarlyAnswer, CommandReachesBus
<1>13. QED
  BY <1>1, <1>2, <1>3, <1>4, <1>5, <1>6, <1>7, <1>8, <1>9, <1>10, <1>11, <1>12
     DEF Next, Exchange

\* No command is ever answered from the cache, and every cached reply is a
\* state its own device has been in, late and repeated replies included.
THEOREM CacheSafety == Spec => [](CommandReachesBus /\ CacheProvenance)
<1>1. CacheInv => CommandReachesBus /\ CacheProvenance
  BY DEF CacheInv, CacheContent, CacheProvenance
<1>2. QED
  BY <1>1, CacheInit, CacheStep, BusInit, BusStep, TypeCorrect, PTL DEF Spec

(***************************************************************************)
(* transform implements BusAccess.                                         *)
(***************************************************************************)

\* No device has been told more than what has been written.
DevBound == \A a \in Addrs : dev[a] <= cmds

LEMMA DevBoundTransmit ==
  ASSUME TypeOK, NEW f \in Frame, NEW late \in {0, 1}, Transmit(f, late)
  PROVE  \/ dev' = dev
         \/ f.fn \in Commands /\ dev' = [dev EXCEPT ![f.addr] = f.val]
<1>1. CASE f.fn \in Commands
  BY <1>1 DEF Transmit
<1>2. CASE f.fn \notin Commands /\ dev' = [dev EXCEPT ![f.addr] = dev[f.addr]]
  BY <1>2 DEF TypeOK
<1>3. QED
  BY <1>1, <1>2 DEF Transmit

LEMMA DevBoundStep == TypeOK /\ BusInv /\ DevBound /\ [Next]_vars => DevBound'
<1> SUFFICES ASSUME TypeOK, BusInv, DevBound, [Next]_vars PROVE DevBound'
  OBVIOUS
<1> USE DEF threadVars, busVars, cacheVars, devVars
<1>1. ASSUME NEW t \in Threads, SendFrame(t) PROVE DevBound'
  <2> DEFINE f == FrameOf(call[t], IF call[t].fn \in Commands THEN cmds + 1 ELSE 0)
  <2>1. f \in Frame
    BY DEF FrameOf, TypeOK, Call, Frame, Vals
  <2>2. f.fn \in Commands => f.val = cmds + 1 /\ cmds' = cmds + 1
    BY <1>1 DEF SendFrame, FrameOf
  <2>3. cmds' \in {cmds, cmds + 1} /\ Transmit(f, 0)
    BY <1>1 DEF SendFrame
  <2> HIDE DEF f
  <2>4. \/ dev' = dev
        \/ f.fn \in Commands /\ dev' = [dev EXCEPT ![f.addr] = f.val]
    BY <2>1, <2>3, DevBoundTransmit
  <2>5. ASSUME NEW a \in Addrs PROVE dev'[a] <= cmds'
    <3>1. dev[a] \in Nat /\ cmds \in Nat /\ dev[a] <= cmds
      BY DEF DevBound, TypeOK, Vals
    <3>2. dev'[a] = dev[a] \/ (f.fn \in Commands /\ dev'[a] = f.val)
      BY <2>4 DEF TypeOK
    <3>3. QED
      BY <2>2, <2>3, <3>1, <3>2
  <2>6. QED
    BY <2>5 DEF DevBound
<1>2. ASSUME NEW t \in Threads, Resend(t) PROVE DevBound'
  <2>1. packet.fn \in Commands => packet.val = cmds
    BY <1>2 DEF Resend, BusInv, OwnFrameOnBus
  <2>2. packet \in Frame /\ Lateness \in {0, 1} /\ Transmit(packet, Lateness) /\ cmds' = cmds
    BY <1>2 DEF Resend, TypeOK, Lateness
  <2>3. \/ dev' = dev
        \/ packet.fn \in Commands /\ dev' = [dev EXCEPT ![packet.addr] = packet.val]
    BY <2>2, DevBoundTransmit
  <2>4. ASSUME NEW a \in Addrs PROVE dev'[a] <= cmds'
    <3>1. dev[a] \in Nat /\ cmds \in Nat /\ dev[a] <= cmds
      BY DEF DevBound, TypeOK, Vals
    <3>2. dev'[a] = dev[a] \/ (packet.fn \in Commands /\ dev'[a] = packet.val)
      BY <2>3 DEF TypeOK
    <3>3. QED
      BY <2>1, <2>2, <3>1, <3>2
  <2>5. QED
    BY <2>4 DEF DevBound
<1>3. CASE UNCHANGED <<dev, cmds>>
  BY <1>3 DEF DevBound
<1>4. QED
  BY <1>1, <1>2, <1>3
     DEF Next, vars, Exchange, Start, Lookup, LockBus, SendFail, TakeReply, GiveUp,
         UpdateCache, OnReceive, LoseReply

LEMMA DevBoundInit == Init => DevBound
  BY DEF Init, DevBound

\* A thread that holds the bus is in the exchange, and the other way round.
LEMMA HoldsBus ==
  ASSUME BusInv, NEW t \in Threads, pc[t] \in {"send", "wait"}
  PROVE  bus = t /\ bus # NoThread
  BY NobodyAssumption DEF BusInv, Holder

\* The end of an exchange gives the bus back.
LEMMA LeaveReleases ==
  ASSUME TypeOK, BusInv, NEW t \in Threads, NEW b \in BOOLEAN,
         pc[t] \in {"send", "wait"}, LeaveBus(t, b), UNCHANGED dev
  PROVE  Bus!Release
  BY HoldsBus DEF LeaveBus, Bus!Release, HeldOrder, HeldValue, HeldWrites

\* A frame on the line is a write of the abstract bus.
LEMMA TransmitWrites ==
  ASSUME TypeOK, BusInv, DevBound,
         NEW t \in Threads, pc[t] \in {"send", "wait"}, pc'[t] = "wait",
         NEW f \in Frame, NEW late \in {0, 1}, Transmit(f, late),
         f.addr = call[t].addr, f.fn = call[t].fn, packet' = f,
         UNCHANGED <<call, bus>>,
         sends'[t] = sends[t] + 1,
         sends[t] < IF call[t].stop THEN 1 ELSE RESEND_COUNT,
         IF pc[t] = "send" THEN f.fn \in Commands => f.val = cmds + 1
                           ELSE f.val = packet.val
  PROVE  Bus!Write
<1>1. bus = t /\ bus' = t /\ t # NoThread
  BY HoldsBus
<1>2. HeldOrder' = HeldOrder /\ HeldOrder.addr = f.addr /\ HeldOrder.fn = f.fn
  BY <1>1 DEF HeldOrder
<1>3. HeldWrites = sends[t] /\ HeldWrites' = HeldWrites + 1 /\ HeldWrites < HeldOrder.tries
  BY <1>1 DEF HeldWrites, HeldOrder
<1>4. HeldValue' = f.val /\ f.val \in Nat
  BY <1>1 DEF HeldValue, Frame, Vals
<1>5. /\ (HeldWrites = 0) <=> (pc[t] = "send")
      /\ pc[t] = "wait" => HeldValue = packet.val
  BY <1>1, <1>3, CountAssumption DEF BusInv, SendCount, HeldValue
<1>6. IF HeldWrites = 0 THEN HeldOrder.fn \in Commands => \A a \in Addrs : dev[a] < HeldValue'
                        ELSE HeldValue' = HeldValue
  BY <1>2, <1>4, <1>5 DEF DevBound, TypeOK, Vals
<1>7. \/ dev' = dev
      \/ f.fn \in Commands /\ dev' = [dev EXCEPT ![f.addr] = f.val]
  BY DevBoundTransmit
<1>8. \/ UNCHANGED dev
      \/ HeldOrder.fn \in Commands /\ dev' = [dev EXCEPT ![HeldOrder.addr] = HeldValue']
  BY <1>2, <1>4, <1>7
<1>9. QED
  BY <1>1, <1>2, <1>3, <1>4, <1>6, <1>8 DEF Bus!Write

\* A step outside the exchange is none of the abstract bus.
LEMMA OutsideStutters ==
  ASSUME TypeOK, BusInv, NEW t \in Threads, pc[t] \notin {"send", "wait"},
         \A u \in Threads \ {t} : /\ pc'[u] = pc[u] /\ call'[u] = call[u]
                                  /\ sends'[u] = sends[u],
         UNCHANGED <<bus, packet, dev>>
  PROVE  UNCHANGED Bus!vars
<1>1. bus # t /\ (bus = NoThread \/ bus \in Threads \ {t})
  BY DEF BusInv, Holder, TypeOK
<1>2. HeldOrder' = HeldOrder /\ HeldValue' = HeldValue /\ HeldWrites' = HeldWrites
  BY <1>1 DEF HeldOrder, HeldValue, HeldWrites
<1>3. QED
  BY <1>2 DEF Bus!vars

\* Initially the abstract bus is free, and each step of transform is a step of
\* it or none.
LEMMA BusRefinedInit == Init => Bus!Init
  BY DEF Init, Bus!Init, HeldOrder, HeldValue, HeldWrites

LEMMA BusRefinedStep ==
  TypeOK /\ BusInv /\ DevBound /\ [Next]_vars => [Bus!Next]_Bus!vars
<1> SUFFICES ASSUME TypeOK, BusInv, DevBound, [Next]_vars
             PROVE  Bus!Next \/ UNCHANGED Bus!vars
  OBVIOUS
<1> USE DEF threadVars, busVars, cacheVars, devVars
<1>1. ASSUME NEW t \in Threads, NEW c \in CallsOf(t), Start(t, c) PROVE UNCHANGED Bus!vars
  BY <1>1, OutsideStutters DEF Start, TypeOK
<1>2. ASSUME NEW t \in Threads, Lookup(t) PROVE UNCHANGED Bus!vars
  BY <1>2, OutsideStutters DEF Lookup, TypeOK
<1>3. ASSUME NEW t \in Threads, LockBus(t) PROVE Bus!Next
  <2> DEFINE o == [addr |-> call[t].addr, fn |-> call[t].fn,
                   tries |-> IF call[t].stop THEN 1 ELSE RESEND_COUNT]
  <2>1. o \in Bus!Order
    BY DEF Bus!Order, TypeOK, Call
  <2>2. bus = NoThread /\ bus' = t /\ t # NoThread /\ pc'[t] = "send" /\ sends[t] = 0
    BY <1>3, NobodyAssumption DEF LockBus, TypeOK, BusInv, SendCount
  <2>3. HeldOrder' = o /\ UNCHANGED <<HeldValue, HeldWrites, dev>>
    BY <1>3, <2>2 DEF LockBus, HeldOrder, HeldValue, HeldWrites
  <2> HIDE DEF o
  <2>4. Bus!Acquire(t, o)
    BY <2>2, <2>3 DEF Bus!Acquire
  <2>5. QED
    BY <2>1, <2>4 DEF Bus!Next
<1>4. ASSUME NEW t \in Threads, SendFrame(t) PROVE Bus!Next
  <2> DEFINE f == FrameOf(call[t], IF call[t].fn \in Commands THEN cmds + 1 ELSE 0)
  <2>1. f \in Frame /\ f.addr = call[t].addr /\ f.fn = call[t].fn
    BY DEF FrameOf, TypeOK, Call, Frame, Vals
  <2>2. f.fn \in Commands => f.val = cmds + 1
    BY DEF FrameOf
  <2>3. Transmit(f, 0) /\ packet' = f /\ UNCHANGED <<call, bus>>
    BY <1>4 DEF SendFrame
  <2> HIDE DEF f
  <2>4. pc[t] = "send" /\ pc'[t] = "wait" /\ sends[t] = 0 /\ sends'[t] = 1
    BY <1>4 DEF SendFrame, TypeOK, BusInv, SendCount
  <2>5. sends[t] < IF call[t].stop THEN 1 ELSE RESEND_COUNT
    BY <2>4, CountAssumption
  <2>6. Bus!Write
    BY <2>1, <2>2, <2>3, <2>4, <2>5, TransmitWrites
  <2>7. QED
    BY <2>6 DEF Bus!Next
<1>5. ASSUME NEW t \in Threads, SendFail(t) PROVE Bus!Next
  BY <1>5, LeaveReleases DEF SendFail, Bus!Next
<1>6. ASSUME NEW t \in Threads, TakeReply(t) PROVE Bus!Next
  BY <1>6, LeaveReleases DEF TakeReply, Matches, Bus!Next
<1>7. ASSUME NEW t \in Threads, Resend(t) PROVE Bus!Next
  <2>1. pc[t] = "wait" /\ pc'[t] = "wait" /\ resend /\ count[t] > 1
    BY <1>7 DEF Resend
  <2>2. bus = t /\ ~call[t].stop
    BY <2>1 DEF BusInv, Holder, ResendState, TypeOK, Call
  <2>3. sends[t] = RESEND_COUNT + 1 - count[t] /\ count[t] \in 1 .. RESEND_COUNT
    BY <2>1 DEF BusInv, SendCount
  <2>4. sends'[t] = sends[t] + 1 /\ sends[t] < RESEND_COUNT
    BY <1>7, <2>1, <2>3, CountAssumption DEF Resend, OneMore, TypeOK
  <2>5. /\ packet \in Frame /\ packet' = packet /\ UNCHANGED <<call, bus>>
        /\ packet.addr = call[t].addr /\ packet.fn = call[t].fn
        /\ Lateness \in {0, 1} /\ Transmit(packet, Lateness)
    BY <1>7, <2>1 DEF Resend, TypeOK, Lateness, BusInv, OwnFrameOnBus
  <2>6. Bus!Write
    BY <2>1, <2>2, <2>4, <2>5, TransmitWrites
  <2>7. QED
    BY <2>6 DEF Bus!Next
<1>8. ASSUME NEW t \in Threads, GiveUp(t) PROVE Bus!Next
  BY <1>8, LeaveReleases DEF GiveUp, Bus!Next
<1>9. ASSUME NEW t \in Threads, UpdateCache(t) PROVE UNCHANGED Bus!vars
  BY <1>9, OutsideStutters DEF UpdateCache, TypeOK
<1>10. ASSUME UNCHANGED <<pc, call, sends, bus, packet, dev>> PROVE UNCHANGED Bus!vars
  BY <1>10 DEF Bus!vars, HeldOrder, HeldValue, HeldWrites
<1>11. QED
  BY <1>1, <1>2, <1>3, <1>4, <1>5, <1>6, <1>7, <1>8, <1>9, <1>10
     DEF Next, Exchange, OnReceive, LoseReply, vars

\* The bus as its users may see it, for any number of threads and devices:
\* every step of transform, faults included, is one that BusAccess allows.
THEOREM BusRefinement == Spec => BusRefined
<1>1. Spec => [](TypeOK /\ BusInv /\ DevBound)
  BY BusInit, BusStep, DevBoundInit, DevBoundStep, TypeCorrect, PTL DEF Spec
<1>2. QED
  BY <1>1, BusRefinedInit, BusRefinedStep, PTL DEF Spec, BusRefined, Bus!Spec

\* The parts of BusExchange and CacheSafety that the runs check one by one.
COROLLARY ResendAlwaysRestored == Spec => []ResendRestored
  BY BusExchange, PTL

COROLLARY SendsAlwaysBounded == Spec => []SendsBounded
  BY BusExchange, PTL

COROLLARY CommandsReachBus == Spec => []CommandReachesBus
  BY CacheSafety, PTL
=============================================================================
