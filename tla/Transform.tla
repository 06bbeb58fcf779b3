----------------------------- MODULE Transform -----------------------------
(***************************************************************************)
(* ProtocolMethod::transform (src/src/protocol/protocol_method.cpp) and    *)
(* the parts of CProtocolComm it drives: the one path by which the RPC     *)
(* threads, the polling thread TimerQuery and the kongguan thread          *)
(* RepeatComm::Run reach the device RS485 bus and the query cache.         *)
(*                                                                         *)
(* A frame or a reply is [addr, fn, val]: fn stands for the pair (type,    *)
(* function) and val for the payload.  The payload of a command is its     *)
(* rank in bus order, so that a larger value is a newer device state.  The *)
(* source address, part of the packet id too, is 0 in every frame of the   *)
(* daemon and taken to be 0 in those it forwards for the kongguan, so that *)
(* they share the cache.                                                   *)
(***************************************************************************)
EXTENDS Integers, Sequences, FiniteSets

CONSTANTS Addrs,      (* device addresses                                    *)
          Absent,     (* those where no device answers                       *)
          Polled,     (* (type,function) pairs of the queries TimerQuery polls *)
          Commands,   (* pairs that change a device                          *)
          Infos,      (* pairs that do neither: 0x53 upgrade, 0x5A type      *)
          CmdTrans,   (* m_cmdPacketTransMap: command pair -> query pair     *)
          Rpcs,       (* the RPC threads                                     *)
          Kongguan,   (* the thread of RepeatComm::Run                       *)
          Poller,     (* the TimerQuery thread                               *)
          RESEND_COUNT,
          MaxCmds,    (* bound: commands put on the bus                      *)
          MaxFaults   (* bound: lost frames, lost or late replies, failed writes *)

Fns     == Polled \cup Commands \cup Infos
Keys    == Addrs \X Fns
Threads == Rpcs \cup {Kongguan, Poller}

ASSUME FnAssumption ==
  /\ Polled \cap Commands = {}
  /\ Polled \cap Infos = {}
  /\ Commands \cap Infos = {}
  /\ CmdTrans \in [DOMAIN CmdTrans -> Polled]
  /\ DOMAIN CmdTrans \subseteq Commands

ASSUME AddrAssumption == Addrs # {} /\ Polled # {} /\ Absent \subseteq Addrs

ASSUME ThreadAssumption == Kongguan # Poller /\ Rpcs \cap {Kongguan, Poller} = {}

ASSUME CountAssumption ==
  /\ RESEND_COUNT \in Nat \ {0}
  /\ MaxCmds \in Nat
  /\ MaxFaults \in Nat

NoVal    == -1          \* the key is not in m_queryPacketMap
NoThread == "nobody"    \* m_mutex is free
ASSUME NobodyAssumption == NoThread \notin Threads

Vals   == Nat
Frame  == [addr : Addrs, fn : Fns, val : Vals]
OnAir  == [reply : Frame, copy : 0 .. MaxFaults]
Call   == [addr : Addrs, fn : Fns, save : BOOLEAN, stop : BOOLEAN]

VARIABLES
  pc,       \* where each thread is in transform
  call,     \* its arguments: address, (type,function), bSaveInBuffer, bStopResendTemp
  got,      \* packet_ret, as long as transform needs it
  ret,      \* bRet, the value transform returns
  saved,    \* the local bResend
  count,    \* the local count of WaitResponse
  bus,      \* owner of m_mutex
  resend,   \* m_bResend
  packet,   \* m_packet, the frame a timeout writes again
  queue,    \* m_queue
  cache,    \* m_queryPacketMap
  blocked,  \* m_queryPacketBlockSet
  dev,      \* state of each device
  air,      \* replies on their way to the serial reader thread
  cmds,     \* number of commands written so far
  faults,   \* faults so far
  sends,    \* history: how often this call wrote its frame
  applied   \* history: the states each device has been in

threadVars == <<pc, call, got, ret, saved, count, sends>>
busVars    == <<bus, resend, packet, queue>>
cacheVars  == <<cache, blocked>>
devVars    == <<dev, air, cmds, faults, applied>>
vars       == <<threadVars, busVars, cacheVars, devVars>>

AnyCall  == CHOOSE c \in Call : TRUE
AnyFrame == [addr |-> AnyCall.addr, fn |-> AnyCall.fn, val |-> 0]

Init ==
  /\ pc      = [t \in Threads |-> "idle"]
  /\ call    = [t \in Threads |-> AnyCall]
  /\ got     = [t \in Threads |-> AnyFrame]
  /\ ret     = [t \in Threads |-> FALSE]
  /\ saved   = [t \in Threads |-> TRUE]
  /\ count   = [t \in Threads |-> 0]
  /\ sends   = [t \in Threads |-> 0]
  /\ bus     = NoThread
  /\ resend  = TRUE
  /\ packet  = AnyFrame
  /\ queue   = <<>>
  /\ cache   = [k \in Keys |-> NoVal]
  /\ blocked = {}
  /\ dev     = [a \in Addrs |-> 0]
  /\ air     = {}
  /\ cmds    = 0
  /\ faults  = 0
  /\ applied = [a \in Addrs |-> {0}]

-----------------------------------------------------------------------------
(* The calls each thread makes.                                            *)

\* light_switch, curtain, aircondition, time_syn_meter, the type and upgrade
\* requests: the defaults of transform.
Retried(c) == ~c.save /\ ~c.stop

\* query_xxx from RPC, and whatever transform_by_kongguan forwards.
Once(c) == ~c.save /\ c.stop

\* TimerQuery: a query that refreshes the cache, sent once.
PollCall(a, f) == [addr |-> a, fn |-> f, save |-> TRUE, stop |-> TRUE]

MayCall(t, c) ==
  \/ c.fn \in Commands /\ Retried(c)
  \/ t = Poller /\ c.fn \in Polled /\ c = PollCall(c.addr, c.fn)
  \/ t = Kongguan /\ Once(c)
  \/ t \in Rpcs /\ c.fn \in Polled /\ Once(c)
  \/ t \in Rpcs /\ c.fn \in Infos /\ Retried(c)

CallsOf(t) == {c \in Call : MayCall(t, c)}

\* Commands on their way to the bus count against the bound.
Pending == {t \in Threads : call[t].fn \in Commands /\ pc[t] \in {"lookup", "lock", "send"}}

\* Mutant: a saving call is answered from the cache too.
StartAlwaysLookup(t, c) ==
  /\ pc[t] = "idle"
  /\ c.fn \in Commands => cmds + Cardinality(Pending) < MaxCmds
  /\ call'  = [call EXCEPT ![t] = c]
  /\ pc'    = [pc EXCEPT ![t] = "lookup"]
  /\ sends' = [sends EXCEPT ![t] = 0]
  /\ ret'   = [ret EXCEPT ![t] = FALSE]
  /\ UNCHANGED <<got, saved, count, busVars, cacheVars, devVars>>

Start(t, c) ==
  /\ pc[t] = "idle"
  /\ c.fn \in Commands => cmds + Cardinality(Pending) < MaxCmds
  /\ call'  = [call EXCEPT ![t] = c]
  /\ pc'    = [pc EXCEPT ![t] = IF c.save THEN "lock" ELSE "lookup"]
  /\ sends' = [sends EXCEPT ![t] = 0]
  /\ ret'   = [ret EXCEPT ![t] = FALSE]
  /\ UNCHANGED <<got, saved, count, busVars, cacheVars, devVars>>

Key(c) == <<c.addr, c.fn>>

\* Under m_query_mutex: answer from the cache, refuse, or go to the bus.
Lookup(t) ==
  LET k == Key(call[t]) IN
  /\ pc[t] = "lookup"
  /\ \/ /\ cache[k] # NoVal
        /\ ret' = [ret EXCEPT ![t] = TRUE]
        /\ pc'  = [pc EXCEPT ![t] = "idle"]
     \/ /\ cache[k] = NoVal
        /\ pc'  = [pc EXCEPT ![t] = IF call[t].fn \in blocked THEN "idle" ELSE "lock"]
        /\ UNCHANGED ret
  /\ UNCHANGED <<call, got, saved, count, sends, busVars, cacheVars, devVars>>

\* Mutant: m_mutex is not taken.
LockBusUnguarded(t) ==
  /\ pc[t] = "lock"
  /\ bus'    = t
  /\ pc'     = [pc EXCEPT ![t] = "send"]
  /\ saved'  = [saved EXCEPT ![t] = call[t].stop => resend]
  /\ resend' = (resend /\ ~call[t].stop)
  /\ UNCHANGED <<call, got, ret, count, sends, packet, queue, cacheVars, devVars>>

\* Mutant: bStopResendTemp is ignored.
LockBusKeepResend(t) ==
  /\ pc[t] = "lock"
  /\ bus = NoThread
  /\ bus' = t
  /\ pc'  = [pc EXCEPT ![t] = "send"]
  /\ UNCHANGED <<call, got, ret, saved, count, sends, resend, packet, queue,
                 cacheVars, devVars>>

\* Lock m_mutex; switch resending off for the exchange if asked to.
LockBus(t) ==
  /\ pc[t] = "lock"
  /\ bus = NoThread
  /\ bus'    = t
  /\ pc'     = [pc EXCEPT ![t] = "send"]
  /\ saved'  = [saved EXCEPT ![t] = call[t].stop => resend]
  /\ resend' = (resend /\ ~call[t].stop)
  /\ UNCHANGED <<call, got, ret, count, sends, packet, queue, cacheVars, devVars>>

-----------------------------------------------------------------------------
(* The exchange, under m_mutex.                                            *)

\* Replies that look the same are told apart by a number.  Each that is still on
\* its way when another is sent is late, so that MaxFaults + 1 numbers do.
NextCopy(r) ==
  LET free == {k \in 0 .. MaxFaults : [reply |-> r, copy |-> k] \notin air} IN
  {[reply |-> r, copy |-> k] : k \in {k \in free : \A j \in free : k <= j}}

\* What writing frame f does: the device obeys and answers, or nobody hears
\* it (a fault unless the device is absent).  late is the number of faults already spent on the step.
Transmit(f, late) ==
  LET v == IF f.fn \in Commands THEN f.val ELSE dev[f.addr] IN
  \/ /\ f.addr \notin Absent
     /\ dev'     = [dev EXCEPT ![f.addr] = v]
     /\ applied' = [applied EXCEPT ![f.addr] = @ \cup {v}]
     /\ \E m \in NextCopy([f EXCEPT !.val = v]) : air' = air \cup {m}
     /\ faults'  = faults + late
  \/ LET loss == IF f.addr \in Absent THEN 0 ELSE 1 IN
     /\ faults + late + loss <= MaxFaults
     /\ faults'  = faults + late + loss
     /\ UNCHANGED <<dev, applied, air>>

\* Mutant: m_bResend stays off.
LeaveBusNoRestore(t, result) ==
  /\ ret'  = [ret EXCEPT ![t] = result]
  /\ bus'  = NoThread
  /\ pc'   = [pc EXCEPT ![t] = "update"]
  /\ UNCHANGED resend

\* The exchange is over: the old resend setting comes back, m_mutex is free.
LeaveBus(t, result) ==
  /\ ret'    = [ret EXCEPT ![t] = result]
  /\ resend' = IF call[t].stop THEN saved[t] ELSE resend
  /\ bus'    = NoThread
  /\ pc'     = [pc EXCEPT ![t] = "update"]

FrameOf(c, v) == [addr |-> c.addr, fn |-> c.fn, val |-> v]

\* SendFrame clears the receive queue, builds m_packet and writes it.
SendFrame(t) ==
  LET isCmd == call[t].fn \in Commands
      f     == FrameOf(call[t], IF isCmd THEN cmds + 1 ELSE 0)
  IN
  /\ pc[t] = "send"
  /\ cmds'   = IF isCmd THEN cmds + 1 ELSE cmds
  /\ packet' = f
  /\ queue'  = <<>>
  /\ sends'  = [sends EXCEPT ![t] = 1]
  /\ count'  = [count EXCEPT ![t] = RESEND_COUNT]
  /\ pc'     = [pc EXCEPT ![t] = "wait"]
  /\ Transmit(f, 0)
  /\ UNCHANGED <<call, got, ret, saved, bus, resend, cacheVars>>

\* Write reports an error: SendFrame, and with it the exchange, fails.
SendFail(t) ==
  /\ pc[t] = "send"
  /\ faults < MaxFaults
  /\ faults' = faults + 1
  /\ queue'  = <<>>
  /\ packet' = FrameOf(call[t], 0)
  /\ LeaveBus(t, FALSE)
  /\ UNCHANGED <<call, got, saved, count, sends, cacheVars, dev, air, cmds, applied>>

\* WaitCheckResult compares address, type and function, not the payload.
Matches(r, c) == r.addr = c.addr /\ r.fn = c.fn

\* WaitPopLast takes the newest packet and drops the ones before it.
TakeReply(t) ==
  /\ pc[t] = "wait"
  /\ queue # <<>>
  /\ LET r == queue[Len(queue)] IN
     /\ got' = [got EXCEPT ![t] = r]
     /\ LeaveBus(t, Matches(r, call[t]))
  /\ queue' = <<>>
  /\ UNCHANGED <<call, saved, count, sends, packet, cacheVars, devVars>>

\* A timeout while a reply is still on its way means a late reply: a fault.
Lateness == IF air = {} THEN 0 ELSE 1

\* The history of sends is not kept beyond the first excess.
OneMore(n) == IF n <= RESEND_COUNT THEN n + 1 ELSE n

\* Mutant: count is never decremented.
ResendNoCount(t) ==
  /\ pc[t] = "wait"
  /\ queue = <<>>
  /\ resend
  /\ count[t] > 1
  /\ faults + Lateness <= MaxFaults
  /\ sends' = [sends EXCEPT ![t] = OneMore(@)]
  /\ Transmit(packet, Lateness)
  /\ UNCHANGED <<pc, call, got, ret, saved, count, busVars, cacheVars, cmds>>

\* Mutant: count is not compared with zero.
ResendNoLimit(t) ==
  /\ pc[t] = "wait"
  /\ queue = <<>>
  /\ resend
  /\ faults + Lateness <= MaxFaults
  /\ count' = [count EXCEPT ![t] = @ - 1]
  /\ sends' = [sends EXCEPT ![t] = OneMore(@)]
  /\ Transmit(packet, Lateness)
  /\ UNCHANGED <<pc, call, got, ret, saved, busVars, cacheVars, cmds>>

\* WaitResponse times out and writes m_packet again.
Resend(t) ==
  /\ pc[t] = "wait"
  /\ queue = <<>>
  /\ resend
  /\ count[t] > 1
  /\ faults + Lateness <= MaxFaults
  /\ count' = [count EXCEPT ![t] = @ - 1]
  /\ sends' = [sends EXCEPT ![t] = OneMore(@)]
  /\ Transmit(packet, Lateness)
  /\ UNCHANGED <<pc, call, got, ret, saved, busVars, cacheVars, cmds>>

\* WaitResponse times out and does not try again.
GiveUp(t) ==
  /\ pc[t] = "wait"
  /\ queue = <<>>
  /\ ~resend \/ count[t] = 1
  /\ faults + Lateness <= MaxFaults
  /\ faults' = faults + Lateness
  /\ LeaveBus(t, FALSE)
  /\ UNCHANGED <<call, got, saved, count, sends, packet, queue, cacheVars,
                 dev, air, cmds, applied>>

-----------------------------------------------------------------------------
(* The serial reader thread and the line.                                  *)

OnReceive(m) ==
  /\ m \in air
  /\ air'   = air \ {m}
  /\ queue' = Append(queue, m.reply)
  /\ UNCHANGED <<threadVars, bus, resend, packet, cacheVars, dev, cmds, faults, applied>>

LoseReply(m) ==
  /\ m \in air
  /\ faults < MaxFaults
  /\ faults' = faults + 1
  /\ air'    = air \ {m}
  /\ UNCHANGED <<threadVars, busVars, cacheVars, dev, cmds, applied>>

-----------------------------------------------------------------------------
(* Under m_query_mutex, after m_mutex has been released.                   *)

\* Mutant: packet_ret is stored whether or not it is the reply asked for.
SaveReplyUnchecked(t) ==
  /\ call[t].save
  /\ blocked' = blocked \cup {call[t].fn}
  /\ cache'   = [cache EXCEPT ![Key(call[t])] = got[t].val]

\* Mutant: the pair is not blocked.
SaveReplyNoBlock(t) ==
  /\ call[t].save
  /\ cache' = IF ret[t] THEN [cache EXCEPT ![Key(got[t])] = got[t].val]
                        ELSE [cache EXCEPT ![Key(call[t])] = NoVal]
  /\ UNCHANGED blocked

\* bSaveInBuffer: block the pair and store the reply, or erase the entry.
SaveReply(t) ==
  /\ call[t].save
  /\ blocked' = blocked \cup {call[t].fn}
  /\ cache'   = IF ret[t] THEN [cache EXCEPT ![Key(got[t])] = got[t].val]
                          ELSE [cache EXCEPT ![Key(call[t])] = NoVal]

\* Mutant: the reply keeps the type and function of the command.
TranslateReplySameKey(t) ==
  /\ ~call[t].save
  /\ cache' = IF ret[t] /\ call[t].fn \in DOMAIN CmdTrans
                THEN [cache EXCEPT ![Key(got[t])] = got[t].val]
                ELSE cache
  /\ UNCHANGED blocked

\* The reply to a command becomes the cached reply to the query of its device.
TranslateReply(t) ==
  /\ ~call[t].save
  /\ cache' = IF ret[t] /\ call[t].fn \in DOMAIN CmdTrans
                THEN [cache EXCEPT ![<<got[t].addr, CmdTrans[call[t].fn]>>] = got[t].val]
                ELSE cache
  /\ UNCHANGED blocked

\* The locals of the call end with it.
UpdateCache(t) ==
  /\ pc[t] = "update"
  /\ SaveReply(t) \/ TranslateReply(t)
  /\ pc'    = [pc EXCEPT ![t] = "idle"]
  /\ got'   = [got EXCEPT ![t] = AnyFrame]
  /\ saved' = [saved EXCEPT ![t] = TRUE]
  /\ count' = [count EXCEPT ![t] = 0]
  /\ UNCHANGED <<call, ret, sends, busVars, devVars>>

-----------------------------------------------------------------------------

\* The steps of a call once it holds m_mutex.
Exchange(t) ==
  SendFrame(t) \/ SendFail(t) \/ TakeReply(t) \/ Resend(t) \/ GiveUp(t)

Next ==
  \/ \E t \in Threads :
       \/ \E c \in CallsOf(t) : Start(t, c)
       \/ Lookup(t)
       \/ LockBus(t)
       \/ Exchange(t)
       \/ UpdateCache(t)
  \/ \E m \in air : OnReceive(m) \/ LoseReply(m)

Spec == Init /\ [][Next]_vars

\* The reader thread and a thread in transform keep running.  m_mutex is not
\* kept from TimerQuery for ever, and its ring polls every pair for ever.
Fairness ==
  /\ WF_vars(\E m \in air : OnReceive(m))
  /\ \A t \in Threads : WF_vars(Lookup(t)) /\ WF_vars(Exchange(t)) /\ WF_vars(UpdateCache(t))
  /\ SF_vars(LockBus(Poller))
  /\ \A a \in Addrs, f \in Polled : SF_vars(Start(Poller, PollCall(a, f)))

FairSpec == Spec /\ Fairness

-----------------------------------------------------------------------------
(* Properties.                                                             *)

TypeOK ==
  /\ pc      \in [Threads -> {"idle", "lookup", "lock", "send", "wait", "update"}]
  /\ call    \in [Threads -> Call]
  /\ got     \in [Threads -> Frame]
  /\ ret     \in [Threads -> BOOLEAN]
  /\ saved   \in [Threads -> BOOLEAN]
  /\ count   \in [Threads -> 0 .. RESEND_COUNT]
  /\ sends   \in [Threads -> Nat]
  /\ bus     \in Threads \cup {NoThread}
  /\ resend  \in BOOLEAN
  /\ packet  \in Frame
  /\ queue   \in Seq(Frame)
  /\ cache   \in [Keys -> Vals \cup {NoVal}]
  /\ blocked \in SUBSET Fns
  /\ dev     \in [Addrs -> Vals]
  /\ air     \in SUBSET OnAir
  /\ cmds    \in Nat
  /\ faults  \in Nat
  /\ applied \in [Addrs -> SUBSET Vals]

\* The frame that a timeout writes again is the frame of the thread that
\* waits: no other thread rebuilds m_packet during the exchange
\* (protocol_method.cpp:514-529, protocol_comm.cpp:144-178).
OwnFrameOnBus ==
  \A t \in Threads : pc[t] = "wait" =>
    /\ packet.addr = call[t].addr
    /\ packet.fn = call[t].fn
    /\ packet.fn \in Commands => packet.val = cmds

\* m_bResend is shared by all threads and switched off for one exchange; it
\* is back at its configured value whenever no exchange is under way.
ResendRestored == bus = NoThread => resend

\* bStopResendTemp: such a call writes its frame once whatever the other
\* threads do to m_bResend; any other call writes it RESEND_COUNT times.
SendsBounded ==
  \A t \in Threads : sends[t] <= IF call[t].stop THEN 1 ELSE RESEND_COUNT

\* A command reported as done has been written to the bus by this very call:
\* no cached packet ever answers a command (transform looks up every request
\* in the cache, commands included).
CommandReachesBus ==
  \A t \in Threads : pc[t] = "idle" /\ ret[t] /\ call[t].fn \in Commands => sends[t] > 0

\* A cached reply shows a state its own device has been in: replies are never
\* filed under another device and failed exchanges never leave an entry.
CacheProvenance ==
  \A k \in Keys : cache[k] # NoVal => cache[k] \in applied[k[1]]

\* m_mutex is released whatever the device does, one that never answers
\* included: the number of retries is finite.
BusReleased == bus # NoThread ~> bus = NoThread

\* Once commands and faults have ended, the cache of a polled query settles on
\* the state of the device, and on no entry if the device is absent, although
\* an exchange and its cache update are two critical sections.
CacheConverges ==
  \A a \in Addrs, f \in Polled :
    <>[](cache[<<a, f>>] = IF a \in Absent THEN NoVal ELSE dev[a])

\* Queries that are polled end up answered from the cache only: the other
\* threads stop putting them on the bus (comment protocol_method.cpp:505-506).
QueriesStayLocal ==
  <>[](\A t \in Threads \ {Poller} : pc[t] \in {"send", "wait"} => call[t].fn \notin Polled)

\* The abstract bus, seen through the thread that holds m_mutex.
HeldOrder ==
  IF bus = NoThread THEN NoThread
  ELSE [addr |-> call[bus].addr, fn |-> call[bus].fn,
        tries |-> IF call[bus].stop THEN 1 ELSE RESEND_COUNT]
HeldValue  == IF bus # NoThread /\ pc[bus] = "wait" THEN packet.val ELSE NoVal
HeldWrites == IF bus = NoThread THEN 0 ELSE sends[bus]

Bus == INSTANCE BusAccess WITH
  Users <- Threads, Devices <- Addrs, Kinds <- Fns, Orders <- Commands,
  MaxWrites <- RESEND_COUNT, Nobody <- NoThread, NoValue <- NoVal,
  owner <- bus, order <- HeldOrder, value <- HeldValue, writes <- HeldWrites, state <- dev

\* transform implements BusAccess: whatever is lost, late or repeated, a hold of
\* m_mutex writes one frame a bounded number of times, changes its own device
\* only, and devices are never set back to an older command
\* (protocol_method.cpp:514-529, protocol_comm.cpp:144-178).
BusRefined == Bus!Spec
=============================================================================
