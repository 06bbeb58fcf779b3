----------------------------- MODULE TimerQuery -----------------------------
(***************************************************************************)
(* RepeatComm::TimerQuery::Run (src/src/repeat_comm.cpp): the thread that  *)
(* polls the configured devices one after the other, synchronises the      *)
(* meters' clocks, passes the fire alarm on to the fresh-air units and     *)
(* gives way to set commands of the kongguan.  The other threads talk to   *)
(* it through volatile flags that it reads without a lock.                 *)
(*                                                                         *)
(* An exchange on the device bus (module Transform) is one step here that  *)
(* succeeds or fails.  Of a fresh-air unit only the fire alarm it shows is  *)
(* kept; the other settings a frame carries are abstracted.                *)
(***************************************************************************)
EXTENDS Integers, Sequences, FiniteSets

CONSTANTS COUNT_MAX,    \* [Kinds -> Nat]: how many devices of a kind are polled
          CountChoices, \* bound: the device counts that RPC or kongguan may set
          SavedFire,    \* the fire alarms that may stand when the daemon starts
          Absent,       \* devices that never answer, as <<kind, addr>>
          Budget        \* bound: [Events -> Nat], how often each event happens

AIR    == "aircondition"
METER  == "meter"
Kinds  == {"light", "curtain", AIR, METER}
Events == {"counts", "sync", "set", "alarm", "rpc", "query", "send"}

ASSUME CountAssumption ==
  /\ COUNT_MAX \in [Kinds -> Nat]
  /\ CountChoices # {} /\ CountChoices \subseteq [Kinds -> Nat]

ASSUME ChoiceAssumption ==
  /\ SavedFire # {} /\ SavedFire \subseteq BOOLEAN
  /\ Budget \in [Events -> Nat]

Addr    == Nat \ {0}
DevInfo == [type : Kinds, addr : Addr, opt : BOOLEAN]
Units   == 1 .. COUNT_MAX[AIR]

VARIABLES
  step,      \* where Run is
  changed,   \* bTemp of IsDevChange and of IsMeterSyncTime
  devInfos,  \* the ring of devices
  info,      \* the copy of its front
  tries,     \* the loop counter i
  value,     \* the fire alarm of the frame being sent
  sent,      \* frames sent to the unit in this turn
  xinfengAlarmMap,
  counts,    \* m_data_hukong[59..62]
  isDevChange, isMeterSyncTime, isKongguanSetCmd,
  bFireAlarm, bBroadcastFireAlarm,
  fireBit,   \* bit 5 of m_data_setting[10]
  unit,      \* the alarm each fresh-air unit shows
  rpc,       \* an aircondition call of an RPC thread between its two halves
  left,      \* what is left of Budget
  built,     \* history: the counts of the last rebuild
  late,      \* history: exchanges begun since isKongguanSetCmd went up
  synced     \* history: clock synchronisations begun, per meter

locals  == <<changed, info, tries, value, sent>>
flags   == <<isDevChange, isMeterSyncTime, isKongguanSetCmd>>
alarms  == <<bFireAlarm, bBroadcastFireAlarm, fireBit>>
history == <<built, late, synced>>
vars    == <<step, locals, devInfos, xinfengAlarmMap, counts, flags, alarms,
             unit, rpc, left, history>>

NoRpc == [addr |-> 0]

\* MIN(count, COUNT_MAX): the kind's devices in the order of their addresses.
Devices(kind, c) ==
  [i \in 1 .. (IF c[kind] < COUNT_MAX[kind] THEN c[kind] ELSE COUNT_MAX[kind]) |->
     [type |-> kind, addr |-> i, opt |-> FALSE]]

Configured(c) ==
  Devices("light", c) \o Devices("curtain", c) \o Devices(AIR, c) \o Devices(METER, c)

Id(d)     == <<d.type, d.addr>>
Ids(ring) == {Id(ring[i]) : i \in DOMAIN ring}
Meters    == 1 .. COUNT_MAX[METER]

AnyInfo == [type |-> "light", addr |-> 1, opt |-> FALSE]
NoCount == [k \in Kinds |-> 0]

Init ==
  /\ step = "readDev"
  /\ changed = FALSE
  /\ devInfos = <<>>
  /\ info = AnyInfo
  /\ tries = 0
  /\ value = FALSE
  /\ sent = 0
  /\ xinfengAlarmMap = [a \in Units |-> FALSE]
  /\ counts \in CountChoices
  /\ isDevChange = TRUE
  /\ isMeterSyncTime = FALSE
  /\ isKongguanSetCmd = FALSE
  /\ bFireAlarm = FALSE
  /\ bBroadcastFireAlarm = FALSE
  /\ fireBit \in SavedFire
  /\ \E f \in SavedFire : unit = [a \in Units |-> f]
  /\ rpc = NoRpc
  /\ left = Budget
  /\ built = NoCount
  /\ late = 0
  /\ synced = [m \in Meters |-> 0]

Spend(e) == left[e] > 0 /\ left' = [left EXCEPT ![e] = @ - 1]

-----------------------------------------------------------------------------
(* The head of the loop: the flags are read and then cleared.              *)

ReadDevChange ==
  /\ step = "readDev"
  /\ changed' = isDevChange
  /\ step' = "clearDev"
  /\ UNCHANGED <<info, tries, value, sent, devInfos, xinfengAlarmMap, counts,
                 flags, alarms, unit, rpc, left, history>>

ClearDevChange ==
  /\ step = "clearDev"
  /\ isDevChange' = FALSE
  /\ step' = IF changed THEN "rebuild" ELSE "readSync"
  /\ UNCHANGED <<locals, devInfos, xinfengAlarmMap, counts, isMeterSyncTime,
                 isKongguanSetCmd, alarms, unit, rpc, left, history>>

\* Mutant: devInfos is not cleared first.
RebuildNoClear ==
  /\ step = "rebuild"
  /\ devInfos' = devInfos \o Configured(counts)
  /\ built' = counts
  /\ step' = "readSync"
  /\ UNCHANGED <<locals, xinfengAlarmMap, counts, flags, alarms, unit, rpc, left,
                 late, synced>>

\* GetDeviceCount under m_mutex, then a new ring: no meter keeps its opt.
Rebuild ==
  /\ step = "rebuild"
  /\ devInfos' = Configured(counts)
  /\ built' = counts
  /\ step' = "readSync"
  /\ UNCHANGED <<locals, xinfengAlarmMap, counts, flags, alarms, unit, rpc, left,
                 late, synced>>

ReadMeterSync ==
  /\ step = "readSync"
  /\ changed' = isMeterSyncTime
  /\ step' = "clearSync"
  /\ UNCHANGED <<info, tries, value, sent, devInfos, xinfengAlarmMap, counts,
                 flags, alarms, unit, rpc, left, history>>

Marked(d) == [d EXCEPT !.opt = d.opt \/ d.type = METER]

\* Mark the meters; with no device at all the thread sleeps and starts over.
ClearMeterSync ==
  /\ step = "clearSync"
  /\ isMeterSyncTime' = FALSE
  /\ devInfos' = IF changed THEN [i \in DOMAIN devInfos |-> Marked(devInfos[i])]
                            ELSE devInfos
  /\ step' = IF devInfos = <<>> THEN "readDev" ELSE "front"
  /\ UNCHANGED <<locals, xinfengAlarmMap, counts, isDevChange, isKongguanSetCmd,
                 alarms, unit, rpc, left, history>>

-----------------------------------------------------------------------------
(* One turn: the device at the front.                                      *)

TakeFront ==
  /\ step = "front"
  /\ info'  = Head(devInfos)
  /\ tries' = 0
  /\ step'  = IF Head(devInfos).type = METER /\ Head(devInfos).opt THEN "sync" ELSE "check"
  /\ UNCHANGED <<changed, value, sent, devInfos, xinfengAlarmMap, counts, flags,
                 alarms, unit, rpc, left, history>>

Begin == late' = IF isKongguanSetCmd THEN late + 1 ELSE late

\* Mutant: info.opt stays 1.
SyncMeterAgain ==
  /\ step = "sync"
  /\ synced' = [synced EXCEPT ![info.addr] = IF @ > Budget["sync"] THEN @ ELSE @ + 1]
  /\ Begin
  /\ step' = "pause"
  /\ UNCHANGED <<locals, devInfos, xinfengAlarmMap, counts, flags, alarms, unit, rpc,
                 left, built>>

\* time_syn_meter: the request is spent whether or not the meter answers.
SyncMeter ==
  /\ step = "sync"
  /\ info' = [info EXCEPT !.opt = FALSE]
  /\ synced' = [synced EXCEPT ![info.addr] = @ + 1]
  /\ Begin
  /\ step' = "pause"
  /\ UNCHANGED <<changed, tries, value, sent, devInfos, xinfengAlarmMap, counts,
                 flags, alarms, unit, rpc, left, built>>

\* Mutant: m_isKongguanSetCmd is not looked at.
CheckTriesOnly ==
  /\ step = "check"
  /\ step' = IF tries = 3 THEN "pause" ELSE "query"
  /\ UNCHANGED <<locals, devInfos, xinfengAlarmMap, counts, flags, alarms, unit, rpc,
                 left, history>>

\* Mutant: a query that fails is repeated for ever.
CheckNoLimit ==
  /\ step = "check"
  /\ step' = IF isKongguanSetCmd THEN "pause" ELSE "query"
  /\ UNCHANGED <<locals, devInfos, xinfengAlarmMap, counts, flags, alarms, unit, rpc,
                 left, history>>

\* Up to three queries; a set command of the kongguan ends them.
Check ==
  /\ step = "check"
  /\ step' = IF tries = 3 \/ isKongguanSetCmd THEN "pause" ELSE "query"
  /\ UNCHANGED <<locals, devInfos, xinfengAlarmMap, counts, flags, alarms, unit, rpc,
                 left, history>>

QueryAnswered ==
  /\ step = "query"
  /\ Id(info) \notin Absent
  /\ Begin
  /\ step' = IF info.type = AIR THEN "compare" ELSE "pause"
  /\ UNCHANGED <<changed, info, tries, value, sent, devInfos, xinfengAlarmMap, counts,
                 flags, alarms, unit, rpc, left, built, synced>>

QueryFails ==
  /\ step = "query"
  /\ IF Id(info) \in Absent THEN UNCHANGED left ELSE Spend("query")
  /\ Begin
  /\ tries' = tries + 1
  /\ step' = "check"
  /\ UNCHANGED <<changed, info, value, sent, devInfos, xinfengAlarmMap, counts,
                 flags, alarms, unit, rpc, built, synced>>

-----------------------------------------------------------------------------
(* The fire alarm of a fresh-air unit that has answered.                   *)

\* Mutant: the alarm of the broadcast is forgotten.
CompareAlarmLocal ==
  LET alarm == bFireAlarm IN
  /\ step = "compare"
  /\ xinfengAlarmMap' = [xinfengAlarmMap EXCEPT ![info.addr] = alarm]
  /\ sent' = 0
  /\ step' = IF xinfengAlarmMap[info.addr] # alarm THEN "alarm" ELSE "pause"
  /\ UNCHANGED <<changed, info, tries, value, devInfos, counts, flags, alarms,
                 unit, rpc, left, history>>

\* The map is brought up to date before anything is sent.
CompareAlarm ==
  LET alarm == bFireAlarm \/ bBroadcastFireAlarm IN
  /\ step = "compare"
  /\ xinfengAlarmMap' = [xinfengAlarmMap EXCEPT ![info.addr] = alarm]
  /\ sent' = 0
  /\ step' = IF xinfengAlarmMap[info.addr] # alarm THEN "alarm" ELSE "pause"
  /\ UNCHANGED <<changed, info, tries, value, devInfos, counts, flags, alarms,
                 unit, rpc, left, history>>

AlarmNow == fireBit \/ bBroadcastFireAlarm

\* aircondition(), first half, under m_mutex: the alarm as it is now.
ReadAlarm ==
  /\ step = "alarm"
  /\ value' = AlarmNow
  /\ step' = "send"
  /\ UNCHANGED <<changed, info, tries, sent, devInfos, xinfengAlarmMap, counts,
                 flags, alarms, unit, rpc, left, history>>

\* Second half, without m_mutex.
SendAlarm ==
  /\ step = "send"
  /\ Begin
  /\ unit' = [unit EXCEPT ![info.addr] = value]
  /\ sent' = sent + 1
  /\ step' = IF sent = 2 THEN "pause" ELSE "alarm"
  /\ UNCHANGED <<changed, info, tries, value, devInfos, xinfengAlarmMap, counts,
                 flags, alarms, rpc, left, built, synced>>

\* A frame that fails is the last.  So is one whose settings the unit reported
\* out of range: aircondition() throws "param invalid".
SendAlarmFails ==
  /\ step = "send"
  /\ Spend("send")
  /\ Begin
  /\ step' = "pause"
  /\ UNCHANGED <<locals, devInfos, xinfengAlarmMap, counts, flags, alarms, unit, rpc,
                 built, synced>>

-----------------------------------------------------------------------------
(* The end of the turn.                                                    *)

\* A set command has come: leave the bus to the kongguan for 500 ms.
Pause ==
  /\ step = "pause"
  /\ isKongguanSetCmd' = FALSE
  /\ late' = 0
  /\ step' = "rotate"
  /\ UNCHANGED <<locals, devInfos, xinfengAlarmMap, counts, isDevChange, isMeterSyncTime,
                 alarms, unit, rpc, left, built, synced>>

\* Mutant: the front goes back to the front.
RotateNot ==
  /\ step = "rotate"
  /\ devInfos' = <<info>> \o Tail(devInfos)
  /\ step' = "readDev"
  /\ UNCHANGED <<locals, xinfengAlarmMap, counts, flags, alarms, unit, rpc, left, history>>

Rotate ==
  /\ step = "rotate"
  /\ devInfos' = Append(Tail(devInfos), info)
  /\ step' = "readDev"
  /\ UNCHANGED <<locals, xinfengAlarmMap, counts, flags, alarms, unit, rpc, left, history>>

-----------------------------------------------------------------------------
(* The other threads.                                                      *)

timer == <<step, locals, devInfos, xinfengAlarmMap, history>>

\* SetDeviceCount, or the kongguan's 0x41 frame, under m_mutex.
SetDeviceCount(c) ==
  /\ Spend("counts")
  /\ counts' = c
  /\ isDevChange' = TRUE
  /\ UNCHANGED <<timer, isMeterSyncTime, isKongguanSetCmd, alarms, unit, rpc>>

\* The kongguan's 0x50 and 0x51 frames.
TimeFrame ==
  /\ Spend("sync")
  /\ isMeterSyncTime' = TRUE
  /\ UNCHANGED <<timer, counts, isDevChange, isKongguanSetCmd, alarms, unit, rpc>>

\* The kongguan's 0x43, 0x45 and 0x47 frames.
KongguanSet ==
  /\ Spend("set")
  /\ isKongguanSetCmd' = TRUE
  /\ UNCHANGED <<timer, counts, isDevChange, isMeterSyncTime, alarms, unit, rpc>>

\* The kongguan's 0x81 frame: bit 5 and the flag together, under m_mutex.
KongguanFire(f) ==
  /\ Spend("alarm")
  /\ fireBit' = f
  /\ bFireAlarm' = f
  /\ UNCHANGED <<timer, counts, flags, bBroadcastFireAlarm, unit, rpc>>

SetFireAlarm(f) ==
  /\ Spend("alarm")
  /\ bBroadcastFireAlarm' = f
  /\ UNCHANGED <<timer, counts, flags, bFireAlarm, fireBit, unit, rpc>>

\* RPC aircondition: the alarm is read under m_mutex, the frame sent without.
RpcCall(a) ==
  /\ rpc = NoRpc
  /\ Spend("rpc")
  /\ rpc' = [addr |-> a, alarm |-> AlarmNow]
  /\ UNCHANGED <<timer, counts, flags, alarms, unit>>

RpcSend ==
  /\ rpc # NoRpc
  /\ unit' = [unit EXCEPT ![rpc.addr] = rpc.alarm]
  /\ rpc'  = NoRpc
  /\ UNCHANGED <<timer, counts, flags, alarms, left>>

-----------------------------------------------------------------------------

Run ==
  \/ ReadDevChange \/ ClearDevChange \/ Rebuild
  \/ ReadMeterSync \/ ClearMeterSync
  \/ TakeFront \/ SyncMeter
  \/ Check \/ QueryAnswered \/ QueryFails
  \/ CompareAlarm \/ ReadAlarm \/ SendAlarm \/ SendAlarmFails
  \/ Pause \/ Rotate

Others ==
  \/ \E c \in CountChoices : SetDeviceCount(c)
  \/ TimeFrame
  \/ KongguanSet
  \/ \E f \in BOOLEAN : KongguanFire(f) \/ SetFireAlarm(f)
  \/ \E a \in Units : RpcCall(a)
  \/ RpcSend

Next == Run \/ Others

Spec == Init /\ [][Next]_vars

\* The thread runs on, and a call that has begun ends.
FairSpec == Spec /\ WF_vars(Run) /\ WF_vars(RpcSend)

-----------------------------------------------------------------------------
(* Properties.                                                             *)

Steps == {"readDev", "clearDev", "rebuild", "readSync", "clearSync",
          "front", "sync", "check", "query", "compare", "alarm", "send", "pause", "rotate"}

RpcCalls == [addr : Units, alarm : BOOLEAN]

TypeOK ==
  /\ step \in Steps
  /\ changed \in BOOLEAN
  /\ devInfos \in Seq(DevInfo)
  /\ info \in DevInfo
  /\ tries \in 0 .. 3
  /\ value \in BOOLEAN
  /\ sent \in 0 .. 3
  /\ xinfengAlarmMap \in [Units -> BOOLEAN]
  /\ counts \in [Kinds -> Nat]
  /\ isDevChange \in BOOLEAN /\ isMeterSyncTime \in BOOLEAN /\ isKongguanSetCmd \in BOOLEAN
  /\ bFireAlarm \in BOOLEAN /\ bBroadcastFireAlarm \in BOOLEAN /\ fireBit \in BOOLEAN
  /\ unit \in [Units -> BOOLEAN]
  /\ rpc \in RpcCalls \cup {NoRpc}
  /\ left \in [Events -> Nat]
  /\ built \in [Kinds -> Nat]
  /\ late \in Nat
  /\ synced \in [Meters -> Nat]

\* The ring holds every device of one configuration exactly once, however
\* often it is turned and rebuilt (repeat_comm.cpp:34-50, 201-202): popping the
\* front and pushing the edited copy neither loses nor doubles a device.
RingIsConfiguration ==
  /\ Ids(devInfos) = Ids(Configured(built))
  /\ \A i, j \in DOMAIN devInfos : Id(devInfos[i]) = Id(devInfos[j]) => i = j

\* A set command of the kongguan waits for at most one exchange that had begun
\* or was past the check, and for the three alarm frames behind it
\* (comment repeat_comm.cpp:79, "stop sending when a command of the kongguan,
\* which has priority, is met").
PreemptBound == late <= IF info.type = AIR THEN 4 ELSE 1

\* A meter is synchronised at most once for each time frame of the kongguan:
\* the mark lives in the ring but is cleared in the copy (repeat_comm.cpp:153-202).
SyncOncePerFrame == \A m \in Meters : synced[m] <= Budget["sync"] - left["sync"]

\* Every device that stays configured is polled again and again, whatever the
\* other devices do, silent ones included.
EveryDevicePolled ==
  \A k \in Kinds : \A a \in 1 .. COUNT_MAX[k] :
    <>[](<<k, a>> \in Ids(devInfos)) => []<>(step = "query" /\ Id(info) = <<k, a>>)

\* Once the fire alarm no longer changes, every polled unit shows it
\* (repeat_comm.cpp:125 and 137: "if the unit's fire alarm is wrong, update it",
\* "pass the fire alarm on to the unit, three times").
AlarmReachesUnit ==
  \A a \in Units : <>[](<<AIR, a>> \in Ids(devInfos) => unit[a] = AlarmNow)
=============================================================================
