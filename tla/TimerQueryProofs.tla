--------------------------- MODULE TimerQueryProofs ---------------------------
(***************************************************************************)
(* Safety of the polling thread for every number of devices, every         *)
(* configuration and every number of events.                               *)
(***************************************************************************)
EXTENDS TimerQuery, SequenceTheorems, TLAPS

(***************************************************************************)
(* The ring of devices as a sequence.                                      *)
(***************************************************************************)

\* The devices that can be polled at all.
Dev == {d \in DevInfo : d.addr <= COUNT_MAX[d.type]}

Distinct(ring) == \A i, j \in DOMAIN ring : Id(ring[i]) = Id(ring[j]) => i = j

LEMMA ConcatDistinct ==
  ASSUME NEW s \in Seq(Dev), NEW t \in Seq(Dev), Distinct(s), Distinct(t),
         Ids(s) \cap Ids(t) = {}
  PROVE  /\ s \o t \in Seq(Dev)
         /\ Distinct(s \o t)
         /\ Ids(s \o t) = Ids(s) \cup Ids(t)
<1> DEFINE u == s \o t
<1>1. /\ u \in Seq(Dev)
      /\ Len(u) = Len(s) + Len(t)
      /\ \A i \in 1 .. Len(u) : u[i] = IF i <= Len(s) THEN s[i] ELSE t[i - Len(s)]
  BY ConcatProperties
<1>2. /\ Len(s) \in Nat /\ Len(t) \in Nat
      /\ DOMAIN s = 1 .. Len(s) /\ DOMAIN t = 1 .. Len(t) /\ DOMAIN u = 1 .. Len(u)
  BY <1>1, LenProperties
<1> HIDE DEF u
<1>3. ASSUME NEW i \in DOMAIN s, NEW j \in DOMAIN t
      PROVE  Id(s[i]) # Id(t[j])
  BY DEF Ids
<1>4. \A i \in DOMAIN u : \/ i \in DOMAIN s /\ u[i] = s[i]
                          \/ i - Len(s) \in DOMAIN t /\ u[i] = t[i - Len(s)]
  BY <1>1, <1>2
<1>5. Distinct(u)
  <2> SUFFICES ASSUME NEW i \in DOMAIN u, NEW j \in DOMAIN u, Id(u[i]) = Id(u[j])
               PROVE  i = j
    BY DEF Distinct
  <2>1. CASE i \in DOMAIN s /\ u[i] = s[i] /\ j \in DOMAIN s /\ u[j] = s[j]
    BY <2>1 DEF Distinct
  <2>2. CASE /\ i - Len(s) \in DOMAIN t /\ u[i] = t[i - Len(s)]
             /\ j - Len(s) \in DOMAIN t /\ u[j] = t[j - Len(s)]
    <3>1. i - Len(s) = j - Len(s)
      BY <2>2 DEF Distinct
    <3>2. QED
      BY <1>2, <3>1
  <2>3. QED
    BY <1>3, <1>4, <2>1, <2>2
<1>6. Ids(u) = Ids(s) \cup Ids(t)
  <2>1. Ids(u) \subseteq Ids(s) \cup Ids(t)
    BY <1>4 DEF Ids
  <2>2. ASSUME NEW i \in DOMAIN s
        PROVE  i \in DOMAIN u /\ u[i] = s[i]
    BY <1>1, <1>2
  <2>3. ASSUME NEW i \in DOMAIN t
        PROVE  i + Len(s) \in DOMAIN u /\ u[i + Len(s)] = t[i]
    BY <1>1, <1>2
  <2>4. Ids(s) \subseteq Ids(u)
    BY <2>2 DEF Ids
  <2>5. Ids(t) \subseteq Ids(u)
    BY <2>3 DEF Ids
  <2>6. QED
    BY <2>1, <2>4, <2>5
<1>7. QED
  BY <1>1, <1>5, <1>6 DEF u

LEMMA DevicesDistinct ==
  ASSUME NEW kind \in Kinds, NEW c \in [Kinds -> Nat]
  PROVE  /\ Devices(kind, c) \in Seq(Dev)
         /\ Distinct(Devices(kind, c))
         /\ Ids(Devices(kind, c)) \subseteq {kind} \X Nat
<1> DEFINE n == IF c[kind] < COUNT_MAX[kind] THEN c[kind] ELSE COUNT_MAX[kind]
           s == [i \in 1 .. n |-> [type |-> kind, addr |-> i, opt |-> FALSE]]
<1>1. n \in Nat /\ n <= COUNT_MAX[kind] /\ COUNT_MAX[kind] \in Nat
  BY CountAssumption
<1> HIDE DEF n
<1>2. \A i \in 1 .. n : [type |-> kind, addr |-> i, opt |-> FALSE] \in Dev
  BY <1>1 DEF Dev, DevInfo, Addr
<1>3. s \in Seq(Dev) /\ DOMAIN s = 1 .. n
  BY <1>1, <1>2, IsASeq
<1>4. \A i \in DOMAIN s : Id(s[i]) = <<kind, i>>
  BY DEF Id
<1> HIDE DEF s
<1>5. Distinct(s)
  BY <1>3, <1>4 DEF Distinct
<1>6. \A i \in DOMAIN s : Id(s[i]) \in {kind} \X Nat
  BY <1>1, <1>3, <1>4
<1>7. Ids(s) \subseteq {kind} \X Nat
  BY <1>6 DEF Ids
<1>8. QED
  BY <1>3, <1>5, <1>7 DEF Devices, n, s

LEMMA ConfiguredDistinct ==
  ASSUME NEW c \in [Kinds -> Nat]
  PROVE  Configured(c) \in Seq(Dev) /\ Distinct(Configured(c))
<1> DEFINE l == Devices("light", c)
           k == Devices("curtain", c)
           a == Devices(AIR, c)
           m == Devices(METER, c)
<1>0. {"light", "curtain", AIR, METER} = Kinds
  BY DEF Kinds
<1>1. /\ l \in Seq(Dev) /\ Distinct(l) /\ Ids(l) \subseteq {"light"} \X Nat
      /\ k \in Seq(Dev) /\ Distinct(k) /\ Ids(k) \subseteq {"curtain"} \X Nat
      /\ a \in Seq(Dev) /\ Distinct(a) /\ Ids(a) \subseteq {AIR} \X Nat
      /\ m \in Seq(Dev) /\ Distinct(m) /\ Ids(m) \subseteq {METER} \X Nat
  BY <1>0, DevicesDistinct
<1> HIDE DEF l, k, a, m
<1>2. /\ l \o k \in Seq(Dev) /\ Distinct(l \o k)
      /\ Ids(l \o k) \subseteq {"light", "curtain"} \X Nat
  BY <1>1, ConcatDistinct
<1>3. /\ l \o k \o a \in Seq(Dev) /\ Distinct(l \o k \o a)
      /\ Ids(l \o k \o a) \subseteq {"light", "curtain", AIR} \X Nat
  <2>1. Ids(l \o k) \cap Ids(a) = {}
    BY <1>1, <1>2 DEF AIR
  <2> DEFINE p == l \o k
  <2>2. p \in Seq(Dev) /\ Distinct(p) /\ Ids(p) \cap Ids(a) = {}
    BY <1>2, <2>1
  <2> HIDE DEF p
  <2>3. p \o a \in Seq(Dev) /\ Distinct(p \o a) /\ Ids(p \o a) = Ids(p) \cup Ids(a)
    BY <1>1, <2>2, ConcatDistinct
  <2>4. QED
    BY <1>1, <1>2, <2>3 DEF p
<1>4. Ids(l \o k \o a) \cap Ids(m) = {}
  BY <1>1, <1>3 DEF AIR, METER
<1>5. QED
  BY <1>1, <1>3, <1>4, ConcatDistinct DEF Configured, l, k, a, m

\* A new ring has no marks.
LEMMA ConfiguredUnmarked ==
  ASSUME NEW c \in [Kinds -> Nat], NEW i \in DOMAIN Configured(c)
  PROVE  Configured(c)[i].opt = FALSE
<1> DEFINE U == {d \in DevInfo : d.opt = FALSE}
<1>1. ASSUME NEW kind \in Kinds
      PROVE  Devices(kind, c) \in Seq(U)
  <2> DEFINE n == IF c[kind] < COUNT_MAX[kind] THEN c[kind] ELSE COUNT_MAX[kind]
  <2>1. n \in Nat
    BY CountAssumption
  <2> HIDE DEF n
  <2>2. \A j \in 1 .. n : [type |-> kind, addr |-> j, opt |-> FALSE] \in U
    BY <2>1 DEF DevInfo, Addr
  <2> HIDE DEF U
  <2>3. QED
    BY <2>1, <2>2, IsASeq DEF Devices, n
<1> HIDE DEF U
<1>2. Configured(c) \in Seq(U)
  BY <1>1, ConcatProperties DEF Configured, Kinds
<1>3. Configured(c)[i] \in U
  BY <1>2, ElementOfSeq, LenProperties
<1>4. QED
  BY <1>3 DEF U

\* Popping the front and pushing its copy keeps the devices and their number.
LEMMA RotateDistinct ==
  ASSUME NEW s \in Seq(Dev), s # <<>>, Distinct(s), NEW d \in Dev, Id(d) = Id(s[1])
  PROVE  /\ Append(Tail(s), d) \in Seq(Dev)
         /\ Append(Tail(s), d) # <<>>
         /\ Distinct(Append(Tail(s), d))
         /\ Ids(Append(Tail(s), d)) = Ids(s)
         /\ \A i \in DOMAIN Append(Tail(s), d) :
              \/ Append(Tail(s), d)[i] = d
              \/ \E j \in DOMAIN s : j # 1 /\ Append(Tail(s), d)[i] = s[j]
<1> DEFINE n == Len(s)
           u == Append(Tail(s), d)
<1>1. /\ n \in Nat \ {0}
      /\ DOMAIN s = 1 .. n
      /\ Tail(s) \in Seq(Dev) /\ Len(Tail(s)) = n - 1
      /\ \A i \in 1 .. n - 1 : Tail(s)[i] = s[i + 1]
  BY HeadTailProperties, LenProperties, EmptySeq
<1>2. /\ u \in Seq(Dev) /\ u # <<>>
      /\ Len(u) = n
      /\ \A i \in 1 .. n - 1 : u[i] = Tail(s)[i]
      /\ u[n] = d
  BY <1>1, AppendProperties
<1>3. DOMAIN u = 1 .. n
  BY <1>2, LenProperties
<1> HIDE DEF u, n
<1>4. ASSUME NEW i \in 1 .. n
      PROVE  \/ i = n /\ Id(u[i]) = Id(s[1])
             \/ i + 1 \in 1 .. n /\ Id(u[i]) = Id(s[i + 1])
  BY <1>1, <1>2
<1>5. Distinct(u)
  <2> SUFFICES ASSUME NEW i \in 1 .. n, NEW j \in 1 .. n, Id(u[i]) = Id(u[j])
               PROVE  i = j
    BY <1>3 DEF Distinct
  <2>1. \A x, y \in 1 .. n : Id(s[x]) = Id(s[y]) => x = y
    BY <1>1 DEF Distinct
  <2>2. 1 \in 1 .. n
    BY <1>1
  <2>3. PICK x \in 1 .. n : /\ Id(u[i]) = Id(s[x])
                            /\ (i = n /\ x = 1) \/ x = i + 1
    BY <1>4, <2>2
  <2>4. PICK y \in 1 .. n : /\ Id(u[j]) = Id(s[y])
                            /\ (j = n /\ y = 1) \/ y = j + 1
    BY <1>4, <2>2
  <2>5. x = y
    BY <2>1, <2>3, <2>4
  <2>6. QED
    BY <1>1, <2>3, <2>4, <2>5
<1>6. Ids(u) = Ids(s)
  <2>1. Ids(u) \subseteq Ids(s)
    BY <1>1, <1>3, <1>4 DEF Ids
  <2>2. ASSUME NEW x \in 1 .. n
        PROVE  \E i \in 1 .. n : Id(s[x]) = Id(u[i])
    <3>1. CASE x = 1
      BY <1>1, <1>2, <3>1
    <3>2. CASE x # 1
      <4>1. x - 1 \in 1 .. n - 1 /\ s[(x - 1) + 1] = s[x]
        BY <1>1, <3>2
      <4>2. Id(u[x - 1]) = Id(s[x]) /\ x - 1 \in 1 .. n
        BY <1>1, <1>2, <4>1
      <4>3. QED
        BY <4>2
    <3>3. QED
      BY <3>1, <3>2
  <2>3. QED
    BY <1>1, <1>3, <2>1, <2>2 DEF Ids
<1>7. ASSUME NEW i \in DOMAIN u
      PROVE  u[i] = d \/ \E j \in DOMAIN s : j # 1 /\ u[i] = s[j]
  <2>1. CASE i = n
    BY <1>2, <2>1
  <2>2. CASE i # n
    <3>1. i \in 1 .. n - 1 /\ i + 1 \in DOMAIN s /\ i + 1 # 1
      BY <1>1, <1>3, <2>2
    <3>2. u[i] = s[i + 1]
      BY <1>1, <1>2, <3>1
    <3>3. QED
      BY <3>1, <3>2
  <2>3. QED
    BY <2>1, <2>2
<1>8. QED
  BY <1>2, <1>5, <1>6, <1>7 DEF u

LEMMA MarkDistinct ==
  ASSUME NEW s \in Seq(Dev), Distinct(s)
  PROVE  LET u == [i \in DOMAIN s |-> Marked(s[i])] IN
         u \in Seq(Dev) /\ Distinct(u) /\ Ids(u) = Ids(s) /\ (s # <<>> => u # <<>>)
<1> DEFINE u == [i \in DOMAIN s |-> Marked(s[i])]
<1>1. Len(s) \in Nat /\ DOMAIN s = 1 .. Len(s) /\ \A i \in DOMAIN s : s[i] \in Dev
  BY LenProperties, ElementOfSeq
<1>2. \A i \in DOMAIN s : Marked(s[i]) \in Dev /\ Id(Marked(s[i])) = Id(s[i])
  BY <1>1 DEF Marked, Dev, DevInfo, Id
<1>3. u \in Seq(Dev) /\ DOMAIN u = DOMAIN s
  BY <1>1, <1>2, IsASeq
<1>4. Distinct(u) /\ Ids(u) = Ids(s)
  BY <1>2, <1>3 DEF Distinct, Ids
<1>5. s # <<>> => u # <<>>
  BY <1>1, <1>3, EmptySeq, LenProperties
<1>6. QED
  BY <1>3, <1>4, <1>5

(***************************************************************************)
(* The inductive invariant: what is known at each step of a turn.          *)
(***************************************************************************)

Types ==
  /\ step \in Steps
  /\ changed \in BOOLEAN
  /\ info \in DevInfo
  /\ tries \in 0 .. 3
  /\ value \in BOOLEAN
  /\ sent \in 0 .. 3
  /\ xinfengAlarmMap \in [Units -> BOOLEAN]
  /\ counts \in [Kinds -> Nat]
  /\ isDevChange \in BOOLEAN /\ isMeterSyncTime \in BOOLEAN /\ isKongguanSetCmd \in BOOLEAN
  /\ bFireAlarm \in BOOLEAN /\ bBroadcastFireAlarm \in BOOLEAN /\ fireBit \in BOOLEAN
  /\ unit \in [Units -> BOOLEAN]
  /\ rpc \in RpcCalls \cup {NoRpc}
  /\ left \in [Events -> Nat]
  /\ built \in [Kinds -> Nat]
  /\ late \in Nat
  /\ synced \in [Meters -> Nat]

Ring ==
  /\ devInfos \in Seq(Dev)
  /\ Distinct(devInfos)
  /\ Ids(devInfos) = Ids(Configured(built))

\* The steps of a turn, between TakeFront and Rotate.
InTurn == {"sync", "check", "query", "compare", "alarm", "send", "pause", "rotate"}

Turn ==
  /\ step = "front" => devInfos # <<>>
  /\ step \in InTurn => /\ devInfos # <<>>
                        /\ info \in Dev
                        /\ Id(info) = Id(devInfos[1])
  /\ step = "sync" => info.type = METER /\ info.opt
  /\ step \in {"compare", "alarm", "send"} => info.type = AIR
  /\ step = "query" => tries < 3
  /\ step \in {"alarm", "send"} => sent < 3

\* The exchanges begun since the kongguan's set command, step by step.
Lateness ==
  /\ late > 0 => isKongguanSetCmd
  /\ step \notin {"check", "compare", "alarm", "send", "pause"} => late = 0
  /\ step \in {"check", "compare"} => late <= 1
  /\ step \in {"alarm", "send"} => late <= 1 + sent
  /\ step = "pause" => late <= IF info.type = AIR THEN 4 ELSE 1

\* Meter m is marked; in a turn the mark of the front is in its copy.
Owed(m) ==
  \E i \in DOMAIN devInfos :
    /\ Id(devInfos[i]) = <<METER, m>>
    /\ IF i = 1 /\ step \in InTurn THEN info.opt ELSE devInfos[i].opt

\* A time frame has not reached the ring yet.
Asked == isMeterSyncTime \/ (step = "clearSync" /\ changed)

\* Each frame pays for one synchronisation, done, owed or asked for.
Paid ==
  \A m \in Meters :
    synced[m] + (IF Owed(m) THEN 1 ELSE 0) + (IF Asked THEN 1 ELSE 0)
      <= Budget["sync"] - left["sync"]

TurnInv == Types /\ Ring /\ Turn /\ Lateness


LEMMA CountsType == \A c \in CountChoices : c \in [Kinds -> Nat]
  BY CountAssumption

LEMMA UnitOfTurn ==
  ASSUME Types, Turn, step \in InTurn, info.type = AIR
  PROVE  info.addr \in Units
BY CountAssumption DEF Turn, Dev, DevInfo, Addr, Units, Types, Kinds

LEMMA MeterOfTurn ==
  ASSUME Types, Turn, step = "sync"
  PROVE  info.addr \in Meters
BY CountAssumption DEF Turn, InTurn, Dev, DevInfo, Addr, Meters, Types, Kinds

LEMMA InitTurn == Init => TurnInv
<1> SUFFICES ASSUME Init PROVE TurnInv
  OBVIOUS
<1>1. Types
  <2>1. unit \in [Units -> BOOLEAN] /\ fireBit \in BOOLEAN
    <3>1. PICK f \in SavedFire : unit = [a \in Units |-> f]
      BY DEF Init
    <3>2. QED
      BY <3>1, ChoiceAssumption DEF Init
  <2>2. info \in DevInfo
    BY DEF Init, AnyInfo, DevInfo, Addr, Kinds
  <2>3. counts \in [Kinds -> Nat] /\ built \in [Kinds -> Nat] /\ left \in [Events -> Nat]
    BY CountsType, ChoiceAssumption DEF Init, NoCount
  <2>4. /\ xinfengAlarmMap \in [Units -> BOOLEAN]
              /\ synced \in [Meters -> Nat]
    BY DEF Init
  <2>5. /\ step \in Steps /\ tries \in 0 .. 3 /\ sent \in 0 .. 3 /\ late \in Nat
    BY DEF Init, Steps
  <2>6. /\ changed \in BOOLEAN /\ value \in BOOLEAN
    BY DEF Init
  <2>7. rpc \in RpcCalls \cup {NoRpc}
    BY DEF Init
  <2>8. /\ isDevChange \in BOOLEAN /\ isMeterSyncTime \in BOOLEAN
        /\ isKongguanSetCmd \in BOOLEAN
        /\ bFireAlarm \in BOOLEAN /\ bBroadcastFireAlarm \in BOOLEAN
    BY DEF Init
  <2>9. QED
    BY <2>1, <2>2, <2>3, <2>4, <2>5, <2>6, <2>7, <2>8 DEF Types
<1>2. Ring
  <2>1. <<>> \in Seq(Dev) /\ DOMAIN <<>> = {}
    BY EmptySeq, LenProperties
  <2>2. Configured(NoCount) = <<>>
    <3>1. \A k \in Kinds : Devices(k, NoCount) = <<>>
      <4> SUFFICES ASSUME NEW k \in Kinds PROVE Devices(k, NoCount) = <<>>
        OBVIOUS
      <4>1. Devices(k, NoCount) \in Seq(Dev) /\ DOMAIN Devices(k, NoCount) = {}
        BY DevicesDistinct, CountAssumption DEF NoCount, Devices
      <4>2. QED
        BY <4>1, EmptySeq, LenProperties
    <3>2. QED
      BY <2>1, <3>1, ConcatEmptySeq DEF Configured, Kinds
  <2>3. QED
    BY <2>1, <2>2 DEF Init, Ring, Distinct, Ids
<1>3. Turn /\ Lateness
  BY DEF Init, Turn, Lateness, InTurn
<1>4. QED
  BY <1>1, <1>2, <1>3 DEF TurnInv

LEMMA TypesStep == TurnInv /\ [Next]_vars => Types'
<1> SUFFICES ASSUME TurnInv, [Next]_vars PROVE Types'
  OBVIOUS
<1>1. CASE ReadDevChange
  BY <1>1 DEF TurnInv, Types, Turn, Steps, Events, locals, flags, alarms, history, timer, Begin, Spend, ReadDevChange
<1>2. CASE ClearDevChange
  BY <1>2 DEF TurnInv, Types, Turn, Steps, Events, locals, flags, alarms, history, timer, Begin, Spend, ClearDevChange
<1>3. CASE Rebuild
  BY <1>3 DEF TurnInv, Types, Turn, Steps, Events, locals, flags, alarms, history, timer, Begin, Spend, Rebuild
<1>4. CASE ReadMeterSync
  BY <1>4 DEF TurnInv, Types, Turn, Steps, Events, locals, flags, alarms, history, timer, Begin, Spend, ReadMeterSync
<1>5. CASE ClearMeterSync
  BY <1>5 DEF TurnInv, Types, Turn, Steps, Events, locals, flags, alarms, history, timer, Begin, Spend, ClearMeterSync
<1>6. CASE TakeFront
  <2>1. Head(devInfos) = devInfos[1] /\ devInfos[1] \in DevInfo
    BY <1>6, HeadTailProperties, ElementOfSeq, EmptySeq, LenProperties
    DEF TurnInv, Turn, Ring, TakeFront, Dev
  <2>2. QED
    BY <1>6, <2>1 DEF TurnInv, Types, Steps, TakeFront, flags, alarms, history
<1>7. CASE SyncMeter
  <2>1. info' \in DevInfo
    BY <1>7 DEF TurnInv, Types, DevInfo, SyncMeter
  <2>2. synced' \in [Meters -> Nat]
    <3>1. info.addr \in Meters /\ synced[info.addr] + 1 \in Nat
      BY <1>7, MeterOfTurn DEF TurnInv, Types, SyncMeter
    <3>2. QED
      BY <1>7, <3>1 DEF TurnInv, Types, SyncMeter
  <2>3. late' \in Nat
    BY <1>7 DEF TurnInv, Types, SyncMeter, Begin
  <2>4. QED
    BY <1>7, <2>1, <2>2, <2>3 DEF TurnInv, Types, Steps, SyncMeter, flags, alarms
<1>8. CASE Check
  BY <1>8 DEF TurnInv, Types, Turn, Steps, Events, locals, flags, alarms, history, timer, Begin, Spend, Check
<1>9. CASE QueryAnswered
  BY <1>9, UnitOfTurn DEF TurnInv, Types, Turn, Steps, Events, locals, flags, alarms, history, timer, Begin, Spend, QueryAnswered, InTurn
<1>10. CASE QueryFails
  BY <1>10 DEF TurnInv, Types, Turn, Steps, Events, locals, flags, alarms, history, timer, Begin, Spend, QueryFails
<1>11. CASE CompareAlarm
  <2>1. (bFireAlarm \/ bBroadcastFireAlarm) \in BOOLEAN
    BY DEF TurnInv, Types
  <2>2. xinfengAlarmMap' \in [Units -> BOOLEAN]
    BY <1>11, <2>1 DEF TurnInv, Types, CompareAlarm
  <2>3. QED
    BY <1>11, <2>2 DEF TurnInv, Types, Steps, CompareAlarm, flags, alarms, history
<1>12. CASE ReadAlarm
  BY <1>12 DEF TurnInv, Types, Turn, Steps, Events, locals, flags, alarms, history, timer, Begin, Spend, ReadAlarm, AlarmNow
<1>13. CASE SendAlarm
  <2>1. unit' \in [Units -> BOOLEAN]
    BY <1>13 DEF TurnInv, Types, SendAlarm
  <2>2. late' \in Nat /\ sent' \in 0 .. 3
    BY <1>13 DEF TurnInv, Types, Turn, SendAlarm, Begin
  <2>3. QED
    BY <1>13, <2>1, <2>2 DEF TurnInv, Types, Steps, SendAlarm, flags, alarms
<1>14. CASE SendAlarmFails
  BY <1>14 DEF TurnInv, Types, Turn, Steps, Events, locals, flags, alarms, history, timer, Begin, Spend, SendAlarmFails
<1>15. CASE Pause
  BY <1>15 DEF TurnInv, Types, Turn, Steps, Events, locals, flags, alarms, history, timer, Begin, Spend, Pause
<1>16. CASE Rotate
  BY <1>16 DEF TurnInv, Types, Turn, Steps, Events, locals, flags, alarms, history, timer, Begin, Spend, Rotate
<1>17. ASSUME NEW c \in CountChoices, SetDeviceCount(c)
      PROVE  Types'
  BY <1>17, CountsType DEF TurnInv, Types, Turn, Steps, Events, locals, flags, alarms, history, timer, Begin, Spend, SetDeviceCount
<1>18. CASE TimeFrame
  BY <1>18 DEF TurnInv, Types, Turn, Steps, Events, locals, flags, alarms, history, timer, Begin, Spend, TimeFrame
<1>19. CASE KongguanSet
  BY <1>19 DEF TurnInv, Types, Turn, Steps, Events, locals, flags, alarms, history, timer, Begin, Spend, KongguanSet
<1>20. ASSUME NEW f \in BOOLEAN, KongguanFire(f)
      PROVE  Types'
  BY <1>20 DEF TurnInv, Types, Turn, Steps, Events, locals, flags, alarms, history, timer, Begin, Spend, KongguanFire
<1>21. ASSUME NEW f \in BOOLEAN, SetFireAlarm(f)
      PROVE  Types'
  BY <1>21 DEF TurnInv, Types, Turn, Steps, Events, locals, flags, alarms, history, timer, Begin, Spend, SetFireAlarm
<1>22. ASSUME NEW a \in Units, RpcCall(a)
      PROVE  Types'
  BY <1>22 DEF TurnInv, Types, Turn, Steps, Events, locals, flags, alarms, history, timer, Begin, Spend, RpcCall, RpcCalls, AlarmNow
<1>23. CASE RpcSend
  BY <1>23 DEF TurnInv, Types, Turn, Steps, Events, locals, flags, alarms, history, timer, Begin, Spend, RpcSend, RpcCalls, NoRpc
<1>24. CASE UNCHANGED vars
  BY <1>24 DEF vars, TurnInv, Types, Turn, Steps, Events, locals, flags, alarms, history, timer
<1>25. QED
  BY <1>1, <1>2, <1>3, <1>4, <1>5, <1>6, <1>7, <1>8, <1>9, <1>10, <1>11, <1>12, <1>13, <1>14, <1>15, <1>16, <1>17, <1>18, <1>19, <1>20, <1>21, <1>22, <1>23, <1>24 DEF Next, Run, Others

LEMMA RingStep == TurnInv /\ [Next]_vars => Ring'
<1> SUFFICES ASSUME TurnInv, [Next]_vars PROVE Ring'
  OBVIOUS
<1>1. CASE ReadDevChange
  BY <1>1 DEF TurnInv, Ring, locals, flags, alarms, history, timer, Begin, Spend, ReadDevChange
<1>2. CASE ClearDevChange
  BY <1>2 DEF TurnInv, Ring, locals, flags, alarms, history, timer, Begin, Spend, ClearDevChange
<1>3. CASE Rebuild
  BY <1>3, ConfiguredDistinct DEF TurnInv, Types, Ring, Rebuild
<1>4. CASE ReadMeterSync
  BY <1>4 DEF TurnInv, Ring, locals, flags, alarms, history, timer, Begin, Spend, ReadMeterSync
<1>5. CASE ClearMeterSync
  BY <1>5, MarkDistinct DEF TurnInv, Ring, ClearMeterSync, history
<1>6. CASE TakeFront
  BY <1>6 DEF TurnInv, Ring, locals, flags, alarms, history, timer, Begin, Spend, TakeFront
<1>7. CASE SyncMeter
  BY <1>7 DEF TurnInv, Ring, locals, flags, alarms, history, timer, Begin, Spend, SyncMeter
<1>8. CASE Check
  BY <1>8 DEF TurnInv, Ring, locals, flags, alarms, history, timer, Begin, Spend, Check
<1>9. CASE QueryAnswered
  BY <1>9 DEF TurnInv, Ring, locals, flags, alarms, history, timer, Begin, Spend, QueryAnswered
<1>10. CASE QueryFails
  BY <1>10 DEF TurnInv, Ring, locals, flags, alarms, history, timer, Begin, Spend, QueryFails
<1>11. CASE CompareAlarm
  BY <1>11 DEF TurnInv, Ring, locals, flags, alarms, history, timer, Begin, Spend, CompareAlarm
<1>12. CASE ReadAlarm
  BY <1>12 DEF TurnInv, Ring, locals, flags, alarms, history, timer, Begin, Spend, ReadAlarm
<1>13. CASE SendAlarm
  BY <1>13 DEF TurnInv, Ring, locals, flags, alarms, history, timer, Begin, Spend, SendAlarm
<1>14. CASE SendAlarmFails
  BY <1>14 DEF TurnInv, Ring, locals, flags, alarms, history, timer, Begin, Spend, SendAlarmFails
<1>15. CASE Pause
  BY <1>15 DEF TurnInv, Ring, locals, flags, alarms, history, timer, Begin, Spend, Pause
<1>16. CASE Rotate
  BY <1>16, RotateDistinct DEF TurnInv, Ring, Turn, InTurn, Rotate, history
<1>17. ASSUME NEW c \in CountChoices, SetDeviceCount(c)
      PROVE  Ring'
  BY <1>17 DEF TurnInv, Ring, locals, flags, alarms, history, timer, Begin, Spend, SetDeviceCount
<1>18. CASE TimeFrame
  BY <1>18 DEF TurnInv, Ring, locals, flags, alarms, history, timer, Begin, Spend, TimeFrame
<1>19. CASE KongguanSet
  BY <1>19 DEF TurnInv, Ring, locals, flags, alarms, history, timer, Begin, Spend, KongguanSet
<1>20. ASSUME NEW f \in BOOLEAN, KongguanFire(f)
      PROVE  Ring'
  BY <1>20 DEF TurnInv, Ring, locals, flags, alarms, history, timer, Begin, Spend, KongguanFire
<1>21. ASSUME NEW f \in BOOLEAN, SetFireAlarm(f)
      PROVE  Ring'
  BY <1>21 DEF TurnInv, Ring, locals, flags, alarms, history, timer, Begin, Spend, SetFireAlarm
<1>22. ASSUME NEW a \in Units, RpcCall(a)
      PROVE  Ring'
  BY <1>22 DEF TurnInv, Ring, locals, flags, alarms, history, timer, Begin, Spend, RpcCall
<1>23. CASE RpcSend
  BY <1>23 DEF TurnInv, Ring, locals, flags, alarms, history, timer, Begin, Spend, RpcSend
<1>24. CASE UNCHANGED vars
  BY <1>24 DEF vars, TurnInv, Ring, locals, flags, alarms, history, timer
<1>25. QED
  BY <1>1, <1>2, <1>3, <1>4, <1>5, <1>6, <1>7, <1>8, <1>9, <1>10, <1>11, <1>12, <1>13, <1>14, <1>15, <1>16, <1>17, <1>18, <1>19, <1>20, <1>21, <1>22, <1>23, <1>24 DEF Next, Run, Others

LEMMA TurnStep == TurnInv /\ [Next]_vars => Turn'
<1> SUFFICES ASSUME TurnInv, [Next]_vars PROVE Turn'
  OBVIOUS
<1>1. CASE ReadDevChange
  BY <1>1 DEF TurnInv, Types, Turn, InTurn, Steps, locals, flags, alarms, history, timer, Begin, Spend, ReadDevChange
<1>2. CASE ClearDevChange
  BY <1>2 DEF TurnInv, Types, Turn, InTurn, Steps, locals, flags, alarms, history, timer, Begin, Spend, ClearDevChange
<1>3. CASE Rebuild
  BY <1>3 DEF TurnInv, Types, Turn, InTurn, Steps, locals, flags, alarms, history, timer, Begin, Spend, Rebuild
<1>4. CASE ReadMeterSync
  BY <1>4 DEF TurnInv, Types, Turn, InTurn, Steps, locals, flags, alarms, history, timer, Begin, Spend, ReadMeterSync
<1>5. CASE ClearMeterSync
  BY <1>5, MarkDistinct DEF TurnInv, Ring, Turn, InTurn, ClearMeterSync
<1>6. CASE TakeFront
  <2>1. Head(devInfos) = devInfos[1] /\ devInfos[1] \in Dev
    BY <1>6, HeadTailProperties, ElementOfSeq, EmptySeq, LenProperties
    DEF TurnInv, Turn, Ring, TakeFront
  <2>2. QED
    BY <1>6, <2>1 DEF TurnInv, Turn, InTurn, TakeFront
<1>7. CASE SyncMeter
  <2>1. info' \in Dev /\ Id(info') = Id(info)
    BY <1>7 DEF TurnInv, Turn, InTurn, Dev, DevInfo, Id, SyncMeter
  <2>2. QED
    BY <1>7, <2>1 DEF TurnInv, Turn, InTurn, SyncMeter
<1>8. CASE Check
  BY <1>8 DEF TurnInv, Types, Turn, InTurn, Steps, locals, flags, alarms, history, timer, Begin, Spend, Check
<1>9. CASE QueryAnswered
  BY <1>9 DEF TurnInv, Types, Turn, InTurn, Steps, locals, flags, alarms, history, timer, Begin, Spend, QueryAnswered
<1>10. CASE QueryFails
  BY <1>10 DEF TurnInv, Types, Turn, InTurn, Steps, locals, flags, alarms, history, timer, Begin, Spend, QueryFails
<1>11. CASE CompareAlarm
  BY <1>11 DEF TurnInv, Types, Turn, InTurn, Steps, locals, flags, alarms, history, timer, Begin, Spend, CompareAlarm
<1>12. CASE ReadAlarm
  BY <1>12 DEF TurnInv, Types, Turn, InTurn, Steps, locals, flags, alarms, history, timer, Begin, Spend, ReadAlarm
<1>13. CASE SendAlarm
  BY <1>13 DEF TurnInv, Types, Turn, InTurn, Steps, locals, flags, alarms, history, timer, Begin, Spend, SendAlarm
<1>14. CASE SendAlarmFails
  BY <1>14 DEF TurnInv, Types, Turn, InTurn, Steps, locals, flags, alarms, history, timer, Begin, Spend, SendAlarmFails
<1>15. CASE Pause
  BY <1>15 DEF TurnInv, Types, Turn, InTurn, Steps, locals, flags, alarms, history, timer, Begin, Spend, Pause
<1>16. CASE Rotate
  BY <1>16 DEF TurnInv, Types, Turn, InTurn, Steps, locals, flags, alarms, history, timer, Begin, Spend, Rotate
<1>17. ASSUME NEW c \in CountChoices, SetDeviceCount(c)
      PROVE  Turn'
  BY <1>17 DEF TurnInv, Types, Turn, InTurn, Steps, locals, flags, alarms, history, timer, Begin, Spend, SetDeviceCount
<1>18. CASE TimeFrame
  BY <1>18 DEF TurnInv, Types, Turn, InTurn, Steps, locals, flags, alarms, history, timer, Begin, Spend, TimeFrame
<1>19. CASE KongguanSet
  BY <1>19 DEF TurnInv, Types, Turn, InTurn, Steps, locals, flags, alarms, history, timer, Begin, Spend, KongguanSet
<1>20. ASSUME NEW f \in BOOLEAN, KongguanFire(f)
      PROVE  Turn'
  BY <1>20 DEF TurnInv, Types, Turn, InTurn, Steps, locals, flags, alarms, history, timer, Begin, Spend, KongguanFire
<1>21. ASSUME NEW f \in BOOLEAN, SetFireAlarm(f)
      PROVE  Turn'
  BY <1>21 DEF TurnInv, Types, Turn, InTurn, Steps, locals, flags, alarms, history, timer, Begin, Spend, SetFireAlarm
<1>22. ASSUME NEW a \in Units, RpcCall(a)
      PROVE  Turn'
  BY <1>22 DEF TurnInv, Types, Turn, InTurn, Steps, locals, flags, alarms, history, timer, Begin, Spend, RpcCall
<1>23. CASE RpcSend
  BY <1>23 DEF TurnInv, Types, Turn, InTurn, Steps, locals, flags, alarms, history, timer, Begin, Spend, RpcSend
<1>24. CASE UNCHANGED vars
  BY <1>24 DEF vars, TurnInv, Types, Turn, InTurn, Steps, locals, flags, alarms, history, timer
<1>25. QED
  BY <1>1, <1>2, <1>3, <1>4, <1>5, <1>6, <1>7, <1>8, <1>9, <1>10, <1>11, <1>12, <1>13, <1>14, <1>15, <1>16, <1>17, <1>18, <1>19, <1>20, <1>21, <1>22, <1>23, <1>24 DEF Next, Run, Others

LEMMA LatenessStep == TurnInv /\ [Next]_vars => Lateness'
<1> SUFFICES ASSUME TurnInv, [Next]_vars PROVE Lateness'
  OBVIOUS
<1>1. CASE ReadDevChange
  BY <1>1 DEF TurnInv, Types, Turn, Lateness, Steps, locals, flags, alarms, history, timer, Begin, Spend, ReadDevChange
<1>2. CASE ClearDevChange
  BY <1>2 DEF TurnInv, Types, Turn, Lateness, Steps, locals, flags, alarms, history, timer, Begin, Spend, ClearDevChange
<1>3. CASE Rebuild
  BY <1>3 DEF TurnInv, Types, Turn, Lateness, Steps, locals, flags, alarms, history, timer, Begin, Spend, Rebuild
<1>4. CASE ReadMeterSync
  BY <1>4 DEF TurnInv, Types, Turn, Lateness, Steps, locals, flags, alarms, history, timer, Begin, Spend, ReadMeterSync
<1>5. CASE ClearMeterSync
  BY <1>5 DEF TurnInv, Types, Turn, Lateness, Steps, locals, flags, alarms, history, timer, Begin, Spend, ClearMeterSync
<1>6. CASE TakeFront
  BY <1>6 DEF TurnInv, Types, Turn, Lateness, Steps, locals, flags, alarms, history, timer, Begin, Spend, TakeFront
<1>7. CASE SyncMeter
  BY <1>7 DEF TurnInv, Types, Turn, Lateness, Steps, locals, flags, alarms, history, timer, Begin, Spend, SyncMeter
<1>8. CASE Check
  BY <1>8 DEF TurnInv, Types, Turn, Lateness, Steps, locals, flags, alarms, history, timer, Begin, Spend, Check
<1>9. CASE QueryAnswered
  BY <1>9 DEF TurnInv, Types, Turn, Lateness, Steps, locals, flags, alarms, history, timer, Begin, Spend, QueryAnswered
<1>10. CASE QueryFails
  BY <1>10 DEF TurnInv, Types, Turn, Lateness, Steps, locals, flags, alarms, history, timer, Begin, Spend, QueryFails
<1>11. CASE CompareAlarm
  BY <1>11 DEF TurnInv, Types, Turn, Lateness, Steps, locals, flags, alarms, history, timer, Begin, Spend, CompareAlarm
<1>12. CASE ReadAlarm
  BY <1>12 DEF TurnInv, Types, Turn, Lateness, Steps, locals, flags, alarms, history, timer, Begin, Spend, ReadAlarm
<1>13. CASE SendAlarm
  BY <1>13 DEF TurnInv, Types, Turn, Lateness, Steps, locals, flags, alarms, history, timer, Begin, Spend, SendAlarm
<1>14. CASE SendAlarmFails
  BY <1>14 DEF TurnInv, Types, Turn, Lateness, Steps, locals, flags, alarms, history, timer, Begin, Spend, SendAlarmFails
<1>15. CASE Pause
  BY <1>15 DEF TurnInv, Types, Turn, Lateness, Steps, locals, flags, alarms, history, timer, Begin, Spend, Pause
<1>16. CASE Rotate
  BY <1>16 DEF TurnInv, Types, Turn, Lateness, Steps, locals, flags, alarms, history, timer, Begin, Spend, Rotate
<1>17. ASSUME NEW c \in CountChoices, SetDeviceCount(c)
      PROVE  Lateness'
  BY <1>17 DEF TurnInv, Types, Turn, Lateness, Steps, locals, flags, alarms, history, timer, Begin, Spend, SetDeviceCount
<1>18. CASE TimeFrame
  BY <1>18 DEF TurnInv, Types, Turn, Lateness, Steps, locals, flags, alarms, history, timer, Begin, Spend, TimeFrame
<1>19. CASE KongguanSet
  BY <1>19 DEF TurnInv, Types, Turn, Lateness, Steps, locals, flags, alarms, history, timer, Begin, Spend, KongguanSet
<1>20. ASSUME NEW f \in BOOLEAN, KongguanFire(f)
      PROVE  Lateness'
  BY <1>20 DEF TurnInv, Types, Turn, Lateness, Steps, locals, flags, alarms, history, timer, Begin, Spend, KongguanFire
<1>21. ASSUME NEW f \in BOOLEAN, SetFireAlarm(f)
      PROVE  Lateness'
  BY <1>21 DEF TurnInv, Types, Turn, Lateness, Steps, locals, flags, alarms, history, timer, Begin, Spend, SetFireAlarm
<1>22. ASSUME NEW a \in Units, RpcCall(a)
      PROVE  Lateness'
  BY <1>22 DEF TurnInv, Types, Turn, Lateness, Steps, locals, flags, alarms, history, timer, Begin, Spend, RpcCall
<1>23. CASE RpcSend
  BY <1>23 DEF TurnInv, Types, Turn, Lateness, Steps, locals, flags, alarms, history, timer, Begin, Spend, RpcSend
<1>24. CASE UNCHANGED vars
  BY <1>24 DEF vars, TurnInv, Types, Turn, Lateness, Steps, locals, flags, alarms, history, timer
<1>25. QED
  BY <1>1, <1>2, <1>3, <1>4, <1>5, <1>6, <1>7, <1>8, <1>9, <1>10, <1>11, <1>12, <1>13, <1>14, <1>15, <1>16, <1>17, <1>18, <1>19, <1>20, <1>21, <1>22, <1>23, <1>24 DEF Next, Run, Others

LEMMA TurnInductive == TurnInv /\ [Next]_vars => TurnInv'
  BY TypesStep, RingStep, TurnStep, LatenessStep DEF TurnInv

LEMMA TurnInvariant == Spec => []TurnInv
  BY InitTurn, TurnInductive, PTL DEF Spec

LEMMA TurnImplies == TurnInv => TypeOK /\ RingIsConfiguration /\ PreemptBound
<1> SUFFICES ASSUME TurnInv PROVE TypeOK /\ RingIsConfiguration /\ PreemptBound
  OBVIOUS
<1>1. devInfos \in Seq(DevInfo)
  <2>1. Dev \subseteq DevInfo
    BY DEF Dev
  <2>2. QED
    BY <2>1 DEF TurnInv, Ring
<1>2. TypeOK
  BY <1>1 DEF TurnInv, Types, TypeOK
<1>3. RingIsConfiguration
  BY DEF TurnInv, Ring, RingIsConfiguration, Distinct
<1>4. PreemptBound
  BY DEF TurnInv, Types, Steps, Turn, Lateness, PreemptBound
<1>5. QED
  BY <1>2, <1>3, <1>4

(***************************************************************************)
(* The theorems.                                                           *)
(***************************************************************************)

\* Every reachable state of the polling thread and of the flags it shares is
\* well typed.
THEOREM TypeCorrect == Spec => []TypeOK
  BY TurnInvariant, TurnImplies, PTL

\* However often the counts change and the ring turns, it holds each device of
\* the configuration read last exactly once.
THEOREM RingCorrect == Spec => []RingIsConfiguration
  BY TurnInvariant, TurnImplies, PTL

\* A set command of the kongguan never waits for more than one query, or for
\* one query and three alarm frames.
THEOREM Preemption == Spec => []PreemptBound
  BY TurnInvariant, TurnImplies, PTL

(***************************************************************************)
(* Time frames and clock synchronisations.                                 *)
(***************************************************************************)

LEMMA MeterRange == \A m \in Meters : m \in Nat
  BY CountAssumption DEF Meters, Kinds

\* A step that adds no mark, asks for nothing and spends no time frame.
LEMMA PaidFrame ==
  ASSUME TurnInv, TurnInv', Paid, synced' = synced, left'["sync"] = left["sync"],
         \A m \in Meters : Owed(m)' => Owed(m), Asked' => Asked
  PROVE  Paid'
<1>1. \A m \in Meters : synced[m] \in Nat
  BY DEF TurnInv, Types
<1>2. left["sync"] \in Nat /\ Budget["sync"] \in Nat
  BY ChoiceAssumption DEF TurnInv, Types, Events
<1> SUFFICES ASSUME NEW m \in Meters
             PROVE  (synced[m] + (IF Owed(m) THEN 1 ELSE 0) + (IF Asked THEN 1 ELSE 0)
                       <= Budget["sync"] - left["sync"])'
  BY DEF Paid
<1>3. synced[m] + (IF Owed(m) THEN 1 ELSE 0) + (IF Asked THEN 1 ELSE 0)
        <= Budget["sync"] - left["sync"]
  BY DEF Paid
<1>4. (Owed(m)' => Owed(m)) /\ (Asked' => Asked)
  OBVIOUS
<1> HIDE DEF Owed, Asked
<1>5. QED
  BY <1>1, <1>2, <1>3, <1>4

LEMMA PaidStep == TurnInv /\ Paid /\ TurnInv' /\ [Next]_vars => Paid'
<1> SUFFICES ASSUME TurnInv, Paid, TurnInv', [Next]_vars PROVE Paid'
  OBVIOUS
<1>1. CASE ReadDevChange
  <2>1. synced' = synced /\ left'["sync"] = left["sync"]
    BY <1>1 DEF TurnInv, Types, Events, ReadDevChange, history, Spend, timer
  <2>2. \A m \in Meters : Owed(m)' => Owed(m)
    BY <1>1 DEF TurnInv, Types, Steps, Turn, Owed, InTurn, ReadDevChange, locals, timer
  <2>3. Asked' => Asked
    BY <1>1 DEF Asked, ReadDevChange, locals, flags, timer
  <2>4. QED
    BY <2>1, <2>2, <2>3, PaidFrame
<1>2. CASE ClearDevChange
  <2>1. synced' = synced /\ left'["sync"] = left["sync"]
    BY <1>2 DEF TurnInv, Types, Events, ClearDevChange, history, Spend, timer
  <2>2. \A m \in Meters : Owed(m)' => Owed(m)
    BY <1>2 DEF TurnInv, Types, Steps, Turn, Owed, InTurn, ClearDevChange, locals, timer
  <2>3. Asked' => Asked
    BY <1>2 DEF Asked, ClearDevChange, locals, flags, timer
  <2>4. QED
    BY <2>1, <2>2, <2>3, PaidFrame
<1>3. CASE Rebuild
  <2>1. synced' = synced /\ left'["sync"] = left["sync"]
    BY <1>3 DEF Rebuild
  <2>2. \A m \in Meters : Owed(m)' => Owed(m)
    BY <1>3, ConfiguredUnmarked DEF TurnInv, Types, Owed, InTurn, Rebuild
  <2>3. Asked' => Asked
    BY <1>3 DEF Asked, Rebuild, flags
  <2>4. QED
    BY <2>1, <2>2, <2>3, PaidFrame
<1>4. CASE ReadMeterSync
  <2>1. synced' = synced /\ left'["sync"] = left["sync"]
    BY <1>4 DEF TurnInv, Types, Events, ReadMeterSync, history, Spend, timer
  <2>2. \A m \in Meters : Owed(m)' => Owed(m)
    BY <1>4 DEF TurnInv, Types, Steps, Turn, Owed, InTurn, ReadMeterSync, locals, timer
  <2>3. Asked' => Asked
    BY <1>4 DEF Asked, ReadMeterSync, locals, flags, timer
  <2>4. QED
    BY <2>1, <2>2, <2>3, PaidFrame
<1>5. CASE ClearMeterSync
  <2>1. synced' = synced /\ left' = left
    BY <1>5 DEF ClearMeterSync, history
  <2>2. ~Asked'
    BY <1>5 DEF Asked, ClearMeterSync
  <2>3. CASE changed
    <3>1. Asked
      BY <1>5, <2>3 DEF Asked, ClearMeterSync
    <3>2. left["sync"] \in Nat /\ Budget["sync"] \in Nat /\ \A m \in Meters : synced[m] \in Nat
      BY ChoiceAssumption DEF TurnInv, Types, Events
    <3>3. \A m \in Meters : synced[m] + (IF Owed(m) THEN 1 ELSE 0) + 1
            <= Budget["sync"] - left["sync"]
      BY <3>1 DEF Paid
    <3> HIDE DEF Owed, Asked
    <3>4. ASSUME NEW m \in Meters
          PROVE  synced'[m] + (IF Owed(m)' THEN 1 ELSE 0) + (IF Asked' THEN 1 ELSE 0)
                   <= Budget["sync"] - left'["sync"]
      BY <2>1, <2>2, <3>2, <3>3
    <3>5. QED
      BY <3>4 DEF Paid
  <2>4. CASE ~changed
    <3>1. \A m \in Meters : Owed(m)' => Owed(m)
      BY <1>5, <2>4 DEF Owed, InTurn, ClearMeterSync
    <3>2. QED
      BY <2>1, <2>2, <3>1, PaidFrame
  <2>5. QED
    BY <2>3, <2>4
<1>6. CASE TakeFront
  <2>1. synced' = synced /\ left'["sync"] = left["sync"]
    BY <1>6 DEF TakeFront, history
  <2>2. info' = devInfos[1] /\ devInfos' = devInfos
    BY <1>6, HeadTailProperties, EmptySeq DEF TurnInv, Turn, Ring, TakeFront
  <2>3. \A m \in Meters : Owed(m)' => Owed(m)
    BY <1>6, <2>2 DEF Owed, InTurn, TakeFront
  <2>4. Asked' => Asked
    BY <1>6 DEF Asked, TakeFront, flags
  <2>5. QED
    BY <2>1, <2>3, <2>4, PaidFrame
<1>7. CASE SyncMeter
  <2>1. left' = left /\ Asked' = Asked
    BY <1>7 DEF SyncMeter, Asked, flags
  <2>2. /\ info.addr \in Meters /\ Id(info) = <<METER, info.addr>>
        /\ Id(devInfos[1]) = Id(info) /\ 1 \in DOMAIN devInfos /\ info.opt
    BY <1>7, MeterOfTurn, LenProperties, EmptySeq
    DEF TurnInv, Types, Ring, Turn, InTurn, SyncMeter, Id
  <2>3. info'.opt = FALSE /\ devInfos' = devInfos
    BY <1>7 DEF TurnInv, Types, DevInfo, SyncMeter
  <2>4. Owed(info.addr)
    BY <1>7, <2>2 DEF Owed, InTurn, SyncMeter
  <2>5. ASSUME NEW m \in Meters, Owed(m)'
        PROVE  m # info.addr /\ Owed(m)
    <3>1. PICK i \in DOMAIN devInfos : /\ Id(devInfos[i]) = <<METER, m>>
                                      /\ i # 1 /\ devInfos[i].opt
      BY <1>7, <2>3, <2>5 DEF Owed, InTurn, SyncMeter
    <3>2. m # info.addr
      BY <2>2, <3>1 DEF TurnInv, Ring, Distinct
    <3>3. QED
      BY <3>1, <3>2 DEF Owed
  <2>6. ASSUME NEW m \in Meters
        PROVE  synced[m] \in Nat /\ synced'[m] = IF m = info.addr THEN synced[m] + 1 ELSE synced[m]
    BY <1>7 DEF TurnInv, Types, SyncMeter
  <2>7. left["sync"] \in Nat /\ Budget["sync"] \in Nat
    BY ChoiceAssumption DEF TurnInv, Types, Events
  <2>8. \A m \in Meters : synced[m] + (IF Owed(m) THEN 1 ELSE 0) + (IF Asked THEN 1 ELSE 0)
          <= Budget["sync"] - left["sync"]
    BY DEF Paid
  <2> HIDE DEF Owed, Asked
  <2>9. ASSUME NEW m \in Meters
        PROVE  synced'[m] + (IF Owed(m)' THEN 1 ELSE 0) + (IF Asked' THEN 1 ELSE 0)
                 <= Budget["sync"] - left'["sync"]
    <3>1. CASE m = info.addr
      BY <2>1, <2>4, <2>5, <2>6, <2>7, <2>8, <3>1
    <3>2. CASE m # info.addr
      BY <2>1, <2>5, <2>6, <2>7, <2>8, <3>2
    <3>3. QED
      BY <3>1, <3>2
  <2>10. QED
    BY <2>9 DEF Paid
<1>8. CASE Check
  <2>1. synced' = synced /\ left'["sync"] = left["sync"]
    BY <1>8 DEF TurnInv, Types, Events, Check, history, Spend, timer
  <2>2. \A m \in Meters : Owed(m)' => Owed(m)
    BY <1>8 DEF TurnInv, Types, Steps, Turn, Owed, InTurn, Check, locals, timer
  <2>3. Asked' => Asked
    BY <1>8 DEF Asked, Check, locals, flags, timer
  <2>4. QED
    BY <2>1, <2>2, <2>3, PaidFrame
<1>9. CASE QueryAnswered
  <2>1. synced' = synced /\ left'["sync"] = left["sync"]
    BY <1>9 DEF TurnInv, Types, Events, QueryAnswered, history, Spend, timer
  <2>2. \A m \in Meters : Owed(m)' => Owed(m)
    BY <1>9 DEF TurnInv, Types, Steps, Turn, Owed, InTurn, QueryAnswered, locals, timer
  <2>3. Asked' => Asked
    BY <1>9 DEF Asked, QueryAnswered, locals, flags, timer
  <2>4. QED
    BY <2>1, <2>2, <2>3, PaidFrame
<1>10. CASE QueryFails
  <2>1. synced' = synced /\ left'["sync"] = left["sync"]
    BY <1>10 DEF TurnInv, Types, Events, QueryFails, history, Spend, timer
  <2>2. \A m \in Meters : Owed(m)' => Owed(m)
    BY <1>10 DEF TurnInv, Types, Steps, Turn, Owed, InTurn, QueryFails, locals, timer
  <2>3. Asked' => Asked
    BY <1>10 DEF Asked, QueryFails, locals, flags, timer
  <2>4. QED
    BY <2>1, <2>2, <2>3, PaidFrame
<1>11. CASE CompareAlarm
  <2>1. synced' = synced /\ left'["sync"] = left["sync"]
    BY <1>11 DEF TurnInv, Types, Events, CompareAlarm, history, Spend, timer
  <2>2. \A m \in Meters : Owed(m)' => Owed(m)
    BY <1>11 DEF TurnInv, Types, Steps, Turn, Owed, InTurn, CompareAlarm, locals, timer
  <2>3. Asked' => Asked
    BY <1>11 DEF Asked, CompareAlarm, locals, flags, timer
  <2>4. QED
    BY <2>1, <2>2, <2>3, PaidFrame
<1>12. CASE ReadAlarm
  <2>1. synced' = synced /\ left'["sync"] = left["sync"]
    BY <1>12 DEF TurnInv, Types, Events, ReadAlarm, history, Spend, timer
  <2>2. \A m \in Meters : Owed(m)' => Owed(m)
    BY <1>12 DEF TurnInv, Types, Steps, Turn, Owed, InTurn, ReadAlarm, locals, timer
  <2>3. Asked' => Asked
    BY <1>12 DEF Asked, ReadAlarm, locals, flags, timer
  <2>4. QED
    BY <2>1, <2>2, <2>3, PaidFrame
<1>13. CASE SendAlarm
  <2>1. synced' = synced /\ left'["sync"] = left["sync"]
    BY <1>13 DEF TurnInv, Types, Events, SendAlarm, history, Spend, timer
  <2>2. \A m \in Meters : Owed(m)' => Owed(m)
    BY <1>13 DEF TurnInv, Types, Steps, Turn, Owed, InTurn, SendAlarm, locals, timer
  <2>3. Asked' => Asked
    BY <1>13 DEF Asked, SendAlarm, locals, flags, timer
  <2>4. QED
    BY <2>1, <2>2, <2>3, PaidFrame
<1>14. CASE SendAlarmFails
  <2>1. synced' = synced /\ left'["sync"] = left["sync"]
    BY <1>14 DEF TurnInv, Types, Events, SendAlarmFails, history, Spend, timer
  <2>2. \A m \in Meters : Owed(m)' => Owed(m)
    BY <1>14 DEF TurnInv, Types, Steps, Turn, Owed, InTurn, SendAlarmFails, locals, timer
  <2>3. Asked' => Asked
    BY <1>14 DEF Asked, SendAlarmFails, locals, flags, timer
  <2>4. QED
    BY <2>1, <2>2, <2>3, PaidFrame
<1>15. CASE Pause
  <2>1. synced' = synced /\ left'["sync"] = left["sync"]
    BY <1>15 DEF TurnInv, Types, Events, Pause, history, Spend, timer
  <2>2. \A m \in Meters : Owed(m)' => Owed(m)
    BY <1>15 DEF TurnInv, Types, Steps, Turn, Owed, InTurn, Pause, locals, timer
  <2>3. Asked' => Asked
    BY <1>15 DEF Asked, Pause, locals, flags, timer
  <2>4. QED
    BY <2>1, <2>2, <2>3, PaidFrame
<1>16. CASE Rotate
  <2>1. synced' = synced /\ left'["sync"] = left["sync"]
    BY <1>16 DEF Rotate, history
  <2>2. /\ devInfos \in Seq(Dev) /\ devInfos # <<>> /\ Distinct(devInfos)
        /\ info \in Dev /\ Id(info) = Id(devInfos[1])
        /\ 1 \in DOMAIN devInfos
    BY <1>16, LenProperties, EmptySeq DEF TurnInv, Ring, Turn, InTurn, Rotate
  <2>3. \A i \in DOMAIN devInfos' : \/ devInfos'[i] = info
                                   \/ \E j \in DOMAIN devInfos : j # 1 /\ devInfos'[i] = devInfos[j]
    BY <1>16, <2>2, RotateDistinct DEF Rotate
  <2>4. ASSUME NEW m \in Meters, Owed(m)'
        PROVE  Owed(m)
    <3>1. PICK i \in DOMAIN devInfos' : Id(devInfos'[i]) = <<METER, m>> /\ devInfos'[i].opt
      BY <1>16, <2>4 DEF Owed, InTurn, Rotate
    <3>2. CASE devInfos'[i] = info
      BY <1>16, <2>2, <3>1, <3>2 DEF Owed, InTurn, Rotate
    <3>3. CASE \E j \in DOMAIN devInfos : j # 1 /\ devInfos'[i] = devInfos[j]
      BY <3>1, <3>3 DEF Owed
    <3>4. QED
      BY <2>3, <3>2, <3>3
  <2>5. Asked' => Asked
    BY <1>16 DEF Asked, Rotate, flags
  <2>6. QED
    BY <2>1, <2>4, <2>5, PaidFrame
<1>17. ASSUME NEW c \in CountChoices, SetDeviceCount(c)
      PROVE  Paid'
  <2>1. synced' = synced /\ left'["sync"] = left["sync"]
    BY <1>17 DEF TurnInv, Types, Events, SetDeviceCount, history, Spend, timer
  <2>2. \A m \in Meters : Owed(m)' => Owed(m)
    BY <1>17 DEF TurnInv, Types, Steps, Turn, Owed, InTurn, SetDeviceCount, locals, timer
  <2>3. Asked' => Asked
    BY <1>17 DEF Asked, SetDeviceCount, locals, flags, timer
  <2>4. QED
    BY <2>1, <2>2, <2>3, PaidFrame
<1>18. CASE TimeFrame
  <2>1. synced' = synced /\ left'["sync"] = left["sync"] - 1
    BY <1>18 DEF TurnInv, Types, Events, TimeFrame, Spend, timer, history
  <2>2. \A m \in Meters : Owed(m)' => Owed(m)
    BY <1>18 DEF Owed, TimeFrame, timer, locals
  <2>3. left["sync"] \in Nat /\ Budget["sync"] \in Nat /\ \A m \in Meters : synced[m] \in Nat
    BY ChoiceAssumption DEF TurnInv, Types, Events
  <2>4. \A m \in Meters : synced[m] + (IF Owed(m) THEN 1 ELSE 0) + (IF Asked THEN 1 ELSE 0)
          <= Budget["sync"] - left["sync"]
    BY DEF Paid
  <2> HIDE DEF Owed, Asked
  <2>5. ASSUME NEW m \in Meters
        PROVE  synced'[m] + (IF Owed(m)' THEN 1 ELSE 0) + (IF Asked' THEN 1 ELSE 0)
                 <= Budget["sync"] - left'["sync"]
    BY <2>1, <2>2, <2>3, <2>4
  <2>6. QED
    BY <2>5 DEF Paid
<1>19. CASE KongguanSet
  <2>1. synced' = synced /\ left'["sync"] = left["sync"]
    BY <1>19 DEF TurnInv, Types, Events, KongguanSet, history, Spend, timer
  <2>2. \A m \in Meters : Owed(m)' => Owed(m)
    BY <1>19 DEF TurnInv, Types, Steps, Turn, Owed, InTurn, KongguanSet, locals, timer
  <2>3. Asked' => Asked
    BY <1>19 DEF Asked, KongguanSet, locals, flags, timer
  <2>4. QED
    BY <2>1, <2>2, <2>3, PaidFrame
<1>20. ASSUME NEW f \in BOOLEAN, KongguanFire(f)
      PROVE  Paid'
  <2>1. synced' = synced /\ left'["sync"] = left["sync"]
    BY <1>20 DEF TurnInv, Types, Events, KongguanFire, history, Spend, timer
  <2>2. \A m \in Meters : Owed(m)' => Owed(m)
    BY <1>20 DEF TurnInv, Types, Steps, Turn, Owed, InTurn, KongguanFire, locals, timer
  <2>3. Asked' => Asked
    BY <1>20 DEF Asked, KongguanFire, locals, flags, timer
  <2>4. QED
    BY <2>1, <2>2, <2>3, PaidFrame
<1>21. ASSUME NEW f \in BOOLEAN, SetFireAlarm(f)
      PROVE  Paid'
  <2>1. synced' = synced /\ left'["sync"] = left["sync"]
    BY <1>21 DEF TurnInv, Types, Events, SetFireAlarm, history, Spend, timer
  <2>2. \A m \in Meters : Owed(m)' => Owed(m)
    BY <1>21 DEF TurnInv, Types, Steps, Turn, Owed, InTurn, SetFireAlarm, locals, timer
  <2>3. Asked' => Asked
    BY <1>21 DEF Asked, SetFireAlarm, locals, flags, timer
  <2>4. QED
    BY <2>1, <2>2, <2>3, PaidFrame
<1>22. ASSUME NEW a \in Units, RpcCall(a)
      PROVE  Paid'
  <2>1. synced' = synced /\ left'["sync"] = left["sync"]
    BY <1>22 DEF TurnInv, Types, Events, RpcCall, history, Spend, timer
  <2>2. \A m \in Meters : Owed(m)' => Owed(m)
    BY <1>22 DEF TurnInv, Types, Steps, Turn, Owed, InTurn, RpcCall, locals, timer
  <2>3. Asked' => Asked
    BY <1>22 DEF Asked, RpcCall, locals, flags, timer
  <2>4. QED
    BY <2>1, <2>2, <2>3, PaidFrame
<1>23. CASE RpcSend
  <2>1. synced' = synced /\ left'["sync"] = left["sync"]
    BY <1>23 DEF TurnInv, Types, Events, RpcSend, history, Spend, timer
  <2>2. \A m \in Meters : Owed(m)' => Owed(m)
    BY <1>23 DEF TurnInv, Types, Steps, Turn, Owed, InTurn, RpcSend, locals, timer
  <2>3. Asked' => Asked
    BY <1>23 DEF Asked, RpcSend, locals, flags, timer
  <2>4. QED
    BY <2>1, <2>2, <2>3, PaidFrame
<1>24. CASE UNCHANGED vars
  BY <1>24 DEF vars, locals, flags, history, Paid, Owed, Asked
<1>25. QED
  BY <1>1, <1>2, <1>3, <1>4, <1>5, <1>6, <1>7, <1>8, <1>9, <1>10, <1>11, <1>12, <1>13, <1>14, <1>15, <1>16, <1>17, <1>18, <1>19, <1>20, <1>21, <1>22, <1>23, <1>24 DEF Next, Run, Others

LEMMA PaidInit == Init => Paid
<1> SUFFICES ASSUME Init, NEW m \in Meters
             PROVE  synced[m] + (IF Owed(m) THEN 1 ELSE 0) + (IF Asked THEN 1 ELSE 0)
                      <= Budget["sync"] - left["sync"]
  BY DEF Paid
<1>1. ~Owed(m) /\ ~Asked
  <2>1. DOMAIN <<>> = {}
    BY EmptySeq, LenProperties
  <2>2. QED
    BY <2>1 DEF Init, Owed, Asked
<1>2. synced[m] = 0 /\ left["sync"] = Budget["sync"] /\ Budget["sync"] \in Nat
  BY ChoiceAssumption DEF Init, Events
<1>3. QED
  BY <1>1, <1>2

LEMMA PaidImplies == TurnInv /\ Paid => SyncOncePerFrame
<1> SUFFICES ASSUME TurnInv, Paid, NEW m \in Meters
             PROVE  synced[m] <= Budget["sync"] - left["sync"]
  BY DEF SyncOncePerFrame
<1>1. synced[m] \in Nat /\ left["sync"] \in Nat /\ Budget["sync"] \in Nat
  BY ChoiceAssumption DEF TurnInv, Types, Events
<1>2. synced[m] + (IF Owed(m) THEN 1 ELSE 0) + (IF Asked THEN 1 ELSE 0)
        <= Budget["sync"] - left["sync"]
  BY DEF Paid
<1> HIDE DEF Owed, Asked
<1>3. QED
  BY <1>1, <1>2

\* No meter's clock is set more often than the kongguan has sent a time frame,
\* although marks are copied, rebuilt and cleared outside any lock.
THEOREM SyncCorrect == Spec => []SyncOncePerFrame
<1>1. Init => TurnInv /\ Paid
  BY InitTurn, PaidInit
<1>2. TurnInv /\ Paid /\ [Next]_vars => (TurnInv /\ Paid)'
  BY TurnInductive, PaidStep
<1>3. TurnInv /\ Paid => SyncOncePerFrame
  BY PaidImplies
<1>4. QED
  BY <1>1, <1>2, <1>3, PTL DEF Spec
=============================================================================
